------------------------------- MODULE MCFlash -------------------------------
(***************************************************************************)
(* The file system under power loss for model checking, at its two levels: *)
(* one directory's pair of blocks, and the tree of directories whose       *)
(* commits the pairs make atomic.  `level' is the one that runs.           *)
(***************************************************************************)
EXTENDS LfsPair, LfsTree, TLC

VARIABLE level

flashVars == <<level, pairVars, treeVars>>

\* Names, and directories other than the root, are interchangeable, and so
\* are the files and the values of a single directory.
Symmetry == Permutations(Names) \cup Permutations(Dirs \ {Root})
            \cup Permutations(Files) \cup Permutations(Values)

\* What does not run is in an initial state.
Init == /\ level \in {"pair", "tree"}
        /\ PairInit /\ TreeInit
        /\ level = "tree" => \A f, g \in Files : acked[f] = acked[g]

Next == \/ level = "pair" /\ PairNext /\ UNCHANGED <<level, treeVars>>
        \/ level = "tree" /\ TreeNext /\ UNCHANGED <<level, pairVars>>

Spec == Init /\ [][Next]_flashVars
=============================================================================
