------------------------------- MODULE LfsTree -------------------------------
(***************************************************************************)
(* The directory tree of littlefs under power loss (lib/littlefs/lfs2.c):  *)
(* operations that take more than one commit.  Each directory is a         *)
(* metadata pair whose commits are atomic (LfsPair); all of them are on a  *)
(* list linked by their tails, which is what mounting and the block        *)
(* allocator follow.  A pending move and the presence of orphans are       *)
(* recorded in a global state that is the xor of a share in every          *)
(* directory on the list.                                                  *)
(*                                                                         *)
(* A global state is the set of what it records, and xor the symmetric     *)
(* difference.  An entry is named where the code has its id: no commit to  *)
(* the directory comes between recording a move and carrying it out.  No   *)
(* directory is split or relocated, no commit fails.                       *)
(***************************************************************************)
EXTENDS Naturals, FiniteSets

CONSTANTS Dirs, Root, Names,
          MaxOps       \* bound on the operations

\* LFS2_BLOCK_NULL, the pair of a tail that ends the list.
Null == "null"

ASSUME LfsTreeAssumption ==
    /\ IsFiniteSet(Dirs) /\ Root \in Dirs /\ Null \notin Dirs
    /\ MaxOps \in Nat

Absent == [type |-> "absent", pair |-> Null]
File == [type |-> "file", pair |-> Null]
Dir(d) == [type |-> "dir", pair |-> d]

VARIABLES disk,        \* entries, tail and share of each directory
          gstate, gdisk,
          op,          \* the operation in progress
          ops,         \* how many there have been, to bound the run
          tree         \* history: the tree before and after that operation

treeVars == <<disk, gstate, gdisk, op, ops, tree>>

Xor(a, b) == (a \ b) \cup (b \ a)
Orphans == {<<"orphans">>}
Move(d, n) == {<<"move", d, n>>}
PendingMove(g) == g \ Orphans
NoOp == [at |-> "idle", d |-> Root, n |-> Null, c |-> Null]

\* The directories that step leads to from one, with it.
Closure(from, step) ==
    LET f[i \in 0 .. Cardinality(Dirs)] ==
          IF i = 0 THEN {from}
          ELSE f[i - 1] \cup ((UNION {step[d] : d \in f[i - 1]}) \ {Null})
    IN f[Cardinality(Dirs)]

\* The tail list, and the global state that mounting reads from it.
List == Closure(Root, [d \in Dirs |-> {disk[d].tail}])
OnDisk == {a \in UNION {disk[d].g : d \in List} :
             Cardinality({d \in List : a \in disk[d].g}) % 2 = 1}

\* What a reader sees under global state g: an entry that is being moved is
\* hidden where it was.
Seen(g, d) == [n \in Names |-> IF <<"move", d, n>> \in g THEN Absent
                               ELSE disk[d].kids[n]]
Subdirs(g, d) == {Seen(g, d)[n].pair : n \in Names}
Reached(g) == Closure(Root, [d \in Dirs |-> Subdirs(g, d)])
Tree(g) == [d \in Reached(g) |-> Seen(g, d)]

Empty == [n \in Names |-> Absent]

\* A new file system, mounted.
TreeInit == /\ disk = [d \in Dirs |->
                         [kids |-> Empty, tail |-> Null, g |-> {}]]
            /\ gstate = {} /\ gdisk = {}
            /\ op = NoOp /\ ops = 0
            /\ tree = [old |-> Tree({}), new |-> Tree({})]
-----------------------------------------------------------------------------
\* lfs2_dir_commit: the entries and the tail with the difference that the
\* global state has come to, in the directory's share.
Commit(d, kids, tail, g, stolen) ==
    /\ disk' = [disk EXCEPT ![d] =
                  [kids |-> kids, tail |-> tail,
                   g |-> Xor(@.g, Xor(Xor(g, gdisk), stolen))]]
    /\ gstate' = g /\ gdisk' = g

\* The directory whose tail c is.
Pred(c) == CHOOSE d \in List : disk[d].tail = c

Entered(d, n, e) == [disk[d].kids EXCEPT ![n] = e]

\* The operation makes t of the tree, and has returned if nothing is left
\* to do; the later steps of an operation.
Makes(t) == tree' = [old |-> IF op'.at = "idle" THEN t ELSE tree.new,
                     new |-> t]
GoesOn == Makes(tree.new)

\* A tree with entry n of d changed, and a tree without directory c.
Set(t, d, n, e) == [t EXCEPT ![d][n] = e]
Less(t, c) == [d \in DOMAIN t \ {c} |-> t[d]]

\* lfs2_dir_drop: the predecessor takes over the tail and the share of c.
DropAfter(c, g) ==
    Commit(Pred(c), disk[Pred(c)].kids, disk[c].tail, g, disk[c].g)

\* lfs2_fs_forceconsistency, before every operation that writes: first a
\* pending move is finished.
Demove ==
    /\ op.at = "idle" /\ PendingMove(gdisk) # {}
    /\ \E d \in Dirs, n \in Names :
         /\ PendingMove(gdisk) = Move(d, n)
         /\ Commit(d, Entered(d, n, Absent), disk[d].tail, gstate \cap Orphans,
                   {})
    /\ UNCHANGED <<op, ops, tree>>

\* The directories on the list that no directory on it has an entry for.
Parentless == List \ ({Root} \cup UNION {Subdirs(gdisk, d) : d \in List})

\* Then directories without a parent are taken off the list.
Deorphan ==
    /\ op.at = "idle" /\ PendingMove(gdisk) = {} /\ Orphans \subseteq gstate
    /\ \E c \in Parentless : DropAfter(c, gstate)
    /\ UNCHANGED <<op, ops, tree>>

\* No more of them: the flag is cleared in memory, and on disk by the next
\* commit.
Deorphaned ==
    /\ op.at = "idle" /\ PendingMove(gdisk) = {} /\ Orphans \subseteq gstate
    /\ Parentless = {}
    /\ gstate' = gstate \ Orphans
    /\ UNCHANGED <<disk, gdisk, op, ops, tree>>

\* An operation that writes begins.
Begins == /\ op.at = "idle" /\ PendingMove(gdisk) = {}
          /\ gstate \cap Orphans = {}
          /\ ops < MaxOps /\ ops' = ops + 1
-----------------------------------------------------------------------------
\* lfs2_file_rawopencfg with LFS2_O_CREAT.
CreateFile(d, n) ==
    /\ Begins /\ disk[d].kids[n] = Absent
    /\ Commit(d, Entered(d, n, File), disk[d].tail, gstate, {})
    /\ UNCHANGED op /\ Makes(Set(tree.new, d, n, File))

\* lfs2_rawremove of a file.
RemoveFile(d, n) ==
    /\ Begins /\ disk[d].kids[n] = File
    /\ Commit(d, Entered(d, n, Absent), disk[d].tail, gstate, {})
    /\ UNCHANGED op /\ Makes(Set(tree.new, d, n, Absent))

\* Mutant of RemoveDir: the orphan is not announced.
RemoveDirQuiet(d, n) ==
    LET c == disk[d].kids[n].pair IN
    /\ Begins /\ c # Null /\ disk[c].kids = Empty
    /\ Commit(d, Entered(d, n, Absent), disk[d].tail, gstate, {})
    /\ op' = [NoOp EXCEPT !.at = "drop", !.c = c]
    /\ Makes(Less(Set(tree.new, d, n, Absent), c))

\* lfs2_rawremove of an empty directory: the entry goes, with a warning that
\* there is an orphan.
RemoveDir(d, n) ==
    LET c == disk[d].kids[n].pair IN
    /\ Begins /\ c # Null /\ disk[c].kids = Empty
    /\ Commit(d, Entered(d, n, Absent), disk[d].tail, gstate \cup Orphans, {})
    /\ op' = [NoOp EXCEPT !.at = "drop", !.c = c]
    /\ Makes(Less(Set(tree.new, d, n, Absent), c))

\* The directory then leaves the list.
Drop ==
    /\ op.at = "drop"
    /\ DropAfter(op.c, gstate \ Orphans)
    /\ op' = NoOp /\ GoesOn /\ UNCHANGED ops

\* lfs2_rawmkdir: a pair that is not in use is written, with the tail of its
\* parent.
MakeDir(d, n, c) ==
    /\ Begins /\ disk[d].kids[n] = Absent /\ c \notin List
    /\ disk' = [disk EXCEPT ![c] = [kids |-> Empty, tail |-> disk[d].tail,
                                    g |-> Xor(gstate, gdisk)]]
    /\ gdisk' = gstate
    /\ op' = [at |-> "insert", d |-> d, n |-> n, c |-> c]
    /\ Makes([x \in DOMAIN tree.new \cup {c} |->
                IF x = c THEN Empty ELSE Set(tree.new, d, n, Dir(c))[x]])
    /\ UNCHANGED gstate

\* One commit to the parent enters it and puts it on the list.
Insert ==
    /\ op.at = "insert"
    /\ Commit(op.d, Entered(op.d, op.n, Dir(op.c)), op.c, gstate, {})
    /\ op' = NoOp /\ GoesOn /\ UNCHANGED ops

\* The directories below c.  littlefs does not look whether a directory is
\* moved below itself, which would cut it off; programs are taken not to.
Below(c) ==
    Closure(c, [d \in Dirs |-> {disk[d].kids[n].pair : n \in Names}])

\* lfs2_rawrename of entry n of d to m of e, in place of what m was: one
\* commit within a directory; into another the old entry stays for now, with
\* the move recorded.
Rename(d, n, e, m) ==
    LET entry == disk[d].kids[n]
        prev == disk[e].kids[m]
    IN /\ Begins /\ entry # Absent /\ <<d, n>> # <<e, m>>
       /\ prev.type \in {"absent", entry.type}
       /\ prev.pair # Null => disk[prev.pair].kids = Empty
       /\ entry.pair # Null => e \notin Below(entry.pair)
       /\ Commit(e, [Entered(e, m, entry) EXCEPT
                       ![n] = IF d = e THEN Absent ELSE @],
                 disk[e].tail,
                 gstate \cup (IF prev.pair # Null THEN Orphans ELSE {})
                        \cup (IF d # e THEN Move(d, n) ELSE {}), {})
       /\ op' = [at |-> IF d # e THEN "unlink"
                        ELSE IF prev.pair # Null THEN "drop" ELSE "idle",
                 d |-> d, n |-> n, c |-> prev.pair]
       /\ Makes(Less(Set(Set(tree.new, d, n, Absent), e, m, entry),
                     prev.pair))

\* The second commit removes the old entry and the record of the move.
Unlink ==
    /\ op.at = "unlink"
    /\ Commit(op.d, Entered(op.d, op.n, Absent), disk[op.d].tail,
              gstate \cap Orphans, {})
    /\ op' = [op EXCEPT !.at = IF op.c # Null THEN "drop" ELSE "idle"]
    /\ GoesOn /\ UNCHANGED ops
-----------------------------------------------------------------------------
\* The power goes, and lfs2_rawmount reads the global state anew.
PowerLoss ==
    /\ gstate' = OnDisk /\ gdisk' = OnDisk
    /\ op' = NoOp
    /\ tree' = [old |-> Tree(OnDisk), new |-> Tree(OnDisk)]
    /\ UNCHANGED <<disk, ops>>

Repairs == Demove \/ Deorphan \/ Deorphaned
FileOps == \E d \in Reached(gdisk), n \in Names :
             CreateFile(d, n) \/ RemoveFile(d, n)
DirOps == \E d \in Reached(gdisk), n \in Names :
            RemoveDir(d, n) \/ \E c \in Dirs : MakeDir(d, n, c)
Renames == \E d, e \in Reached(gdisk), n, m \in Names : Rename(d, n, e, m)

TreeNext == Repairs \/ FileOps \/ DirOps \/ Renames \/ Drop \/ Insert \/ Unlink
              \/ PowerLoss

TreeSpec == TreeInit /\ [][TreeNext]_treeVars
-----------------------------------------------------------------------------
\* Whatever commit the power goes after, a mount shows the tree as it was
\* before the operation or as it is after it: a file that is renamed is in
\* one place, and no other file is touched.
TreeIsOldOrNew == Tree(OnDisk) \in {tree.old, tree.new}

\* The blocks of a directory in the tree are never free to the allocator:
\* every directory of the tree is on the list.
TreeOnList == Reached(OnDisk) \subseteq List

\* A directory that has left the tree is not forgotten on the list: either
\* it is not there, or the flag that makes the next write look for it is.
OrphansAreFlagged ==
    PendingMove(OnDisk) = {} /\ OnDisk \cap Orphans = {} /\ op.at = "idle"
      => List = Reached(OnDisk)

\* The tree survives a loss of power between the commits of an operation: it
\* is the old or the new one, every directory is on the threaded list, and
\* what is on the list alone is known to be (lfs2.c:2567-2660, 3819-4030,
\* 4850-4998).
TreeSurvives == TreeIsOldOrNew /\ TreeOnList /\ OrphansAreFlagged
=============================================================================
