\* Two files with two values in a directory, two commits to a block and
\* revisions of three bits; two directories besides the root, two entries in
\* each.
SPECIFICATION Spec
CONSTANTS
    Files = {f1, f2}
    Values = {v1, v2}
    Room = 2
    Revisions = 8
    Dirs = {r, p, q}
    Root = r
    Names = {a, b}
    MaxOps = 7
SYMMETRY Symmetry
INVARIANTS PairSurvives TreeSurvives
