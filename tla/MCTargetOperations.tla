------------------------ MODULE MCTargetOperations ------------------------
EXTENDS TargetOperations, TLC

CONSTANTS r1, r2, t1, t2, o1, o2, o3, o4, d, df, g, v1, w1, w2

\* Two tickets, one run each: the first writes a file in a folder and moves it
\* out, the second deletes the folder and everything in it.
TwoTickets == (r1 :> t1) @@ (r2 :> t2)
MoveAndDelete ==
    (o1 :> [run |-> r1, rank |-> 1, kind |-> "writeFile", path |-> df, next |-> df, value |-> v1])
    @@ (o2 :> [run |-> r1, rank |-> 2, kind |-> "renamePath", path |-> df, next |-> g, value |-> v1])
    @@ (o3 :> [run |-> r2, rank |-> 1, kind |-> "deletePath", path |-> d, next |-> d, value |-> v1])
    @@ (o4 :> [run |-> r2, rank |-> 2, kind |-> "renamePath", path |-> g, next |-> df, value |-> v1])

FolderTree == (Root :> {}) @@ (d :> {Root}) @@ (df :> {Root, d}) @@ (g :> {Root})
ByName     == (Root :> 0) @@ (d :> 1) @@ (df :> 2) @@ (g :> 3)
TwoEach    == [r \in {r1, r2} |-> 2]

\* Each worker has a process of its own.
TwoProcesses == (w1 :> 1) @@ (w2 :> 2)

Symmetry == Permutations(Workers)
=============================================================================
