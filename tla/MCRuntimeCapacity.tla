------------------------- MODULE MCRuntimeCapacity -------------------------
EXTENDS RuntimeCapacity, TLC

CONSTANTS r1, r2, p1, p2, target, launcher

\* A process operation needs its target and the launcher; the other run's
\* operation needs another target served by the same launcher.
SharedLauncher == (r1 :> <<target, launcher>>) @@ (r2 :> <<launcher>>)
OneEach        == [x \in {target, launcher} |-> 1]

\* The processes are interchangeable; the runs need different resources.
Symmetry == Permutations({p1, p2})
=============================================================================
