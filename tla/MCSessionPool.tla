---------------------------- MODULE MCSessionPool ----------------------------
(***************************************************************************)
(* Instances of SessionPool for TLC.                                       *)
(***************************************************************************)
EXTENDS SessionPool, TLC

\* Connections are interchangeable: no action or property tells them apart.
Symmetry == Permutations(Conns)

\* The loop of the cleanup takes what Surplus says, for every pool of up to five
\* sessions, of any ages, and every reserve.
ASSUME LoopTakesSurplus ==
    \A pool \in SUBSET (1 .. 5) : \A old \in SUBSET pool : \A min \in 0 .. 6 :
        SurplusLoop(pool, old, min, 5)
            = {s \in old : Cardinality({t \in pool : t > s}) >= min}
=============================================================================
