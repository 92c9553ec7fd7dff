-------------------------- MODULE MCWorkerRegistry --------------------------
(***************************************************************************)
(* An instance of WorkerRegistry for TLC.                                  *)
(***************************************************************************)
EXTENDS WorkerRegistry, TLC

CONSTANTS brisk1, brisk2, slow, hasty

(* A tick is 2.5 seconds, so the shortest interval accepted is 3 ticks.    *)
(* Two workers are equally fast, one is too slow for them, and one asks  *)
(* for exactly 5 seconds, which NewKitchen refuses.                        *)
Intervals == (brisk1 :> 3) @@ (brisk2 :> 3) @@ (slow :> 6) @@ (hasty :> 2)

FaultLimit == [launch |-> 4, crash |-> 1, db |-> 2]

OneCrash == [launch |-> 2, crash |-> 1, db |-> 0]

Symmetric == Permutations({brisk1, brisk2})
=============================================================================
