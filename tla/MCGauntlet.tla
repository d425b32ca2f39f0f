----------------------------- MODULE MCGauntlet -----------------------------
(* Gauntlet on small instances. *)
EXTENDS Gauntlet, TLC

CONSTANTS t1, t2

MCAlikePair == {{t1, t2}}
MCNone == {}

\* Which jobs may be claimed again after a failure or a recovery.
MCClaimTwice == [j \in Jobs |-> 2]
MCFirstTwice == [j \in Jobs |-> IF j[2] = t1 THEN 2 ELSE 1]

WorkerSymmetry == Permutations(Workers)

=============================================================================
