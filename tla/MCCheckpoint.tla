----------------------------- MODULE MCCheckpoint -----------------------------
(* Checkpoint on small instances. *)
EXTENDS Checkpoint, TLC

CONSTANTS r0, r1, r2

\* The training is over, or a rank failed and there is no restart left.
Over ==
  /\ \/ \A r \in Rank : pc[r] = "train" /\ step[r] = MaxStep
     \/ /\ run = MaxRestarts
        /\ \E r \in Rank : pc[r] = "failed"
  /\ UNCHANGED vars

MCNext == Next \/ Over
MCSpec == Init /\ [][MCNext]_vars

MCFairSpec == MCSpec /\ Fairness
===============================================================================
