----------------------------- MODULE MCTrustEngine -----------------------------
(* TrustEngine on small instances. *)
EXTENDS TrustEngine

CONSTANTS me, p1, weight

\* Both ends of the range that trust can have when it starts inside it.
SmallDrawn == {-1225, 1225}
================================================================================
