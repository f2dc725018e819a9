----------------------------- MODULE MCLatticeNode -----------------------------
(* LatticeNode on small instances. *)
EXTENDS LatticeNode, TLC

CONSTANTS n1, n2, n3, d1, d2

RankOf == [n \in Node |-> CASE n = n1 -> 1 [] n = n2 -> 2 [] n = n3 -> 3]

CONSTANT MaxBlocks
FewBlocks == MapThenSumSet(LAMBDA n : Cardinality(authored[n]), Node) <= MaxBlocks

\* When the bound on the clock is reached, nodes wait for a time that does not
\* come; nothing but time may be missing then.
TimeUp ==
  /\ now = MaxTime
  /\ \A n \in Node : /\ pc[n] \in {"wait", "barrier", "collected"}
                     /\ channel[n] = << >>
                     /\ inflight[n] = {}
  /\ UNCHANGED vars

MCNext == Next \/ TimeUp
MCSpec == Init /\ [][MCNext]_vars

MCFairSpec == MCSpec /\ Fairness
================================================================================
