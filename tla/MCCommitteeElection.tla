-------------------------- MODULE MCCommitteeElection --------------------------
(* CommitteeElection on small instances. *)
EXTENDS CommitteeElection

CONSTANTS n1, n2, n3

RankOf == [n \in Node |-> CASE n = n1 -> 1 [] n = n2 -> 2 [] n = n3 -> 3]
================================================================================
