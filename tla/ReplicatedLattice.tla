--------------------------- MODULE ReplicatedLattice ---------------------------
(***************************************************************************)
(* What the lattice of src/src/chain.rs, kept by the nodes of              *)
(* src/src/main.rs, promises whatever the network and the clock do.  Every *)
(* author has a set of issued blocks that only grows; every node has a     *)
(* view that holds issued blocks only.  A view gains a block when its node *)
(* issues it or learns it, and a node that starts again forgets everything *)
(* it knew -- but nobody's issued blocks change, its own included.         *)
(***************************************************************************)
EXTENDS LatticeChain

VARIABLES
  issued,  \* issued[a]: the blocks node a has put into the world
  view     \* view[n]: the blocks node n holds, of all authors

Init == /\ issued = [a \in Node |-> {}]
        /\ view   = [n \in Node |-> {}]

\* No author proposes twice for one epoch.
NewProposal(a, b) ==
  /\ IsProposal(b)
  /\ \A p \in issued[a] : IsProposal(p) => p.signature # b.signature

\* An evaluation names a proposal that its target really made.
GroundedEvaluation(b) ==
  /\ IsEvaluation(b)
  /\ \E p \in issued[b.block_type.target] :
       IsProposal(p) /\ p.hash = b.block_type.proposal_hash

Issue(a, b) ==
  /\ b.node_id = a
  /\ b.hash = CalculateHash(b)
  /\ NewProposal(a, b) \/ GroundedEvaluation(b)
  /\ issued' = [issued EXCEPT ![a] = @ \cup {b}]
  /\ view'   = [view EXCEPT ![a] = @ \cup {b}]

Learn(n, b) ==
  /\ view' = [view EXCEPT ![n] = @ \cup {b}]
  /\ UNCHANGED issued

Forget(n) ==
  /\ view' = [view EXCEPT ![n] = {}]
  /\ UNCHANGED issued

Next == \E n \in Node :
          \/ \E b \in issued'[n] : Issue(n, b)
          \/ \E a \in Node : \E b \in issued[a] : Learn(n, b)
          \/ Forget(n)

Spec == Init /\ [][Next]_<<issued, view>>
================================================================================
