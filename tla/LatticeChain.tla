----------------------------- MODULE LatticeChain -----------------------------
(***************************************************************************)
(* The data structure of src/src/chain.rs: blocks, the per-node chains of  *)
(* the lattice, and the order in which a committee is taken from the sums  *)
(* of scores (CommitteeElection, which adds them up as floats).  A lattice *)
(* maps each author to the sequence of its blocks; an author the HashMap   *)
(* has no key for has the empty sequence, which is the same thing because  *)
(* a key is only ever created together with a first block.                 *)
(*                                                                         *)
(* Abstractions.  SHA-256 is taken to be injective: the hash of a block is *)
(* the tuple of the fields that calculate_hash feeds to the hasher.  A     *)
(* trust score is a natural number instead of an f64.  The signature of a  *)
(* block, which the code fills with the start time of the epoch and never  *)
(* verifies, is that start time.                                           *)
(***************************************************************************)
EXTENDS Naturals, Sequences, FiniteSets, FiniteSetsExt

CONSTANTS
  Node,     \* the participants, named by their master address
  Delta,    \* the model updates a training run can produce
  NoDelta,  \* the empty payload of a round whose training failed
  Score,    \* the trust weights the ML engine can publish
  Rank      \* the string order of the addresses, which breaks ties

ASSUME NodeAssumption  == IsFiniteSet(Node)
ASSUME DeltaAssumption == NoDelta \notin Delta
ASSUME ScoreAssumption == Score \subseteq Nat
ASSUME RankAssumption  == /\ Rank \in [Node -> Nat]
                          /\ \A m, n \in Node : Rank[m] = Rank[n] => m = n

GenesisHash == << >>           \* "0".repeat(64), the prev_hash of a first block
NoHash      == <<"unsealed">>  \* String::new(), the hash of an unsealed block

Proposal(delta) == [kind |-> "proposal", delta |-> delta]
Evaluation(target, proposalHash, score) ==
  [kind |-> "evaluation", target |-> target, proposal_hash |-> proposalHash,
   trust_score |-> score]

CalculateHash(b) == <<b.node_id, b.prev_hash, b.block_type>>

Block(node, prev, type, epoch) ==
  [node_id |-> node, prev_hash |-> prev, block_type |-> type,
   signature |-> epoch, hash |-> NoHash]

Seal(b) == [b EXCEPT !.hash = CalculateHash(b)]

IsProposal(b)   == b.block_type.kind = "proposal"
IsEvaluation(b) == b.block_type.kind = "evaluation"

-------------------------------------------------------------------------------
EmptyLattice == [a \in Node |-> << >>]

KnownAuthors(lattice) == {a \in Node : lattice[a] # << >>}

TailHash(chain) == IF chain = << >> THEN GenesisHash ELSE chain[Len(chain)].hash

\* Variants with a fault, for the mutation of AddLatticeBlock: the hash is not
\* checked; a chain is replaced instead of extended; only a block that links to
\* the end of its chain is accepted.
AddUnchecked(lattice, b) == [lattice EXCEPT ![b.node_id] = Append(@, b)]
AddReplacing(lattice, b) ==
  IF b.hash # CalculateHash(b) THEN lattice
  ELSE [lattice EXCEPT ![b.node_id] = <<b>>]
AddLinked(lattice, b) ==
  IF b.hash # CalculateHash(b) \/ b.prev_hash # TailHash(lattice[b.node_id])
  THEN lattice
  ELSE [lattice EXCEPT ![b.node_id] = Append(@, b)]

AddLatticeBlock(lattice, b) ==
  IF b.hash # CalculateHash(b) THEN lattice
  ELSE [lattice EXCEPT ![b.node_id] = Append(@, b)]

\* The position at which a scan of the chain from its end meets a proposal:
\* at most one, none when the chain has no proposal.
LatestProposal(chain) ==
  {i \in DOMAIN chain : /\ IsProposal(chain[i])
                        /\ \A j \in DOMAIN chain : j > i => ~IsProposal(chain[j])}

-------------------------------------------------------------------------------
\* The sort of (address, score) pairs -- higher score first, then the smaller
\* address -- and the k that come first.
Outranks(rep, t, u) ==
  rep[t] > rep[u] \/ (rep[t] = rep[u] /\ Rank[t] < Rank[u])

TopRanked(rep, k) ==
  {t \in DOMAIN rep :
     Cardinality({u \in DOMAIN rep \ {t} : Outranks(rep, u, t)}) < k}
===============================================================================
