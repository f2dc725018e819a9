--------------------------- MODULE LatticeNodeProofs ---------------------------
(***************************************************************************)
(* Proofs about LatticeNode: the inductive invariant IInv and what follows *)
(* from it, for every number of nodes, every bound and every schedule.     *)
(***************************************************************************)
EXTENDS LatticeNode, FiniteSetTheorems, TLAPS

-------------------------------------------------------------------------------
(* Chains. *)

LEMMA SeqOfElements ==
  ASSUME NEW S, NEW T, NEW s \in Seq(S), \A i \in 1..Len(s) : s[i] \in T
  PROVE  s \in Seq(T)
OBVIOUS

LEMMA ChainElements ==
  ASSUME NEW s, IsChain(s)
  PROVE  /\ Len(s) \in Nat
         /\ DOMAIN s = 1..Len(s)
         /\ \A i \in DOMAIN s : s[i] \in BlocksIn(s) /\ IsBlock(s[i])
<1>1. s \in Seq(BlocksIn(s))  BY DEF IsChain
<1>2. Len(s) \in Nat /\ DOMAIN s = 1..Len(s)  BY <1>1
<1>3. \A i \in DOMAIN s : s[i] \in BlocksIn(s)  BY DEF BlocksIn
<1> QED  BY <1>2, <1>3 DEF IsChain

LEMMA EmptyChain == IsChain(<< >>) /\ BlocksIn(<< >>) = {}
<1>1. BlocksIn(<< >>) = {}  BY DEF BlocksIn
<1> QED  BY <1>1 DEF IsChain

LEMMA EmptyDomain == ASSUME NEW s, 1 \in DOMAIN s PROVE s # << >>
OBVIOUS

LEMMA SingletonChain ==
  ASSUME NEW b, IsBlock(b)
  PROVE  IsChain(<<b>>) /\ BlocksIn(<<b>>) = {b}
<1>1. BlocksIn(<<b>>) = {b}  BY DEF BlocksIn
<1>2. <<b>> \in Seq({b})  OBVIOUS
<1> QED  BY <1>1, <1>2 DEF IsChain

LEMMA AppendChain ==
  ASSUME NEW s, NEW b, IsChain(s), IsBlock(b)
  PROVE  /\ IsChain(Append(s, b))
         /\ BlocksIn(Append(s, b)) = BlocksIn(s) \cup {b}
         /\ Len(Append(s, b)) = Len(s) + 1
         /\ DOMAIN Append(s, b) = 1..(Len(s) + 1)
         /\ \A i \in 1..Len(s) : Append(s, b)[i] = s[i]
         /\ Append(s, b)[Len(s) + 1] = b
<1> DEFINE T == BlocksIn(s) \cup {b}
           a == Append(s, b)
<1>1. s \in Seq(BlocksIn(s)) /\ Len(s) \in Nat /\ DOMAIN s = 1..Len(s)
  BY ChainElements DEF IsChain
<1>2. s \in Seq(T)
  <2>1. \A i \in 1..Len(s) : s[i] \in T  BY <1>1, ChainElements
  <2> QED  BY <1>1, <2>1
<1>3. a \in Seq(T) /\ Len(a) = Len(s) + 1 /\ DOMAIN a = 1..(Len(s) + 1)
  BY <1>2
<1>4. (\A i \in 1..Len(s) : a[i] = s[i]) /\ a[Len(s) + 1] = b
  BY <1>2
<1>5. BlocksIn(a) = T
  <2> SUFFICES ASSUME NEW x PROVE x \in BlocksIn(a) <=> x \in T
    OBVIOUS
  <2>1. x \in BlocksIn(a) <=> \E i \in 1..(Len(s) + 1) : x = a[i]  BY <1>3 DEF BlocksIn
  <2>2. x \in BlocksIn(s) <=> \E i \in 1..Len(s) : x = s[i]  BY <1>1 DEF BlocksIn
  <2>3. \A i : i \in 1..(Len(s) + 1) <=> i \in 1..Len(s) \/ i = Len(s) + 1  BY <1>1
  <2> QED  BY <2>1, <2>2, <2>3, <1>4
<1> QED  BY <1>3, <1>4, <1>5 DEF IsChain

LEMMA TailChain ==
  ASSUME NEW s, IsChain(s), s # << >>
  PROVE  /\ Head(s) \in BlocksIn(s) /\ IsBlock(Head(s))
         /\ IsChain(Tail(s))
         /\ BlocksIn(Tail(s)) \subseteq BlocksIn(s)
<1> DEFINE t == Tail(s)
<1>1. s \in Seq(BlocksIn(s)) /\ Len(s) \in Nat /\ DOMAIN s = 1..Len(s)
  BY ChainElements DEF IsChain
<1>2. Len(s) > 0  BY <1>1
<1>3. Head(s) = s[1]  BY <1>1
<1>4. t \in Seq(BlocksIn(s)) /\ Len(t) = Len(s) - 1 /\ DOMAIN t = 1..(Len(s) - 1)
  BY <1>1, <1>2
<1>5. \A i \in DOMAIN t : t[i] \in BlocksIn(s)
  BY <1>4
<1>6. BlocksIn(t) \subseteq BlocksIn(s)  BY <1>5 DEF BlocksIn
<1>7. t \in Seq(BlocksIn(t))
  <2>1. \A i \in 1..Len(t) : t[i] \in BlocksIn(t)  BY <1>4 DEF BlocksIn
  <2> HIDE DEF t
  <2> QED  BY <1>4, <2>1, SeqOfElements
<1>8. 1 \in DOMAIN s  BY <1>1, <1>2
<1> QED  BY <1>3, <1>6, <1>7, <1>8, ChainElements DEF IsChain

LEMMA AddBlock ==
  ASSUME NEW L, NEW b, DOMAIN L = Node, \A a \in Node : IsChain(L[a]), IsBlock(b)
  PROVE  /\ DOMAIN AddLatticeBlock(L, b) = Node
         /\ \A a \in Node : IsChain(AddLatticeBlock(L, b)[a])
         /\ \A a \in Node : BlocksIn(AddLatticeBlock(L, b)[a]) =
              IF Sealed(b) /\ a = b.node_id THEN BlocksIn(L[a]) \cup {b}
              ELSE BlocksIn(L[a])
<1>1. b.node_id \in Node  BY DEF IsBlock
<1>2. CASE ~Sealed(b)
  BY <1>2 DEF AddLatticeBlock, Sealed
<1>3. CASE Sealed(b)
  <2> DEFINE A == AddLatticeBlock(L, b)
  <2>1. A = [L EXCEPT ![b.node_id] = Append(@, b)]  BY <1>3 DEF AddLatticeBlock, Sealed
  <2>2. DOMAIN A = Node  BY <2>1
  <2>3. \A a \in Node : A[a] = IF a = b.node_id THEN Append(L[a], b) ELSE L[a]
    BY <2>1, <1>1
  <2> HIDE DEF A
  <2>4. \A a \in Node : IsChain(A[a])  BY <2>3, AppendChain
  <2>5. \A a \in Node : BlocksIn(A[a]) =
          IF a = b.node_id THEN BlocksIn(L[a]) \cup {b} ELSE BlocksIn(L[a])
    <3> TAKE a \in Node
    <3>1. CASE a = b.node_id   BY <2>3, <3>1, AppendChain
    <3>2. CASE a # b.node_id   BY <2>3, <3>2
    <3> QED  BY <3>1, <3>2
  <2> QED  BY <2>2, <2>4, <2>5, <1>3 DEF A
<1> QED  BY <1>2, <1>3

LEMMA LatestIsProposal ==
  ASSUME NEW chain, NEW i \in LatestProposal(chain)
  PROVE  i \in DOMAIN chain /\ IsProposal(chain[i])
BY DEF LatestProposal

LEMMA NextBoundaryLater ==
  ASSUME NEW t \in Nat
  PROVE  NextBoundary(t) \in Nat /\ NextBoundary(t) > t
<1>1. EpochDuration \in Nat /\ EpochDuration > 0  BY TimeAssumption
<1>2. t % EpochDuration \in 0..(EpochDuration - 1)  BY <1>1
<1> QED  BY <1>1, <1>2 DEF NextBoundary

LEMMA SealedBlock ==
  ASSUME NEW n, NEW prev, NEW type, NEW e
  PROVE  LET d == Block(n, prev, type, e)
         IN  /\ ~Sealed(d) /\ Sealed(Seal(d))
             /\ d.node_id = n /\ d.block_type = type /\ d.signature = e
             /\ Seal(d).node_id = n /\ Seal(d).block_type = type /\ Seal(d).signature = e
             /\ Seal(d).hash = CalculateHash(Seal(d))
BY DEF Block, Seal, Sealed, CalculateHash, NoHash

LEMMA BlockType ==
  ASSUME NEW n \in Node, NEW prev, NEW type, NEW e \in Nat,
         \/ type \in [kind : {"proposal"}, delta : Delta \cup {NoDelta}]
         \/ /\ type.kind = "evaluation"
            /\ DOMAIN type = {"kind", "target", "proposal_hash", "trust_score"}
            /\ type.target \in Node
            /\ type.trust_score \in Score
  PROVE  IsBlock(Block(n, prev, type, e)) /\ IsBlock(Seal(Block(n, prev, type, e)))
BY DEF Block, Seal, IsBlock, IsEvaluation, CalculateHash

-------------------------------------------------------------------------------
(* The inductive invariant. *)

LEMMA InitIInv == Init => IInv
<1> SUFFICES ASSUME Init PROVE IInv
  OBVIOUS
<1> USE DEF Init
<1>1. TypeOK
  <2>1. NextBoundary(0) \in Nat  BY NextBoundaryLater
  <2>2. \A n \in Node : DOMAIN lattice[n] = Node /\ \A a \in Node : lattice[n][a] = << >>
    BY DEF EmptyLattice
  <2>3. \A n \in Node : weights[n] \in [DOMAIN weights[n] -> Score]
    OBVIOUS
  <2> QED  BY <2>1, <2>2, <2>3, EmptyChain DEF TypeOK, States
<1>2. Authentic  BY EmptyChain DEF Authentic, EmptyLattice
<1>3. OneProposalPerEpoch /\ AuthoredInv  BY DEF OneProposalPerEpoch, AuthoredInv
<1>4. TransitInv  BY EmptyChain DEF TransitInv
<1>5. BatchInv  BY DEF BatchInv, BatchOk
<1>6. RoundInv  BY DEF RoundInv, RoundOk
<1> QED  BY <1>1, <1>2, <1>3, <1>4, <1>5, <1>6 DEF IInv

LEMMA StageDeltasInv ==
  ASSUME IInv, NEW n \in Node, StageDeltas(n)
  PROVE  IInv'
<1> USE DEF StageDeltas, Goto
<1>1. TypeOK'
  <2>1. ASSUME NEW p \in Node, LatestProposal(lattice[n][p]) # {}
        PROVE  lattice[n][p][CHOOSE i \in LatestProposal(lattice[n][p]) : TRUE]
                 .block_type.delta \in Delta \cup {NoDelta}
    <3> DEFINE chain == lattice[n][p]
               j     == CHOOSE i \in LatestProposal(chain) : TRUE
    <3>1. j \in LatestProposal(chain)  BY <2>1
    <3>2. j \in DOMAIN chain /\ IsProposal(chain[j])  BY <3>1, LatestIsProposal
    <3>3. IsBlock(chain[j])  BY <3>2, ChainElements DEF IInv, TypeOK
    <3> QED  BY <3>2, <3>3 DEF IsBlock, IsProposal, IsEvaluation
  <2>2. staged' \in [Node -> [Node -> Delta \cup {NoDelta}]]
    BY <2>1 DEF IInv, TypeOK
  <2>3. pc' \in [Node -> States]  BY DEF IInv, TypeOK, States
  <2> QED  BY <2>2, <2>3 DEF IInv, TypeOK, IsBlock
<1>2. Authentic'  BY DEF IInv, Authentic
<1>3. OneProposalPerEpoch'  BY DEF IInv, OneProposalPerEpoch
<1>4. AuthoredInv'  BY DEF IInv, AuthoredInv, Grounded
<1>5. TransitInv'  BY DEF IInv, TransitInv
<1>6. BatchInv'  BY DEF IInv, BatchInv, BatchOk, Grounded, TypeOK
<1>7. RoundInv'  BY DEF IInv, RoundInv, RoundOk, TypeOK
<1> QED  BY <1>1, <1>2, <1>3, <1>4, <1>5, <1>6, <1>7 DEF IInv

LEMMA CollectArgsInv ==
  ASSUME IInv, NEW n \in Node, CollectArgs(n)
  PROVE  IInv'
<1> USE DEF CollectArgs, Goto
<1>1. TypeOK'
  BY DEF IInv, TypeOK, States, IsBlock, KnownAuthors
<1>2. Authentic'  BY DEF IInv, Authentic
<1>3. OneProposalPerEpoch'  BY DEF IInv, OneProposalPerEpoch
<1>4. AuthoredInv'  BY DEF IInv, AuthoredInv, Grounded
<1>5. TransitInv'  BY DEF IInv, TransitInv
<1>6. BatchInv'  BY DEF IInv, BatchInv, BatchOk, Grounded, TypeOK
<1>7. RoundInv'  BY DEF IInv, RoundInv, RoundOk, TypeOK
<1> QED  BY <1>1, <1>2, <1>3, <1>4, <1>5, <1>6, <1>7 DEF IInv

LEMMA LeaveBarrierEarlyInv ==
  ASSUME IInv, NEW n \in Node, LeaveBarrierEarly(n)
  PROVE  IInv'
<1> USE DEF LeaveBarrierEarly, Goto
<1>1. TypeOK'
  BY DEF IInv, TypeOK, States, IsBlock
<1>2. Authentic'  BY DEF IInv, Authentic
<1>3. OneProposalPerEpoch'  BY DEF IInv, OneProposalPerEpoch
<1>4. AuthoredInv'  BY DEF IInv, AuthoredInv, Grounded
<1>5. TransitInv'  BY DEF IInv, TransitInv
<1>6. BatchInv'  BY DEF IInv, BatchInv, BatchOk, Grounded, TypeOK
<1>7. RoundInv'  BY DEF IInv, RoundInv, RoundOk, TypeOK
<1> QED  BY <1>1, <1>2, <1>3, <1>4, <1>5, <1>6, <1>7 DEF IInv

LEMMA LeaveBarrierLateInv ==
  ASSUME IInv, NEW n \in Node, LeaveBarrierLate(n)
  PROVE  IInv'
<1> USE DEF LeaveBarrierLate, Goto
<1>1. TypeOK'
  BY DEF IInv, TypeOK, States, IsBlock
<1>2. Authentic'  BY DEF IInv, Authentic
<1>3. OneProposalPerEpoch'  BY DEF IInv, OneProposalPerEpoch
<1>4. AuthoredInv'  BY DEF IInv, AuthoredInv, Grounded
<1>5. TransitInv'  BY DEF IInv, TransitInv
<1>6. BatchInv'  BY DEF IInv, BatchInv, BatchOk, Grounded, TypeOK
<1>7. RoundInv'  BY DEF IInv, RoundInv, RoundOk, TypeOK
<1> QED  BY <1>1, <1>2, <1>3, <1>4, <1>5, <1>6, <1>7 DEF IInv

LEMMA SleepToDeadlineInv ==
  ASSUME IInv, NEW n \in Node, SleepToDeadline(n)
  PROVE  IInv'
<1> USE DEF SleepToDeadline, Goto
<1>1. TypeOK'
  BY DEF IInv, TypeOK, States, IsBlock
<1>2. Authentic'  BY DEF IInv, Authentic
<1>3. OneProposalPerEpoch'  BY DEF IInv, OneProposalPerEpoch
<1>4. AuthoredInv'  BY DEF IInv, AuthoredInv, Grounded
<1>5. TransitInv'  BY DEF IInv, TransitInv
<1>6. BatchInv'  BY DEF IInv, BatchInv, BatchOk, Grounded, TypeOK
<1>7. RoundInv'  BY DEF IInv, RoundInv, RoundOk, TypeOK
<1> QED  BY <1>1, <1>2, <1>3, <1>4, <1>5, <1>6, <1>7 DEF IInv

LEMMA TrainingSucceedsInv ==
  ASSUME IInv, NEW n \in Node, TrainingSucceeds(n)
  PROVE  IInv'
<1> USE DEF TrainingSucceeds, Goto
<1>1. TypeOK'
  <2>1. PICK d \in Delta : batch' = [batch EXCEPT ![n] = <<Seal(Draft(n, d))>>]
    OBVIOUS
  <2>2. IsBlock(Seal(Draft(n, d)))  BY BlockType DEF Draft, Proposal, IInv, TypeOK
  <2>3. \A m \in Node : IsChain(batch'[m])  BY <2>1, <2>2, SingletonChain DEF IInv, TypeOK
  <2>4. \A m \in Node : weights'[m] \in [DOMAIN weights'[m] -> Score]
    BY DEF IInv, TypeOK
  <2>5. DOMAIN batch' = Node /\ DOMAIN weights' = Node  BY <2>1 DEF IInv, TypeOK
  <2> QED  BY <2>3, <2>4, <2>5 DEF IInv, TypeOK, States, IsBlock
<1>2. Authentic'  BY DEF IInv, Authentic
<1>3. OneProposalPerEpoch'  BY DEF IInv, OneProposalPerEpoch
<1>4. AuthoredInv'  BY DEF IInv, AuthoredInv, Grounded
<1>5. TransitInv'  BY DEF IInv, TransitInv
<1>6. BatchInv'
  <2>1. PICK d \in Delta : batch' = [batch EXCEPT ![n] = <<Seal(Draft(n, d))>>]
    OBVIOUS
  <2> DEFINE b == Seal(Draft(n, d))
  <2>2. DOMAIN <<b>> = {1}  OBVIOUS
  <2>3. b.node_id = n /\ b.signature = epoch[n] /\ b.block_type = Proposal(d)
    BY SealedBlock DEF Draft
  <2>4. IsProposal(b) /\ ~IsEvaluation(b)
    BY <2>3 DEF IsProposal, IsEvaluation, Proposal
  <2>5. batch' = [batch EXCEPT ![n] = <<b>>]  BY <2>1
  <2>6. unrated'[n] \subseteq DOMAIN weights'[n]  BY DEF IInv, TypeOK
  <2> HIDE DEF b
  <2>7. BatchOk(n)'
    BY <2>5, <2>6, <2>2, <2>3, <2>4 DEF IInv, TypeOK, BatchOk, Grounded
  <2>8. \A m \in Node \ {n} : BatchOk(m)'
    BY <2>5, <2>4 DEF IInv, BatchInv, BatchOk, Grounded, TypeOK
  <2> QED  BY <2>7, <2>8 DEF BatchInv
<1>7. RoundInv'  BY DEF IInv, RoundInv, RoundOk, TypeOK
<1> QED  BY <1>1, <1>2, <1>3, <1>4, <1>5, <1>6, <1>7 DEF IInv

LEMMA TrainingFailsInv ==
  ASSUME IInv, NEW n \in Node, TrainingFails(n)
  PROVE  IInv'
<1> USE DEF TrainingFails, Goto
<1>1. TypeOK'
  <2>1. IsBlock(Draft(n, NoDelta))  BY BlockType DEF Draft, Proposal, IInv, TypeOK
  <2>2. \A m \in Node : IsChain(batch'[m])  BY <2>1, SingletonChain DEF IInv, TypeOK
  <2> QED  BY <2>2 DEF IInv, TypeOK, States, IsBlock
<1>2. Authentic'  BY DEF IInv, Authentic
<1>3. OneProposalPerEpoch'  BY DEF IInv, OneProposalPerEpoch
<1>4. AuthoredInv'  BY DEF IInv, AuthoredInv, Grounded
<1>5. TransitInv'  BY DEF IInv, TransitInv
<1>6. BatchInv'
  <2> DEFINE b == Draft(n, NoDelta)
  <2>1. DOMAIN <<b>> = {1}  OBVIOUS
  <2>2. b.node_id = n /\ b.signature = epoch[n] /\ b.block_type = Proposal(NoDelta)
    BY SealedBlock DEF Draft
  <2>3. IsProposal(b) /\ ~IsEvaluation(b)
    BY <2>2 DEF IsProposal, IsEvaluation, Proposal
  <2>4. batch' = [batch EXCEPT ![n] = <<b>>]  OBVIOUS
  <2> HIDE DEF b
  <2>5. BatchOk(n)'
    BY <2>1, <2>2, <2>3, <2>4 DEF IInv, TypeOK, BatchOk, Grounded
  <2>6. \A m \in Node \ {n} : BatchOk(m)'
    BY <2>1, <2>4 DEF IInv, BatchInv, BatchOk, Grounded, TypeOK
  <2> QED  BY <2>5, <2>6 DEF BatchInv
<1>7. RoundInv'  BY DEF IInv, RoundInv, RoundOk, TypeOK
<1> QED  BY <1>1, <1>2, <1>3, <1>4, <1>5, <1>6, <1>7 DEF IInv

LEMMA ElectInv ==
  ASSUME IInv, NEW n \in Node, Elect(n)
  PROVE  IInv'
<1> USE DEF Elect, Goto
<1>1. TypeOK'
  <2>1. NextBoundary(now) \in Nat  BY NextBoundaryLater DEF IInv, TypeOK
  <2>2. \A m \in Node : IsChain(batch'[m])  BY EmptyChain DEF IInv, TypeOK
  <2>3. \A m \in Node : weights'[m] \in [DOMAIN weights'[m] -> Score]
    BY DEF IInv, TypeOK
  <2> QED  BY <2>1, <2>2, <2>3 DEF IInv, TypeOK, States, IsBlock
<1>2. Authentic'  BY DEF IInv, Authentic
<1>3. OneProposalPerEpoch'  BY DEF IInv, OneProposalPerEpoch
<1>4. AuthoredInv'  BY DEF IInv, AuthoredInv, Grounded
<1>5. TransitInv'  BY DEF IInv, TransitInv
<1>6. BatchInv'
  <2>1. BatchOk(n)'  BY DEF IInv, TypeOK, BatchOk
  <2>2. \A m \in Node \ {n} : BatchOk(m)'
    BY DEF IInv, BatchInv, BatchOk, Grounded, TypeOK
  <2> QED  BY <2>1, <2>2 DEF BatchInv
<1>7. RoundInv'
  <2>1. NextBoundary(now) > now /\ NextBoundary(now) \in Nat
    BY NextBoundaryLater DEF IInv, TypeOK
  <2>2. \A b \in authored[n] : b.signature <= now /\ b.signature \in Nat
    BY DEF IInv, AuthoredInv, TypeOK, IsBlock
  <2>3. \A b \in authored[n] : b.signature # NextBoundary(now)
    BY <2>1, <2>2 DEF IInv, TypeOK
  <2> QED  BY <2>1, <2>3 DEF IInv, RoundInv, RoundOk, TypeOK
<1> QED  BY <1>1, <1>2, <1>3, <1>4, <1>5, <1>6, <1>7 DEF IInv

LEMMA EvaluatePeerInv ==
  ASSUME IInv, NEW n \in Node, EvaluatePeer(n)
  PROVE  IInv'
<1> USE DEF EvaluatePeer, Goto
<1> PICK p \in unrated[n] :
       /\ unrated' = [unrated EXCEPT ![n] = @ \ {p}]
       /\ \/ /\ LatestProposal(lattice[n][p]) = {}
             /\ UNCHANGED batch
          \/ \E i \in LatestProposal(lattice[n][p]) :
               batch' = [batch EXCEPT ![n] = Append(@, Rating(n, p, i))]
       /\ pc' = [pc EXCEPT ![n] = IF unrated[n] = {p} THEN "commit" ELSE "evaluate"]
  OBVIOUS
<1>u. /\ pc[n] \in {"rate", "evaluate"}
      /\ UNCHANGED <<now, epoch, lattice, staged, weights, pos,
                     channel, inflight, authored, restarts, losses>>
  OBVIOUS
<1> HIDE DEF EvaluatePeer
<1> USE <1>u
<1>a. p \in Node /\ p \in DOMAIN weights[n] /\ weights[n][p] \in Score
  BY DEF IInv, TypeOK, BatchInv, BatchOk
<1>b. ASSUME NEW i \in LatestProposal(lattice[n][p])
      PROVE  LET b == Rating(n, p, i)
             IN  /\ IsBlock(b) /\ Sealed(b) /\ b.node_id = n /\ b.signature = epoch[n]
                 /\ IsEvaluation(b) /\ ~IsProposal(b) /\ Grounded(b)
  <2> DEFINE q == lattice[n][p][i]
             type == Evaluation(p, q.hash, weights[n][p])
             b == Rating(n, p, i)
  <2>1. i \in DOMAIN lattice[n][p] /\ IsProposal(q)  BY LatestIsProposal
  <2>2. q \in BlocksIn(lattice[n][p])  BY <2>1 DEF BlocksIn
  <2>3. q \in authored[p]  BY <2>2, <1>a DEF IInv, Authentic
  <2>4. /\ b.node_id = n /\ b.signature = epoch[n] /\ b.block_type = type /\ Sealed(b)
    BY SealedBlock DEF Rating
  <2>5. /\ type.kind = "evaluation" /\ type.target = p
        /\ type.proposal_hash = q.hash /\ type.trust_score = weights[n][p]
        /\ DOMAIN type = {"kind", "target", "proposal_hash", "trust_score"}
    BY DEF Evaluation
  <2> HIDE DEF type
  <2>6. IsBlock(b)  BY <2>5, <1>a, BlockType DEF Rating, type, IInv, TypeOK
  <2>7. IsEvaluation(b) /\ ~IsProposal(b)  BY <2>4, <2>5 DEF IsEvaluation, IsProposal
  <2>8. Grounded(b)  BY <2>1, <2>3, <2>4, <2>5 DEF Grounded
  <2> QED  BY <2>4, <2>6, <2>7, <2>8
<1>1. TypeOK'
  <2>1. ASSUME NEW m \in Node PROVE IsChain(batch'[m])
    <3>1. IsChain(batch[m])  BY DEF IInv, TypeOK
    <3>2. ASSUME NEW i \in LatestProposal(lattice[n][p])
          PROVE  IsChain(Append(batch[n], Rating(n, p, i)))
      <4>1. IsChain(batch[n])  BY DEF IInv, TypeOK
      <4> QED  BY <4>1, <1>b, AppendChain
    <3>3. \/ batch'[m] = batch[m]
          \/ m = n /\ \E i \in LatestProposal(lattice[n][p]) :
                         batch'[m] = Append(batch[n], Rating(n, p, i))
      BY DEF IInv, TypeOK
    <3> QED  BY <3>1, <3>2, <3>3
  <2>2. DOMAIN batch' = Node  BY DEF IInv, TypeOK
  <2> QED  BY <2>1, <2>2 DEF IInv, TypeOK, States, IsBlock
<1>2. Authentic'  BY DEF IInv, Authentic
<1>3. OneProposalPerEpoch'  BY DEF IInv, OneProposalPerEpoch
<1>4. AuthoredInv'  BY DEF IInv, AuthoredInv, Grounded
<1>5. TransitInv'  BY DEF IInv, TransitInv
<1>6. BatchInv'
  <2>1. ASSUME NEW m \in Node \ {n} PROVE BatchOk(m)'
    <3>1. /\ batch'[m] = batch[m] /\ pc'[m] = pc[m] /\ unrated'[m] = unrated[m]
          /\ weights'[m] = weights[m] /\ epoch'[m] = epoch[m]
      BY DEF IInv, TypeOK
    <3> QED  BY <3>1 DEF IInv, BatchInv, BatchOk, Grounded
  <2>2. unrated'[n] \subseteq DOMAIN weights'[n]
    BY DEF IInv, TypeOK, BatchInv, BatchOk
  <2>3. CASE LatestProposal(lattice[n][p]) = {} /\ UNCHANGED batch
    BY <2>2, <2>3, SMTT(30) DEF IInv, BatchInv, BatchOk, Grounded, TypeOK
  <2>4. CASE \E i \in LatestProposal(lattice[n][p]) :
               batch' = [batch EXCEPT ![n] = Append(@, Rating(n, p, i))]
    <3> PICK i \in LatestProposal(lattice[n][p]) :
               batch' = [batch EXCEPT ![n] = Append(@, Rating(n, p, i))]
      BY <2>4
    <3> DEFINE b == Rating(n, p, i)
    <3>1. /\ IsBlock(b) /\ b.node_id = n /\ b.signature = epoch[n]
          /\ ~IsProposal(b) /\ Grounded(b)
      BY <1>b
    <3>2. batch'[n] = Append(batch[n], b)  BY DEF IInv, TypeOK
    <3>3. IsChain(batch[n])  BY DEF IInv, TypeOK
    <3> HIDE DEF b
    <3>4. /\ DOMAIN batch'[n] = 1..(Len(batch[n]) + 1)
          /\ DOMAIN batch[n] = 1..Len(batch[n]) /\ Len(batch[n]) \in Nat
          /\ \A k \in 1..Len(batch[n]) : batch'[n][k] = batch[n][k]
          /\ batch'[n][Len(batch[n]) + 1] = b
      BY <3>1, <3>2, <3>3, AppendChain, ChainElements
    <3>5. Len(batch[n]) # 0  BY <3>3 DEF IInv, BatchInv, BatchOk, IsChain
    <3>6. batch'[n] # << >>  BY <3>4, EmptyDomain
    <3>7. \A k \in DOMAIN batch'[n] :
            /\ batch'[n][k].node_id = n
            /\ batch'[n][k].signature = epoch[n]
            /\ IsProposal(batch'[n][k]) <=> k = 1
            /\ Grounded(batch'[n][k])
      <4> TAKE k \in DOMAIN batch'[n]
      <4>1. CASE k \in 1..Len(batch[n])
        BY <4>1, <3>4 DEF IInv, BatchInv, BatchOk
      <4>2. CASE k = Len(batch[n]) + 1
        BY <4>2, <3>1, <3>4, <3>5
      <4> QED  BY <4>1, <4>2, <3>4
    <3>8. pc'[n] \in {"commit", "evaluate"}  BY DEF IInv, TypeOK
    <3>9. BatchOk(n)'
      BY <2>2, <3>6, <3>7, <3>8 DEF BatchOk, Grounded
    <3> QED  BY <2>1, <3>9 DEF BatchInv
  <2> QED  BY <2>3, <2>4
<1>7. RoundInv'  BY SMTT(30) DEF IInv, RoundInv, RoundOk, TypeOK
<1> QED  BY <1>1, <1>2, <1>3, <1>4, <1>5, <1>6, <1>7 DEF IInv

\* Nothing but a new record changes what is authored: all that is said of the
\* record stays true when it grows.
LEMMA AuthoredGrows ==
  ASSUME TypeOK, \A a \in Node : authored[a] \subseteq authored'[a]
  PROVE  /\ \A b : IsBlock(b) /\ Grounded(b) => Grounded(b)'
         /\ TransitInv => \A n \in Node :
              /\ \A b \in BlocksIn(channel[n]) : Sealed(b) => b \in authored'[b.node_id]
              /\ \A b \in inflight[n] : Sealed(b) => b \in authored'[b.node_id]
<1>1. \A b : IsBlock(b) /\ Grounded(b) => Grounded(b)'
  <2> SUFFICES ASSUME NEW b, IsBlock(b), Grounded(b), IsEvaluation(b)
               PROVE  \E p \in authored'[b.block_type.target] :
                        IsProposal(p) /\ p.hash = b.block_type.proposal_hash
    BY DEF Grounded
  <2>1. b.block_type.target \in Node
    BY DEF IsBlock, IsEvaluation
  <2> QED  BY <2>1 DEF Grounded
<1>2. TransitInv => \A n \in Node :
        /\ \A b \in BlocksIn(channel[n]) : Sealed(b) => b \in authored'[b.node_id]
        /\ \A b \in inflight[n] : Sealed(b) => b \in authored'[b.node_id]
  <2> SUFFICES ASSUME TransitInv, NEW n \in Node
               PROVE  /\ \A b \in BlocksIn(channel[n]) :
                           Sealed(b) => b \in authored'[b.node_id]
                      /\ \A b \in inflight[n] : Sealed(b) => b \in authored'[b.node_id]
    OBVIOUS
  <2>1. \A b \in BlocksIn(channel[n]) : b.node_id \in Node
    BY DEF TypeOK, IsChain, IsBlock
  <2>2. \A b \in inflight[n] : b.node_id \in Node
    BY DEF TypeOK, IsBlock
  <2> QED  BY <2>1, <2>2 DEF TransitInv
<1> QED  BY <1>1, <1>2

LEMMA AppendOwnInv ==
  ASSUME IInv, NEW n \in Node, AppendOwn(n)
  PROVE  IInv'
<1> DEFINE b == batch[n][pos[n]]
           last == pos[n] = Len(batch[n])
<1>1. /\ pc[n] \in {"commit", "append"}
      /\ lattice' = [lattice EXCEPT ![n] = AddLatticeBlock(lattice[n], b)]
      /\ authored' = IF Sealed(b) THEN [authored EXCEPT ![n] = @ \cup {b}] ELSE authored
      /\ pos' = [pos EXCEPT ![n] = IF last THEN 1 ELSE pos[n] + 1]
      /\ pc' = [pc EXCEPT ![n] = IF last THEN "broadcast" ELSE "append"]
      /\ UNCHANGED <<now, epoch, staged, weights, batch, unrated,
                     channel, inflight, restarts, losses>>
  BY DEF AppendOwn, Advance, Sealed
<1>2. IsChain(batch[n]) /\ Len(batch[n]) \in Nat /\ DOMAIN batch[n] = 1..Len(batch[n])
  BY ChainElements DEF IInv, TypeOK
<1>3. /\ pos[n] \in Nat \ {0}
      /\ pc[n] = "commit" => pos[n] = 1
      /\ pc[n] = "append" => pos[n] > 1
      /\ pos[n] \in DOMAIN batch[n]
  <2>1. batch[n] # << >>  BY <1>1 DEF IInv, BatchInv, BatchOk
  <2>2. Len(batch[n]) # 0  BY <2>1, <1>2 DEF IsChain
  <2> QED  BY <1>1, <1>2, <2>2 DEF IInv, TypeOK, RoundInv, RoundOk
<1>4. /\ IsBlock(b) /\ b.node_id = n /\ b.signature = epoch[n] /\ Grounded(b)
      /\ IsProposal(b) <=> pos[n] = 1
  BY <1>2, <1>3, ChainElements DEF IInv, BatchInv, BatchOk
<1>5. epoch[n] <= now  BY <1>1 DEF IInv, RoundInv, RoundOk
<1> HIDE DEF b, last
<1>6. \A a \in Node : authored[a] \subseteq authored'[a]
  BY <1>1 DEF IInv, TypeOK
<1>7. \A c : IsBlock(c) /\ Grounded(c) => Grounded(c)'
  BY <1>6, AuthoredGrows DEF IInv
<1>8. /\ DOMAIN lattice'[n] = Node
      /\ \A a \in Node : IsChain(lattice'[n][a])
      /\ \A a \in Node : BlocksIn(lattice'[n][a]) =
           IF Sealed(b) /\ a = n THEN BlocksIn(lattice[n][a]) \cup {b}
           ELSE BlocksIn(lattice[n][a])
  <2>1. lattice'[n] = AddLatticeBlock(lattice[n], b)  BY <1>1 DEF IInv, TypeOK
  <2>2. DOMAIN lattice[n] = Node /\ \A a \in Node : IsChain(lattice[n][a])
    BY DEF IInv, TypeOK
  <2> QED  BY <2>1, <2>2, <1>4, AddBlock
<1>9. \A m \in Node \ {n} : lattice'[m] = lattice[m]
  BY <1>1 DEF IInv, TypeOK
<1>10. TypeOK'
  <2>1. DOMAIN lattice' = Node  BY <1>1 DEF IInv, TypeOK
  <2>2. \A m \in Node : DOMAIN lattice'[m] = Node /\ \A a \in Node : IsChain(lattice'[m][a])
    BY <1>8, <1>9 DEF IInv, TypeOK
  <2>3. DOMAIN authored' = Node /\ \A m \in Node : \A c \in authored'[m] : IsBlock(c)
    BY <1>1, <1>4 DEF IInv, TypeOK
  <2>4. pos' \in [Node -> Nat \ {0}] /\ pc' \in [Node -> States]
    BY <1>1, <1>3 DEF IInv, TypeOK, States
  <2> QED  BY <2>1, <2>2, <2>3, <2>4, <1>1 DEF IInv, TypeOK, IsBlock
<1>11. Authentic'
  <2> SUFFICES ASSUME NEW m \in Node, NEW a \in Node
               PROVE  BlocksIn(lattice'[m][a]) \subseteq authored'[a]
    BY DEF Authentic
  <2>1. BlocksIn(lattice[m][a]) \subseteq authored'[a]
    BY <1>6 DEF IInv, Authentic
  <2>2. Sealed(b) => b \in authored'[n]  BY <1>1 DEF IInv, TypeOK
  <2> QED  BY <2>1, <2>2, <1>8, <1>9
<1>12. OneProposalPerEpoch'
  <2>1. \A p \in authored[n] : IsProposal(p) /\ IsProposal(b) => p.signature # b.signature
    BY <1>1, <1>3, <1>4 DEF IInv, RoundInv, RoundOk
  <2> QED  BY <2>1, <1>1 DEF IInv, OneProposalPerEpoch, TypeOK
<1>13. AuthoredInv'
  <2> SUFFICES ASSUME NEW m \in Node, NEW c \in authored'[m]
               PROVE  c.node_id = m /\ Sealed(c) /\ Grounded(c)' /\ c.signature <= now
    BY <1>1 DEF AuthoredInv
  <2>1. CASE c \in authored[m]
    <3>1. IsBlock(c)  BY <2>1 DEF IInv, TypeOK
    <3> QED  BY <2>1, <3>1, <1>7 DEF IInv, AuthoredInv
  <2>2. CASE c = b /\ m = n /\ Sealed(b)
    BY <2>2, <1>4, <1>5, <1>7
  <2> QED  BY <2>1, <2>2, <1>1 DEF IInv, TypeOK
<1>14. TransitInv'
  BY <1>6, <1>1, AuthoredGrows DEF IInv, TransitInv
<1>15. BatchInv'
  <2> SUFFICES ASSUME NEW m \in Node PROVE BatchOk(m)'
    BY DEF BatchInv
  <2>1. BatchOk(m)  BY DEF IInv, BatchInv
  <2>2. \A i \in DOMAIN batch[m] : Grounded(batch[m][i])'
    <3>1. \A i \in DOMAIN batch[m] : IsBlock(batch[m][i]) /\ Grounded(batch[m][i])
      BY <2>1, ChainElements DEF BatchOk, IInv, TypeOK
    <3> QED  BY <3>1, <1>1, <1>7 DEF Grounded
  <2>3. m # n => pc'[m] = pc[m]  BY <1>1 DEF IInv, TypeOK
  <2>4. pc'[n] \in {"append", "broadcast"}  BY <1>1 DEF IInv, TypeOK
  <2>5. m = n => batch[m] # << >>  BY <1>1, <2>1 DEF BatchOk
  <2>6. /\ \A i \in DOMAIN batch'[m] :
             /\ batch'[m][i].node_id = m
             /\ batch'[m][i].signature = epoch'[m]
             /\ IsProposal(batch'[m][i]) <=> i = 1
             /\ Grounded(batch[m][i])'
    BY <1>1, <2>1, <2>2 DEF BatchOk
  <2> QED  BY <2>1, <2>3, <2>4, <2>5, <2>6, <1>1 DEF BatchOk, Grounded
<1>16. RoundInv'
  <2>1. ASSUME NEW m \in Node \ {n} PROVE RoundOk(m)'
    <3>1. /\ authored'[m] = authored[m] /\ pc'[m] = pc[m] /\ pos'[m] = pos[m]
          /\ batch'[m] = batch[m] /\ epoch'[m] = epoch[m] /\ now' = now
      BY <1>1 DEF IInv, TypeOK
    <3> QED  BY <3>1 DEF IInv, RoundInv, RoundOk
  <2>2. RoundOk(n)'
    <3>1. /\ pc'[n] = IF last THEN "broadcast" ELSE "append"
          /\ pos'[n] = IF last THEN 1 ELSE pos[n] + 1
      BY <1>1 DEF IInv, TypeOK
    <3>2. \A i \in 1..(pos[n] - 1) : Sealed(batch[n][i]) => batch[n][i] \in authored[n]
      BY <1>1, <1>3 DEF IInv, RoundInv, RoundOk
    <3>3. \A i \in 1..pos[n] : Sealed(batch[n][i]) => batch[n][i] \in authored'[n]
      <4> TAKE i \in 1..pos[n]
      <4>1. CASE i \in 1..(pos[n] - 1)  BY <4>1, <3>2, <1>6
      <4>2. CASE i = pos[n]  BY <4>2, <1>1 DEF IInv, TypeOK, b
      <4> QED  BY <4>1, <4>2, <1>3
    <3>4. CASE last
      <4>1. pc'[n] = "broadcast" /\ pos'[n] = 1  BY <3>1, <3>4
      <4>2. pos'[n] <= Len(batch[n]) /\ pos'[n] \in Nat
        BY <4>1, <3>4, <1>2, <1>3 DEF last
      <4>3. \A i \in DOMAIN batch[n] :
              Sealed(batch[n][i]) => batch[n][i] \in authored'[n]
        BY <3>3, <4>1, <3>4, <1>2, <1>3 DEF last
      <4>4. batch'[n] = batch[n] /\ epoch'[n] <= now'
        BY <1>1, <1>5, <1>3, <4>1
      <4> QED  BY <4>1, <4>2, <4>3, <4>4 DEF RoundOk
    <3>5. CASE ~last
      <4>1. pc'[n] = "append" /\ pos'[n] = pos[n] + 1  BY <3>1, <3>5
      <4>2. pos'[n] <= Len(batch[n]) /\ pos'[n] \in Nat
        BY <4>1, <3>5, <1>2, <1>3 DEF last
      <4>3. \A i \in 1..(pos'[n] - 1) :
              Sealed(batch[n][i]) => batch[n][i] \in authored'[n]
        BY <3>3, <4>1, <3>5, <1>2, <1>3 DEF last
      <4>4. batch'[n] = batch[n] /\ epoch'[n] <= now' /\ pos'[n] > 1
        BY <1>1, <1>5, <1>3, <4>1
      <4> QED  BY <4>1, <4>2, <4>3, <4>4 DEF RoundOk
    <3> QED  BY <3>4, <3>5
  <2> QED  BY <2>1, <2>2 DEF RoundInv
<1> QED
  BY <1>10, <1>11, <1>12, <1>13, <1>14, <1>15, <1>16 DEF IInv

LEMMA BroadcastInv ==
  ASSUME IInv, NEW n \in Node, Broadcast(n)
  PROVE  IInv'
<1> DEFINE b == batch[n][pos[n]]
           last == pos[n] = Len(batch[n])
<1>1. /\ pc[n] = "broadcast"
      /\ channel' = [channel EXCEPT ![n] = Append(@, b)]
      /\ pos' = [pos EXCEPT ![n] = IF last THEN 1 ELSE pos[n] + 1]
      /\ pc' = [pc EXCEPT ![n] = IF last THEN "barrier" ELSE "broadcast"]
      /\ UNCHANGED <<now, epoch, lattice, staged, weights, batch, unrated,
                     inflight, authored, restarts, losses>>
  BY DEF Broadcast, Advance
<1>2. IsChain(batch[n]) /\ Len(batch[n]) \in Nat /\ DOMAIN batch[n] = 1..Len(batch[n])
  BY ChainElements DEF IInv, TypeOK
<1>3. pos[n] \in Nat \ {0} /\ pos[n] \in DOMAIN batch[n]
  BY <1>1, <1>2 DEF IInv, TypeOK, RoundInv, RoundOk
<1>4. IsBlock(b) /\ b.node_id = n /\ (Sealed(b) => b \in authored[n])
  BY <1>1, <1>2, <1>3, ChainElements DEF IInv, BatchInv, BatchOk, RoundInv, RoundOk
<1>5. pc'[n] = IF last THEN "barrier" ELSE "broadcast"  BY <1>1 DEF IInv, TypeOK
<1>6. pos'[n] = IF last THEN 1 ELSE pos[n] + 1  BY <1>1 DEF IInv, TypeOK
<1>7. last \/ pos[n] + 1 <= Len(batch[n])  BY <1>2, <1>3
<1>8. \A m \in Node \ {n} : pc'[m] = pc[m] /\ pos'[m] = pos[m]
  BY <1>1 DEF IInv, TypeOK
<1>9. \A m \in Node : /\ IsChain(channel'[m])
                      /\ BlocksIn(channel'[m]) \subseteq
                           BlocksIn(channel[m]) \cup (IF m = n THEN {b} ELSE {})
  <2> TAKE m \in Node
  <2>1. IsChain(channel[m])  BY DEF IInv, TypeOK
  <2>2. CASE m = n
    <3>1. channel'[m] = Append(channel[m], b)  BY <1>1, <2>2 DEF IInv, TypeOK
    <3> HIDE DEF b
    <3> QED  BY <2>1, <2>2, <3>1, <1>4, AppendChain
  <2>3. CASE m # n
    <3>1. channel'[m] = channel[m]  BY <1>1, <2>3 DEF IInv, TypeOK
    <3> QED  BY <3>1, <2>1
  <2> QED  BY <2>2, <2>3
<1> HIDE DEF b, last
<1>10. TypeOK'
  <2>1. pos' \in [Node -> Nat \ {0}] /\ pc' \in [Node -> States] /\ DOMAIN channel' = Node
    BY <1>1, <1>3 DEF IInv, TypeOK, States
  <2> QED  BY <2>1, <1>1, <1>9 DEF IInv, TypeOK, IsBlock
<1>11. Authentic' /\ OneProposalPerEpoch'
  BY <1>1 DEF IInv, Authentic, OneProposalPerEpoch
<1>12. AuthoredInv'  BY <1>1 DEF IInv, AuthoredInv, Grounded
<1>13. TransitInv'  BY <1>1, <1>4, <1>9 DEF IInv, TransitInv
<1>14. BatchInv'
  <2> SUFFICES ASSUME NEW m \in Node PROVE BatchOk(m)'
    BY DEF BatchInv
  <2>1. BatchOk(m)  BY DEF IInv, BatchInv
  <2> QED  BY <2>1, <1>1, <1>5, <1>8 DEF BatchOk, Grounded
<1>15. RoundInv'
  <2> SUFFICES ASSUME NEW m \in Node PROVE RoundOk(m)'
    BY DEF RoundInv
  <2>1. RoundOk(m)  BY DEF IInv, RoundInv
  <2>2. CASE m # n  BY <2>1, <2>2, <1>1, <1>8 DEF RoundOk
  <2>3. CASE m = n /\ last  BY <2>1, <2>3, <1>1, <1>5, <1>6 DEF RoundOk
  <2>4. CASE m = n /\ ~last  BY <2>1, <2>4, <1>1, <1>5, <1>6, <1>7 DEF RoundOk
  <2> QED  BY <2>2, <2>3, <2>4
<1> QED
  BY <1>10, <1>11, <1>12, <1>13, <1>14, <1>15 DEF IInv

LEMMA PublishInv ==
  ASSUME IInv, NEW n \in Node, Publish(n)
  PROVE  IInv'
<1> DEFINE b == Head(channel[n])
<1>1. PICK reached \in SUBSET (Node \ {n}) :
        /\ losses' = losses + Cardinality((Node \ {n}) \ reached)
        /\ inflight' = [m \in Node |-> IF m \in reached THEN inflight[m] \cup {b}
                                       ELSE inflight[m]]
  BY DEF Publish
<1>2. /\ channel[n] # << >>
      /\ channel' = [channel EXCEPT ![n] = Tail(@)]
      /\ UNCHANGED <<now, pc, epoch, staged, weights, batch, unrated, pos,
                     lattice, authored, restarts>>
  BY DEF Publish, local
<1>3. losses' \in Nat
  <2>1. IsFiniteSet((Node \ {n}) \ reached)
    BY NodeAssumption, FS_Subset
  <2> QED  BY <2>1, <1>1, FS_CardinalityType DEF IInv, TypeOK
<1>4. /\ b \in BlocksIn(channel[n]) /\ IsBlock(b)
      /\ IsChain(Tail(channel[n])) /\ BlocksIn(Tail(channel[n])) \subseteq BlocksIn(channel[n])
  BY <1>2, TailChain DEF IInv, TypeOK
<1> HIDE DEF b
<1>5. Sealed(b) => b \in authored[b.node_id]  BY <1>4 DEF IInv, TransitInv
<1>6. \A m \in Node : IsChain(channel'[m]) /\ BlocksIn(channel'[m]) \subseteq BlocksIn(channel[m])
  BY <1>2, <1>4 DEF IInv, TypeOK
<1>7. TypeOK'
  <2>1. DOMAIN channel' = Node /\ DOMAIN inflight' = Node  BY <1>1, <1>2 DEF IInv, TypeOK
  <2>2. \A m \in Node : \A c \in inflight'[m] : IsBlock(c)
    BY <1>1, <1>4 DEF IInv, TypeOK
  <2> QED  BY <1>2, <1>3, <1>6, <2>1, <2>2 DEF IInv, TypeOK, IsBlock
<1>8. Authentic' /\ OneProposalPerEpoch'
  BY <1>2 DEF IInv, Authentic, OneProposalPerEpoch
<1>9. AuthoredInv'  BY <1>2 DEF IInv, AuthoredInv, Grounded
<1>10. TransitInv'  BY <1>1, <1>2, <1>5, <1>6 DEF IInv, TransitInv
<1>11. BatchInv'  BY <1>2 DEF IInv, BatchInv, BatchOk, Grounded
<1>12. RoundInv'  BY <1>2 DEF IInv, RoundInv, RoundOk
<1> QED
  BY <1>7, <1>8, <1>9, <1>10, <1>11, <1>12 DEF IInv

LEMMA ReceiveInv ==
  ASSUME IInv, NEW n \in Node, Receive(n)
  PROVE  IInv'
<1>1. PICK b \in inflight[n] :
        /\ inflight' = [inflight EXCEPT ![n] = @ \ {b}]
        /\ lattice' = [lattice EXCEPT ![n] = AddLatticeBlock(lattice[n], b)]
  BY DEF Receive
<1>2. UNCHANGED <<now, pc, epoch, staged, weights, batch, unrated, pos,
                  channel, authored, restarts, losses>>
  BY DEF Receive, local
<1>3. IsBlock(b) /\ b.node_id \in Node /\ (Sealed(b) => b \in authored[b.node_id])
  BY DEF IInv, TypeOK, TransitInv, IsBlock
<1>4. /\ DOMAIN lattice'[n] = Node
      /\ \A a \in Node : IsChain(lattice'[n][a])
      /\ \A a \in Node : BlocksIn(lattice'[n][a]) =
           IF Sealed(b) /\ a = b.node_id THEN BlocksIn(lattice[n][a]) \cup {b}
           ELSE BlocksIn(lattice[n][a])
  <2>1. lattice'[n] = AddLatticeBlock(lattice[n], b)  BY <1>1 DEF IInv, TypeOK
  <2>2. DOMAIN lattice[n] = Node /\ \A a \in Node : IsChain(lattice[n][a])
    BY DEF IInv, TypeOK
  <2> QED  BY <2>1, <2>2, <1>3, AddBlock
<1>5. \A m \in Node \ {n} : lattice'[m] = lattice[m]
  BY <1>1 DEF IInv, TypeOK
<1>6. \A m \in Node : inflight'[m] \subseteq inflight[m]
  BY <1>1 DEF IInv, TypeOK
<1>7. TypeOK'
  <2>1. DOMAIN lattice' = Node /\ DOMAIN inflight' = Node  BY <1>1 DEF IInv, TypeOK
  <2>2. \A m \in Node : DOMAIN lattice'[m] = Node /\ \A a \in Node : IsChain(lattice'[m][a])
    BY <1>4, <1>5 DEF IInv, TypeOK
  <2> QED  BY <2>1, <2>2, <1>2, <1>6 DEF IInv, TypeOK, IsBlock
<1>8. Authentic'
  <2> SUFFICES ASSUME NEW m \in Node, NEW a \in Node
               PROVE  BlocksIn(lattice'[m][a]) \subseteq authored[a]
    BY <1>2 DEF Authentic
  <2>1. BlocksIn(lattice[m][a]) \subseteq authored[a]  BY DEF IInv, Authentic
  <2> QED  BY <2>1, <1>3, <1>4, <1>5
<1>9. OneProposalPerEpoch'  BY <1>2 DEF IInv, OneProposalPerEpoch
<1>10. AuthoredInv'  BY <1>2 DEF IInv, AuthoredInv, Grounded
<1>11. TransitInv'  BY <1>2, <1>6 DEF IInv, TransitInv
<1>12. BatchInv'  BY <1>2 DEF IInv, BatchInv, BatchOk, Grounded
<1>13. RoundInv'  BY <1>2 DEF IInv, RoundInv, RoundOk
<1> QED
  BY <1>7, <1>8, <1>9, <1>10, <1>11, <1>12, <1>13 DEF IInv

LEMMA RestartInv ==
  ASSUME IInv, NEW n \in Node, Restart(n)
  PROVE  IInv'
<1>1. /\ restarts' = [restarts EXCEPT ![n] = @ + 1]
      /\ pc'       = [pc EXCEPT ![n] = "wait"]
      /\ epoch'    = [epoch EXCEPT ![n] = NextBoundary(now)]
      /\ lattice'  = [lattice EXCEPT ![n] = EmptyLattice]
      /\ weights'  = [weights EXCEPT ![n] = << >>]
      /\ batch'    = [batch EXCEPT ![n] = << >>]
      /\ unrated'  = [unrated EXCEPT ![n] = {}]
      /\ pos'      = [pos EXCEPT ![n] = 1]
      /\ channel'  = [channel EXCEPT ![n] = << >>]
      /\ UNCHANGED <<now, staged, authored, losses>>
  BY DEF Restart
<1>2. PICK replayed \in SUBSET UNION {inflight[m] : m \in Node} :
        inflight' = [inflight EXCEPT ![n] = replayed]
  BY DEF Restart
<1>3. \A m \in Node : \A b \in inflight'[m] :
        IsBlock(b) /\ (Sealed(b) => b \in authored[b.node_id])
  BY <1>2 DEF IInv, TypeOK, TransitInv
<1>4. NextBoundary(now) \in Nat /\ NextBoundary(now) > now
  BY NextBoundaryLater DEF IInv, TypeOK
<1>5. \A a \in Node : EmptyLattice[a] = << >>  BY DEF EmptyLattice
<1>6. \A m, a \in Node : lattice'[m][a] = IF m = n THEN << >> ELSE lattice[m][a]
  BY <1>1, <1>5 DEF IInv, TypeOK
<1>7. \A m \in Node : /\ channel'[m] = IF m = n THEN << >> ELSE channel[m]
                      /\ batch'[m] = IF m = n THEN << >> ELSE batch[m]
                      /\ weights'[m] = IF m = n THEN << >> ELSE weights[m]
  <2>1. DOMAIN channel = Node /\ DOMAIN batch = Node /\ DOMAIN weights = Node
    BY DEF IInv, TypeOK
  <2>2. \A m \in Node : channel'[m] = IF m = n THEN << >> ELSE channel[m]
    BY <1>1, <2>1
  <2>3. \A m \in Node : batch'[m] = IF m = n THEN << >> ELSE batch[m]
    BY <1>1, <2>1
  <2>4. \A m \in Node : weights'[m] = IF m = n THEN << >> ELSE weights[m]
    BY <1>1, <2>1
  <2> QED  BY <2>2, <2>3, <2>4
<1>8. TypeOK'
  <2>1. /\ DOMAIN lattice' = Node /\ DOMAIN weights' = Node /\ DOMAIN batch' = Node
        /\ DOMAIN channel' = Node /\ DOMAIN inflight' = Node
    BY <1>1, <1>2 DEF IInv, TypeOK
  <2>2. \A m \in Node : DOMAIN lattice'[m] = Node
    BY <1>1 DEF IInv, TypeOK, EmptyLattice
  <2>3. \A m, a \in Node : IsChain(lattice'[m][a])
    BY <1>6, EmptyChain DEF IInv, TypeOK
  <2>4. \A m \in Node : IsChain(batch'[m]) /\ IsChain(channel'[m])
    BY <1>7, EmptyChain DEF IInv, TypeOK
  <2>5. ASSUME NEW m \in Node PROVE weights'[m] \in [DOMAIN weights'[m] -> Score]
    <3>1. << >> \in [DOMAIN << >> -> Score]  OBVIOUS
    <3>2. weights[m] \in [DOMAIN weights[m] -> Score]  BY DEF IInv, TypeOK
    <3> QED  BY <1>7, <3>1, <3>2
  <2>6. /\ restarts' \in [Node -> Nat] /\ pc' \in [Node -> States]
        /\ epoch' \in [Node -> Nat] /\ unrated' \in [Node -> SUBSET Node]
        /\ pos' \in [Node -> Nat \ {0}]
    BY <1>1, <1>4 DEF IInv, TypeOK, States
  <2> QED  BY <2>1, <2>2, <2>3, <2>4, <2>5, <2>6, <1>1, <1>3, SMTT(30) DEF IInv, TypeOK, IsBlock
<1>9. Authentic'  BY <1>1, <1>6, EmptyChain DEF IInv, Authentic
<1>10. OneProposalPerEpoch'  BY <1>1 DEF IInv, OneProposalPerEpoch
<1>11. AuthoredInv'  BY <1>1 DEF IInv, AuthoredInv, Grounded
<1>12. TransitInv'  BY <1>1, <1>3, <1>7, EmptyChain DEF IInv, TransitInv
<1>13. BatchInv'
  <2>1. BatchOk(n)'  BY <1>1, <1>7 DEF IInv, TypeOK, BatchOk
  <2>2. ASSUME NEW m \in Node \ {n} PROVE BatchOk(m)'
    <3>1. /\ batch'[m] = batch[m] /\ pc'[m] = pc[m] /\ unrated'[m] = unrated[m]
          /\ weights'[m] = weights[m] /\ epoch'[m] = epoch[m] /\ authored' = authored
      BY <1>1 DEF IInv, TypeOK
    <3> QED  BY <3>1 DEF IInv, BatchInv, BatchOk, Grounded
  <2> QED  BY <2>1, <2>2 DEF BatchInv
<1>14. RoundInv'
  <2>1. \A b \in authored[n] : b.signature # NextBoundary(now)
    <3>1. \A b \in authored[n] : b.signature <= now /\ b.signature \in Nat
      BY DEF IInv, AuthoredInv, TypeOK, IsBlock
    <3> QED  BY <3>1, <1>4 DEF IInv, TypeOK
  <2>2. RoundOk(n)'  BY <1>1, <2>1 DEF IInv, TypeOK, RoundOk
  <2>3. ASSUME NEW m \in Node \ {n} PROVE RoundOk(m)'
    <3>1. /\ batch'[m] = batch[m] /\ pc'[m] = pc[m] /\ pos'[m] = pos[m]
          /\ epoch'[m] = epoch[m] /\ authored' = authored /\ now' = now
      BY <1>1 DEF IInv, TypeOK
    <3> QED  BY <3>1 DEF IInv, RoundInv, RoundOk
  <2> QED  BY <2>2, <2>3 DEF RoundInv
<1> QED
  BY <1>8, <1>9, <1>10, <1>11, <1>12, <1>13, <1>14 DEF IInv

LEMMA TickInv ==
  ASSUME IInv, Tick
  PROVE  IInv'
<1>1. /\ now' = now + 1 /\ now \in Nat
      /\ UNCHANGED <<pc, epoch, staged, weights, batch, unrated, pos, lattice,
                     channel, inflight, authored, restarts, losses>>
  BY DEF Tick, local, IInv, TypeOK
<1>2. TypeOK'  BY <1>1 DEF IInv, TypeOK, IsBlock
<1>3. Authentic' /\ OneProposalPerEpoch'
  BY <1>1 DEF IInv, Authentic, OneProposalPerEpoch
<1>4. AuthoredInv'
  <2>1. \A n \in Node : \A b \in authored[n] : b.signature \in Nat
    BY DEF IInv, TypeOK, IsBlock
  <2> QED  BY <1>1, <2>1 DEF IInv, AuthoredInv, Grounded
<1>5. TransitInv'  BY <1>1 DEF IInv, TransitInv
<1>6. BatchInv'  BY <1>1 DEF IInv, BatchInv, BatchOk, Grounded
<1>7. RoundInv'
  <2>1. \A n \in Node : epoch[n] \in Nat  BY DEF IInv, TypeOK
  <2> QED  BY <1>1, <2>1 DEF IInv, RoundInv, RoundOk
<1> QED
  BY <1>2, <1>3, <1>4, <1>5, <1>6, <1>7 DEF IInv

LEMMA StutterInv ==
  ASSUME IInv, UNCHANGED vars
  PROVE  IInv'
<1> USE DEF vars, local
<1>1. TypeOK'  BY DEF IInv, TypeOK, IsBlock
<1>2. Authentic' /\ OneProposalPerEpoch' /\ AuthoredInv' /\ TransitInv'
  BY DEF IInv, Authentic, OneProposalPerEpoch, AuthoredInv, TransitInv, Grounded
<1>3. BatchInv' /\ RoundInv'
  BY DEF IInv, BatchInv, BatchOk, RoundInv, RoundOk, Grounded
<1> QED  BY <1>1, <1>2, <1>3 DEF IInv

LEMMA NextIInv ==
  ASSUME IInv, [Next]_vars
  PROVE  IInv'
<1>1. CASE Tick  BY <1>1, TickInv
<1>2. ASSUME NEW n \in Node, EpochTask(n) PROVE IInv'
  BY <1>2, StageDeltasInv, CollectArgsInv, TrainingSucceedsInv, TrainingFailsInv,
     EvaluatePeerInv, AppendOwnInv, BroadcastInv, LeaveBarrierEarlyInv,
     LeaveBarrierLateInv, SleepToDeadlineInv, ElectInv DEF EpochTask
<1>3. ASSUME NEW n \in Node, EventLoop(n) PROVE IInv'
  BY <1>3, PublishInv, ReceiveInv DEF EventLoop
<1>4. ASSUME NEW n \in Node, Restart(n) PROVE IInv'
  BY <1>4, RestartInv
<1>5. CASE UNCHANGED vars  BY <1>5, StutterInv
<1> QED  BY <1>1, <1>2, <1>3, <1>4, <1>5 DEF Next

-------------------------------------------------------------------------------
(* What the inductive invariant gives. *)

\* The inductive invariant holds in every reachable state of a network of any
\* size (main.rs, mesh.rs, chain.rs).
THEOREM InductiveInvariant == Spec => []IInv
<1> QED  BY InitIInv, NextIInv, PTL DEF Spec

\* Every variable keeps its type.
THEOREM TypeCorrect == Spec => []TypeOK
<1>1. IInv => TypeOK  BY DEF IInv
<1> QED  BY <1>1, InductiveInvariant, PTL

\* No node ever holds a block under an author's name that the author did not
\* record first: not a failed round's proposal, not one from before a restart
\* that its author never got to append (chain.rs add_lattice_block).
THEOREM AuthenticBlocks == Spec => []Authentic
<1>1. IInv => Authentic  BY DEF IInv
<1> QED  BY <1>1, InductiveInvariant, PTL

\* However long a round takes and wherever a node is restarted, the clock
\* arithmetic never lets it record two proposals for one epoch.
THEOREM SingleProposal == Spec => []OneProposalPerEpoch
<1>1. IInv => OneProposalPerEpoch  BY DEF IInv
<1> QED  BY <1>1, InductiveInvariant, PTL

\* Every recorded evaluation is about a proposal its target really recorded.
THEOREM GroundedEvaluations == Spec => []EvaluationsGrounded
<1>1. IInv => EvaluationsGrounded
  BY DEF IInv, AuthoredInv, Grounded, EvaluationsGrounded
<1> QED  BY <1>1, InductiveInvariant, PTL

-------------------------------------------------------------------------------
(* LatticeNode implements ReplicatedLattice. *)

LEMMA InitAbstract == Init => Abstract!Init
<1> SUFFICES ASSUME Init PROVE Abstract!Init
  OBVIOUS
<1>1. \A n, a \in Node : BlocksIn(lattice[n][a]) = {}
  BY EmptyChain DEF Init, EmptyLattice
<1>2. View = [n \in Node |-> {}]  BY <1>1 DEF View
<1> QED  BY <1>2 DEF Init, Abstract!Init

\* Adding a block to a lattice adds it to the view, if it is sealed.
LEMMA AddToView ==
  ASSUME TypeOK, NEW n \in Node, NEW b, IsBlock(b),
         lattice' = [lattice EXCEPT ![n] = AddLatticeBlock(lattice[n], b)]
  PROVE  View' = IF Sealed(b) THEN [View EXCEPT ![n] = @ \cup {b}] ELSE View
<1>1. \A a \in Node : BlocksIn(lattice'[n][a]) =
        IF Sealed(b) /\ a = b.node_id THEN BlocksIn(lattice[n][a]) \cup {b}
        ELSE BlocksIn(lattice[n][a])
  <2>1. lattice'[n] = AddLatticeBlock(lattice[n], b)  BY DEF TypeOK
  <2>2. DOMAIN lattice[n] = Node /\ \A a \in Node : IsChain(lattice[n][a])
    BY DEF TypeOK
  <2> QED  BY <2>1, <2>2, AddBlock
<1>2. b.node_id \in Node  BY DEF IsBlock
<1>3. \A m \in Node \ {n} : View'[m] = View[m]  BY DEF View, TypeOK
<1>4. View'[n] = IF Sealed(b) THEN View[n] \cup {b} ELSE View[n]
  <2>1. View'[n] = UNION {BlocksIn(lattice'[n][a]) : a \in Node}  BY DEF View
  <2>2. View[n] = UNION {BlocksIn(lattice[n][a]) : a \in Node}  BY DEF View
  <2>3. CASE Sealed(b)
    <3> DEFINE f == [a \in Node |-> BlocksIn(lattice[n][a])]
               g == [a \in Node |-> BlocksIn(lattice'[n][a])]
               c == b.node_id
    <3>1. \A a \in Node : g[a] = IF a = c THEN f[a] \cup {b} ELSE f[a]
      BY <1>1, <2>3
    <3>2. View[n] = UNION {f[a] : a \in Node}  BY <2>2
    <3>3. View'[n] = UNION {g[a] : a \in Node}  BY <2>1
    <3> HIDE DEF f, g, c
    <3>4. c \in Node  BY <1>2 DEF c
    <3>5. UNION {g[a] : a \in Node} \subseteq (UNION {f[a] : a \in Node}) \cup {b}
      <4> SUFFICES ASSUME NEW a \in Node, NEW x \in g[a]
                   PROVE  x \in (UNION {f[d] : d \in Node}) \cup {b}
        OBVIOUS
      <4>1. x \in f[a] \/ x = b  BY <3>1
      <4> QED  BY <4>1
    <3>6. UNION {f[a] : a \in Node} \subseteq UNION {g[a] : a \in Node}
      <4> SUFFICES ASSUME NEW a \in Node, NEW x \in f[a]
                   PROVE  x \in UNION {g[d] : d \in Node}
        OBVIOUS
      <4>1. x \in g[a]  BY <3>1
      <4> QED  BY <4>1
    <3>7. b \in UNION {g[a] : a \in Node}
      <4>1. b \in g[c]  BY <3>1, <3>4
      <4> QED  BY <4>1, <3>4
    <3> HIDE DEF View
    <3>8. View'[n] = View[n] \cup {b}  BY <3>2, <3>3, <3>5, <3>6, <3>7
    <3> QED  BY <3>8, <2>3
  <2>4. CASE ~Sealed(b)
    <3>1. \A a \in Node : BlocksIn(lattice'[n][a]) = BlocksIn(lattice[n][a])
      BY <1>1, <2>4
    <3> QED  BY <2>1, <2>2, <2>4, <3>1
  <2> QED  BY <2>3, <2>4
<1>5. /\ View \in [Node -> {View[m] : m \in Node}]
      /\ View' \in [Node -> {View'[m] : m \in Node}]
  BY DEF View
<1> HIDE DEF View
<1>6. CASE Sealed(b)  BY <1>3, <1>4, <1>5, <1>6
<1>7. CASE ~Sealed(b)  BY <1>3, <1>4, <1>5, <1>7
<1> QED  BY <1>6, <1>7

LEMMA AppendOwnRefines ==
  ASSUME IInv, NEW n \in Node, AppendOwn(n)
  PROVE  Abstract!Next \/ UNCHANGED <<authored, View>>
<1> DEFINE b == batch[n][pos[n]]
<1>1. /\ pc[n] \in {"commit", "append"}
      /\ lattice' = [lattice EXCEPT ![n] = AddLatticeBlock(lattice[n], b)]
      /\ authored' = IF Sealed(b) THEN [authored EXCEPT ![n] = @ \cup {b}] ELSE authored
  BY DEF AppendOwn, Sealed
<1>2. IsChain(batch[n]) /\ Len(batch[n]) \in Nat /\ DOMAIN batch[n] = 1..Len(batch[n])
  BY ChainElements DEF IInv, TypeOK
<1>3. /\ pc[n] = "append" => pos[n] > 1
      /\ pos[n] \in DOMAIN batch[n]
  <2>1. batch[n] # << >>  BY <1>1 DEF IInv, BatchInv, BatchOk
  <2>2. Len(batch[n]) # 0  BY <2>1, <1>2 DEF IsChain
  <2> QED  BY <1>1, <1>2, <2>2 DEF IInv, TypeOK, RoundInv, RoundOk
<1>4. /\ IsBlock(b) /\ b.node_id = n /\ b.signature = epoch[n] /\ Grounded(b)
      /\ IsProposal(b) <=> pos[n] = 1
  BY <1>2, <1>3, ChainElements DEF IInv, BatchInv, BatchOk
<1>5. IsProposal(b) \/ IsEvaluation(b)  BY <1>4 DEF IsBlock, IsProposal
<1>6. IsProposal(b) => \A p \in authored[n] : IsProposal(p) => p.signature # b.signature
  BY <1>1, <1>3, <1>4 DEF IInv, RoundInv, RoundOk
<1> HIDE DEF b
<1>7. View' = IF Sealed(b) THEN [View EXCEPT ![n] = @ \cup {b}] ELSE View
  BY <1>1, <1>4, AddToView DEF IInv
<1>8. CASE Sealed(b)
  <2>1. authored' = [authored EXCEPT ![n] = @ \cup {b}]  BY <1>1, <1>8
  <2>2. b \in authored'[n]  BY <2>1 DEF IInv, TypeOK
  <2>3. IsProposal(b) => Abstract!NewProposal(n, b)  BY <1>6 DEF Abstract!NewProposal, Abstract!IsProposal, IsProposal
  <2>4. IsEvaluation(b) => Abstract!GroundedEvaluation(b)
    BY <1>4 DEF Grounded, Abstract!GroundedEvaluation, IsProposal, IsEvaluation,
       Abstract!IsProposal, Abstract!IsEvaluation
  <2>5. Abstract!Issue(n, b)
    BY <2>1, <2>3, <2>4, <1>4, <1>5, <1>7, <1>8
    DEF Abstract!Issue, Sealed, CalculateHash, Abstract!CalculateHash
  <2> QED  BY <2>2, <2>5 DEF Abstract!Next
<1>9. CASE ~Sealed(b)
  <2>1. authored' = authored  BY <1>1, <1>9
  <2> QED  BY <2>1, <1>7, <1>9
<1> QED  BY <1>8, <1>9

LEMMA ReceiveRefines ==
  ASSUME IInv, NEW n \in Node, Receive(n)
  PROVE  Abstract!Next \/ UNCHANGED <<authored, View>>
<1>1. PICK b \in inflight[n] :
        lattice' = [lattice EXCEPT ![n] = AddLatticeBlock(lattice[n], b)]
  BY DEF Receive
<1>2. authored' = authored  BY DEF Receive
<1>3. IsBlock(b) /\ b.node_id \in Node /\ (Sealed(b) => b \in authored[b.node_id])
  BY DEF IInv, TypeOK, TransitInv, IsBlock
<1>4. View' = IF Sealed(b) THEN [View EXCEPT ![n] = @ \cup {b}] ELSE View
  BY <1>1, <1>3, AddToView DEF IInv
<1>5. CASE Sealed(b)
  <2>1. Abstract!Learn(n, b)  BY <1>2, <1>4, <1>5 DEF Abstract!Learn
  <2> QED  BY <2>1, <1>3, <1>5 DEF Abstract!Next
<1>6. CASE ~Sealed(b)  BY <1>2, <1>4, <1>6
<1> QED  BY <1>5, <1>6

LEMMA RestartRefines ==
  ASSUME IInv, NEW n \in Node, Restart(n)
  PROVE  Abstract!Next \/ UNCHANGED <<authored, View>>
<1>1. lattice' = [lattice EXCEPT ![n] = EmptyLattice] /\ authored' = authored
  BY DEF Restart
<1>2. \A a \in Node : lattice'[n][a] = << >>  BY <1>1 DEF EmptyLattice, IInv, TypeOK
<1>3. View'[n] = {}
  <2>1. \A a \in Node : BlocksIn(lattice'[n][a]) = {}  BY <1>2, EmptyChain
  <2> QED  BY <2>1 DEF View
<1>4. \A m \in Node \ {n} : View'[m] = View[m]  BY <1>1 DEF View, IInv, TypeOK
<1>5. /\ View \in [Node -> {View[m] : m \in Node}]
      /\ View' \in [Node -> {View'[m] : m \in Node}]
  BY DEF View
<1>6. View' = [View EXCEPT ![n] = {}]
  <2> HIDE DEF View
  <2> QED  BY <1>3, <1>4, <1>5
<1>7. Abstract!Forget(n)  BY <1>1, <1>6 DEF Abstract!Forget
<1> QED  BY <1>7 DEF Abstract!Next

LEMMA NextRefines ==
  ASSUME IInv, [Next]_vars
  PROVE  Abstract!Next \/ UNCHANGED <<authored, View>>
<1>1. ASSUME UNCHANGED <<lattice, authored>>
      PROVE  UNCHANGED <<authored, View>>
  BY <1>1 DEF View
<1>2. CASE Tick  BY <1>1, <1>2 DEF Tick
<1>3. ASSUME NEW n \in Node, EpochTask(n)
      PROVE  Abstract!Next \/ UNCHANGED <<authored, View>>
  <2>1. CASE AppendOwn(n)  BY <2>1, AppendOwnRefines
  <2>2. CASE ~AppendOwn(n)
    <3>1. UNCHANGED <<lattice, authored>>
      BY <1>3, <2>2 DEF EpochTask, StageDeltas, CollectArgs, TrainingSucceeds,
         TrainingFails, EvaluatePeer, Broadcast, LeaveBarrierEarly,
         LeaveBarrierLate, SleepToDeadline, Elect
    <3> QED  BY <3>1, <1>1
  <2> QED  BY <2>1, <2>2
<1>4. ASSUME NEW n \in Node, EventLoop(n)
      PROVE  Abstract!Next \/ UNCHANGED <<authored, View>>
  <2>1. CASE Publish(n)  BY <2>1, <1>1 DEF Publish
  <2>2. CASE Receive(n)  BY <2>2, ReceiveRefines
  <2> QED  BY <1>4, <2>1, <2>2 DEF EventLoop
<1>5. ASSUME NEW n \in Node, Restart(n)
      PROVE  Abstract!Next \/ UNCHANGED <<authored, View>>
  BY <1>5, RestartRefines
<1>6. CASE UNCHANGED vars  BY <1>1, <1>6 DEF vars
<1> QED  BY <1>2, <1>3, <1>4, <1>5, <1>6 DEF Next

\* The nodes, their restarts and the network they have together do nothing
\* that ReplicatedLattice does not allow, for any number of nodes.
THEOREM Implements == Spec => Refinement
<1>1. Init => Abstract!Init  BY InitAbstract
<1>2. IInv /\ [Next]_vars => [Abstract!Next]_<<authored, View>>
  BY NextRefines
<1> QED
  BY <1>1, <1>2, InductiveInvariant, PTL DEF Spec, Refinement, Abstract!Spec
-------------------------------------------------------------------------------
(* Linkage and single delivery, for authors that were never restarted.     *)
(* OwnChainLinked and NoForkWithoutRestart are not inductive: they need to *)
(* know where the batch will be linked to, that no two blocks of a chain   *)
(* name the same predecessor, and that on its way from the batch through   *)
(* the channel and gossipsub to a node a block is in one place only.       *)

Chain(a) == lattice[a][a]

Linked(s) == \A i \in DOMAIN s : s[i].prev_hash = IF i = 1 THEN GenesisHash ELSE s[i - 1].hash
Apart(s)  == \A i, j \in DOMAIN s : s[i].prev_hash = s[j].prev_hash => i = j

\* The batch continues the chain, from the block that is appended next.
Continues(a) ==
  /\ pc[a] \in {"rate", "evaluate", "commit", "append"} =>
       batch[a][pos[a]].prev_hash = TailHash(Chain(a))
  /\ \A i \in DOMAIN batch[a] : i > 1 => batch[a][i].prev_hash = batch[a][i - 1].hash
  /\ Len(batch[a]) > 1 \/ pc[a] \in {"rate", "evaluate"} =>
       \A i \in DOMAIN batch[a] : Sealed(batch[a][i])

\* What a has recorded is its chain, and nobody sends it blocks of its own.
Home(a) ==
  /\ BlocksIn(Chain(a)) = authored[a]
  /\ Linked(Chain(a)) /\ Apart(Chain(a))
  /\ Continues(a)
  /\ \A b \in inflight[a] : b.node_id # a

\* The positions of the batch that are recorded and not broadcast.
Waiting(a) == CASE pc[a] = "append"    -> 1..(pos[a] - 1)
                [] pc[a] = "broadcast" -> pos[a]..Len(batch[a])
                [] OTHER               -> {}

Reached(n, a) == inflight[n] \cup BlocksIn(lattice[n][a])

\* A block waits, is in the channel, or has left; and what has left is on its
\* way to a node or in its lattice, once.
Once(a) ==
  /\ \A i, j \in Waiting(a) :
       Sealed(batch[a][i]) /\ batch[a][i] = batch[a][j] => i = j
  /\ \A i, j \in DOMAIN channel[a] :
       Sealed(channel[a][i]) /\ channel[a][i] = channel[a][j] => i = j
  /\ \A i \in Waiting(a) : Sealed(batch[a][i]) =>
       /\ batch[a][i] \notin BlocksIn(channel[a])
       /\ \A n \in Node \ {a} : batch[a][i] \notin Reached(n, a)
  /\ \A n \in Node \ {a} :
       /\ \A b \in BlocksIn(channel[a]) : Sealed(b) => b \notin Reached(n, a)
       /\ inflight[n] \cap BlocksIn(lattice[n][a]) = {}
       /\ \A i, j \in DOMAIN lattice[n][a] : lattice[n][a][i] = lattice[n][a][j] => i = j

LinkInv ==
  /\ \A n \in Node : \A b \in BlocksIn(channel[n]) : b.node_id = n
  /\ \A a \in Node : restarts[a] = 0 => Home(a) /\ Once(a)

LEMMA HashTellsApart ==
  ASSUME NEW b, NEW c, Sealed(b), Sealed(c)
  PROVE  b.hash # GenesisHash /\ (b.hash = c.hash => b.prev_hash = c.prev_hash)
<1>1. b.hash = <<b.node_id, b.prev_hash, b.block_type>>
      /\ c.hash = <<c.node_id, c.prev_hash, c.block_type>>
  BY DEF Sealed, CalculateHash
<1>2. \A x, y, z : <<x, y, z>> # << >>
  OBVIOUS
<1> QED
  BY <1>1, <1>2 DEF GenesisHash

\* Nothing in a chain of sealed blocks names the chain's last block.
LEMMA EndIsFree ==
  ASSUME NEW s, IsChain(s), Linked(s), Apart(s), \A b \in BlocksIn(s) : Sealed(b),
         NEW i \in DOMAIN s
  PROVE  s[i].prev_hash # TailHash(s)
<1> DEFINE k == Len(s)
<1>1. k \in Nat /\ DOMAIN s = 1..k /\ \A j \in DOMAIN s : Sealed(s[j])
  BY ChainElements
<1>2. s # << >> /\ k \in DOMAIN s /\ TailHash(s) = s[k].hash
  BY <1>1 DEF TailHash
<1>3. CASE i = 1
  BY <1>1, <1>2, <1>3, HashTellsApart DEF Linked
<1>4. CASE i # 1
  <2>1. i - 1 \in DOMAIN s /\ i - 1 # k /\ s[i].prev_hash = s[i - 1].hash
    BY <1>1, <1>4 DEF Linked
  <2>2. s[i - 1].prev_hash # s[k].prev_hash
    BY <1>2, <2>1 DEF Apart
  <2> QED
    BY <1>1, <1>2, <2>1, <2>2, HashTellsApart
<1> QED
  BY <1>3, <1>4

LEMMA LinkedAppend ==
  ASSUME NEW s, IsChain(s), Linked(s), Apart(s), \A c \in BlocksIn(s) : Sealed(c),
         NEW b, IsBlock(b), b.prev_hash = TailHash(s)
  PROVE  /\ Linked(Append(s, b)) /\ Apart(Append(s, b)) /\ b \notin BlocksIn(s)
         /\ TailHash(Append(s, b)) = b.hash
<1> DEFINE t == Append(s, b)
           k == Len(s)
<1>1. /\ k \in Nat /\ DOMAIN s = 1..k /\ DOMAIN t = 1..(k + 1) /\ Len(t) = k + 1
      /\ \A i \in 1..k : t[i] = s[i]
      /\ t[k + 1] = b /\ IsChain(t)
  BY ChainElements, AppendChain
<1>2. \A i \in 1..k : s[i].prev_hash # b.prev_hash
  BY <1>1, EndIsFree
<1>3. TailHash(s) = IF k = 0 THEN GenesisHash ELSE s[k].hash
  BY <1>1, EmptyChain DEF TailHash, IsChain
<1>4. t # << >>
  BY <1>1
<1> HIDE DEF t, k
<1>5. Linked(t)
  <2> SUFFICES ASSUME NEW i \in 1..(k + 1)
               PROVE  t[i].prev_hash = IF i = 1 THEN GenesisHash ELSE t[i - 1].hash
    BY <1>1 DEF Linked
  <2>1. CASE i = k + 1
    <3>1. k = 0 \/ (k \in 1..k /\ i - 1 = k /\ i # 1)
      BY <1>1, <2>1
    <3> QED
      BY <1>1, <1>3, <2>1, <3>1
  <2>2. CASE i \in 1..k
    <3>1. i = 1 \/ i - 1 \in 1..k
      BY <1>1, <2>2
    <3> QED
      BY <1>1, <2>2, <3>1 DEF Linked
  <2> QED
    BY <1>1, <2>1, <2>2
<1>6. Apart(t)
  BY <1>1, <1>2 DEF Apart
<1>7. b \notin BlocksIn(s)
  BY <1>1, <1>2 DEF BlocksIn
<1>8. TailHash(t) = b.hash
  BY <1>1, <1>4 DEF TailHash
<1> QED
  BY <1>5, <1>6, <1>7, <1>8 DEF t

\* A node's own chain, when its batch is where the code is, and its sealed blocks.
LEMMA HomeFacts ==
  ASSUME IInv, NEW a \in Node
  PROVE  /\ IsChain(Chain(a)) /\ \A n \in Node : IsChain(lattice[n][a])
         /\ IsChain(batch[a]) /\ IsChain(channel[a])
         /\ Len(batch[a]) \in Nat /\ DOMAIN batch[a] = 1..Len(batch[a])
         /\ \A b \in authored[a] : Sealed(b) /\ b.node_id = a
         /\ \A n \in Node : BlocksIn(lattice[n][a]) \subseteq authored[a]
         /\ \A i \in DOMAIN batch[a] : batch[a][i].node_id = a
  BY ChainElements DEF IInv, TypeOK, Authentic, AuthoredInv, BatchInv, BatchOk, Chain

LEMMA HomeFrame ==
  ASSUME NEW a \in Node, Home(a), batch'[a] = batch[a], Chain(a)' = Chain(a),
         authored'[a] = authored[a], \A b \in inflight'[a] : b.node_id # a,
         pc'[a] = pc[a] \/ pc'[a] \notin {"rate", "evaluate", "commit", "append"},
         pos'[a] = pos[a] \/ pc'[a] \notin {"rate", "evaluate", "commit", "append"}
  PROVE  Home(a)'
<1>1. Continues(a)'
  BY DEF Home, Continues, Sealed
<1> QED
  BY <1>1 DEF Home, Linked, Apart

\* What the epoch task of one node leaves alone.
LEMMA Elsewhere ==
  ASSUME IInv, NEW n \in Node, NEW a \in Node, n # a, EpochTask(n)
  PROVE  /\ pc'[a] = pc[a] /\ pos'[a] = pos[a] /\ batch'[a] = batch[a]
         /\ lattice'[a] = lattice[a] /\ authored'[a] = authored[a]
         /\ channel'[a] = channel[a] /\ inflight' = inflight
<1> DEFINE Goal == /\ pc'[a] = pc[a] /\ pos'[a] = pos[a] /\ batch'[a] = batch[a]
                   /\ lattice'[a] = lattice[a] /\ authored'[a] = authored[a]
                   /\ channel'[a] = channel[a] /\ inflight' = inflight
<1>0. /\ DOMAIN pc = Node /\ DOMAIN pos = Node /\ DOMAIN batch = Node
      /\ DOMAIN lattice = Node /\ DOMAIN authored = Node /\ DOMAIN channel = Node
  BY DEF IInv, TypeOK
<1>1. CASE StageDeltas(n) \/ CollectArgs(n)
  BY <1>0, <1>1 DEF StageDeltas, CollectArgs, Goto
<1>2. CASE TrainingSucceeds(n) \/ TrainingFails(n)
  BY <1>0, <1>2 DEF TrainingSucceeds, TrainingFails, Goto
<1>3. CASE EvaluatePeer(n)
  <2>1. pc'[a] = pc[a] /\ batch'[a] = batch[a]
    BY <1>0, <1>3 DEF EvaluatePeer
  <2> QED
    BY <1>3, <2>1 DEF EvaluatePeer
<1>4. CASE AppendOwn(n)
  <2>1. pc'[a] = pc[a] /\ pos'[a] = pos[a]
    BY <1>0, <1>4 DEF AppendOwn, Advance
  <2>2. lattice'[a] = lattice[a] /\ authored'[a] = authored[a]
    BY <1>0, <1>4 DEF AppendOwn
  <2> QED
    BY <1>4, <2>1, <2>2 DEF AppendOwn
<1>5. CASE Broadcast(n)
  <2>1. pc'[a] = pc[a] /\ pos'[a] = pos[a]
    BY <1>0, <1>5 DEF Broadcast, Advance
  <2> QED
    BY <1>0, <1>5, <2>1 DEF Broadcast
<1>6. CASE LeaveBarrierEarly(n) \/ LeaveBarrierLate(n) \/ SleepToDeadline(n) \/ Elect(n)
  BY <1>0, <1>6 DEF LeaveBarrierEarly, LeaveBarrierLate, SleepToDeadline, Elect, Goto
<1> QED
  BY <1>1, <1>2, <1>3, <1>4, <1>5, <1>6 DEF EpochTask

\* The first block of a batch is linked to the end of the chain.
LEMMA HomeTrains ==
  ASSUME IInv, NEW a \in Node, Home(a), TrainingSucceeds(a) \/ TrainingFails(a)
  PROVE  Home(a)'
<1>1. /\ Chain(a)' = Chain(a) /\ authored'[a] = authored[a] /\ inflight' = inflight
      /\ pos'[a] = 1
  BY DEF TrainingSucceeds, TrainingFails, Goto, Chain, IInv, RoundInv, RoundOk
<1>2. PICK b : /\ batch'[a] = <<b>> /\ b.prev_hash = TailHash(Chain(a))
               /\ TrainingSucceeds(a) => Sealed(b)
  <2>1. CASE TrainingSucceeds(a)
    <3>1. PICK d \in Delta : batch'[a] = <<Seal(Draft(a, d))>>
      BY <2>1 DEF TrainingSucceeds, IInv, TypeOK
    <3>2. Sealed(Seal(Draft(a, d))) /\ Seal(Draft(a, d)).prev_hash = TailHash(Chain(a))
      BY SealedBlock DEF Draft, Block, Seal, Chain
    <3> QED
      BY <3>1, <3>2
  <2>2. CASE ~TrainingSucceeds(a)
    <3>1. batch'[a] = <<Draft(a, NoDelta)>>
      BY <2>2 DEF TrainingFails, IInv, TypeOK
    <3>2. Draft(a, NoDelta).prev_hash = TailHash(Chain(a))
      BY DEF Draft, Block, Chain
    <3> QED
      BY <2>2, <3>1, <3>2
  <2> QED
    BY <2>1, <2>2
<1>3. DOMAIN batch'[a] = {1} /\ Len(batch'[a]) = 1 /\ batch'[a][1] = b
  BY <1>2
<1>4. TrainingSucceeds(a) \/ pc'[a] \notin {"rate", "evaluate"}
  BY DEF TrainingFails, Goto, IInv, TypeOK
<1>5. Continues(a)'
  BY <1>1, <1>2, <1>3, <1>4 DEF Continues, Sealed
<1> QED
  BY <1>1, <1>5 DEF Home, Linked, Apart

\* An evaluation is linked to the end of the batch.
LEMMA HomeEvaluates ==
  ASSUME IInv, NEW a \in Node, Home(a), EvaluatePeer(a)
  PROVE  Home(a)'
<1>1. /\ Chain(a)' = Chain(a) /\ authored'[a] = authored[a] /\ inflight' = inflight
      /\ pos'[a] = pos[a] /\ pos[a] = 1 /\ pc[a] \in {"rate", "evaluate"}
  BY DEF EvaluatePeer, Chain, IInv, RoundInv, RoundOk
<1>2. /\ IsChain(batch[a]) /\ DOMAIN batch[a] = 1..Len(batch[a]) /\ Len(batch[a]) \in Nat
      /\ batch[a] # << >> /\ Len(batch[a]) # 0
  BY <1>1, HomeFacts, EmptyChain DEF IInv, BatchInv, BatchOk, IsChain
<1>3. CASE batch'[a] = batch[a]
  <2>1. Continues(a)'
    BY <1>1, <1>3 DEF Home, Continues, Sealed
  <2> QED
    BY <1>1, <2>1 DEF Home, Linked, Apart
<1>4. ASSUME NEW p \in Node, NEW i \in LatestProposal(lattice[a][p]),
             weights[a][p] \in Score, batch'[a] = Append(batch[a], Rating(a, p, i))
      PROVE  Home(a)'
  <2> DEFINE b == Rating(a, p, i)
             l == Len(batch[a])
  <2>1. Sealed(b) /\ b.prev_hash = batch[a][l].hash
    BY <1>2, SealedBlock DEF Rating, Block, Seal, TailHash
  <2>2. IsBlock(b)
    <3>1. epoch[a] \in Nat
      BY DEF IInv, TypeOK
    <3> QED
      BY <1>4, <3>1, BlockType DEF Rating, Evaluation
  <2> HIDE DEF b
  <2>3. /\ DOMAIN batch'[a] = 1..(l + 1) /\ Len(batch'[a]) = l + 1
        /\ \A j \in 1..l : batch'[a][j] = batch[a][j]
        /\ batch'[a][l + 1] = b
    BY <1>2, <1>4, <2>2, AppendChain DEF b
  <2>4. \A j \in DOMAIN batch'[a] : Sealed(batch'[a][j])
    BY <1>1, <1>2, <2>1, <2>3, SMTT(30) DEF Home, Continues
  <2>5. batch'[a][1].prev_hash = TailHash(Chain(a))
    BY <1>1, <1>2, <2>3 DEF Home, Continues
  <2>6. ASSUME NEW j \in DOMAIN batch'[a], j > 1
        PROVE  batch'[a][j].prev_hash = batch'[a][j - 1].hash
    <3>1. CASE j = l + 1
      <4>1. j - 1 = l /\ l \in 1..l
        BY <1>2, <3>1
      <4> QED
        BY <2>1, <2>3, <3>1, <4>1
    <3>2. CASE j # l + 1
      <4>1. j \in 1..l /\ j - 1 \in 1..l
        BY <1>2, <2>3, <2>6, <3>2
      <4> QED
        BY <1>2, <2>3, <2>6, <4>1 DEF Home, Continues
    <3> QED
      BY <3>1, <3>2
  <2>7. Continues(a)'
    BY <1>1, <2>4, <2>5, <2>6 DEF Continues, Sealed
  <2> QED
    BY <1>1, <2>7 DEF Home, Linked, Apart
<1>5. \A p \in unrated[a] : p \in Node /\ weights[a][p] \in Score
  BY <1>1 DEF IInv, TypeOK, BatchInv, BatchOk
<1>6. \/ batch'[a] = batch[a]
      \/ \E p \in unrated[a] : \E i \in LatestProposal(lattice[a][p]) :
            batch'[a] = Append(batch[a], Rating(a, p, i))
  BY DEF EvaluatePeer, IInv, TypeOK
<1> QED
  BY <1>3, <1>4, <1>5, <1>6

\* What AppendOwn does, in terms of the block that is appended.
LEMMA AppendsOne ==
  ASSUME IInv, NEW a \in Node, Home(a), AppendOwn(a)
  PROVE  LET b == batch[a][pos[a]]
         IN  /\ pos[a] \in DOMAIN batch[a] /\ IsBlock(b) /\ b.node_id = a
             /\ b.prev_hash = TailHash(Chain(a)) /\ b \notin authored[a]
             /\ pc[a] = "commit" => pos[a] = 1
             /\ Linked(Append(Chain(a), b)) /\ Apart(Append(Chain(a), b))
             /\ BlocksIn(Append(Chain(a), b)) = authored[a] \cup {b}
             /\ TailHash(Append(Chain(a), b)) = b.hash
<1> DEFINE b == batch[a][pos[a]]
<1>1. pc[a] \in {"commit", "append"}
  BY DEF AppendOwn
<1>2. IsChain(batch[a]) /\ Len(batch[a]) \in Nat /\ DOMAIN batch[a] = 1..Len(batch[a])
  BY HomeFacts
<1>3. pos[a] \in DOMAIN batch[a] /\ (pc[a] = "commit" => pos[a] = 1)
  <2>1. batch[a] # << >>  BY <1>1 DEF IInv, BatchInv, BatchOk
  <2>2. Len(batch[a]) # 0  BY <2>1, <1>2 DEF IsChain
  <2> QED  BY <1>1, <1>2, <2>2 DEF IInv, TypeOK, RoundInv, RoundOk
<1>4. IsBlock(b) /\ b.node_id = a /\ b.prev_hash = TailHash(Chain(a))
  BY <1>1, <1>2, <1>3, ChainElements, HomeFacts DEF Home, Continues
<1>5. /\ IsChain(Chain(a)) /\ Linked(Chain(a)) /\ Apart(Chain(a))
      /\ BlocksIn(Chain(a)) = authored[a] /\ \A c \in authored[a] : Sealed(c)
  BY HomeFacts DEF Home
<1> HIDE DEF b
<1> QED
  BY <1>3, <1>4, <1>5, LinkedAppend, AppendChain DEF b

LEMMA HomeAppends ==
  ASSUME IInv, NEW a \in Node, Home(a), AppendOwn(a)
  PROVE  Home(a)'
<1> DEFINE b == batch[a][pos[a]]
<1>1. /\ lattice' = [lattice EXCEPT ![a] = AddLatticeBlock(lattice[a], b)]
      /\ authored' = IF Sealed(b) THEN [authored EXCEPT ![a] = @ \cup {b}] ELSE authored
      /\ batch' = batch /\ inflight' = inflight
  BY DEF AppendOwn, Sealed
<1>2. /\ pos[a] \in DOMAIN batch[a] /\ b.node_id = a
      /\ Linked(Append(Chain(a), b)) /\ Apart(Append(Chain(a), b))
      /\ BlocksIn(Append(Chain(a), b)) = authored[a] \cup {b}
      /\ TailHash(Append(Chain(a), b)) = b.hash
  BY AppendsOne
<1>3. /\ pc'[a] \in {"append", "broadcast"}
      /\ pc'[a] = "append" => pos'[a] = pos[a] + 1 /\ pos[a] # Len(batch[a])
  BY DEF AppendOwn, Advance, IInv, TypeOK
<1>4. /\ DOMAIN batch[a] = 1..Len(batch[a]) /\ Len(batch[a]) \in Nat
      /\ \A i \in DOMAIN batch[a] : i > 1 => batch[a][i].prev_hash = batch[a][i - 1].hash
      /\ Len(batch[a]) > 1 => \A i \in DOMAIN batch[a] : Sealed(batch[a][i])
  BY HomeFacts DEF Home, Continues
<1>5. DOMAIN lattice = Node /\ DOMAIN lattice[a] = Node /\ DOMAIN authored = Node
  BY DEF IInv, TypeOK
<1>6. CASE Sealed(b)
  <2>1. Chain(a)' = Append(Chain(a), b) /\ authored'[a] = authored[a] \cup {b}
    BY <1>1, <1>2, <1>5, <1>6 DEF AddLatticeBlock, Sealed, Chain
  <2>2. pc'[a] = "append" => batch'[a][pos'[a]].prev_hash = TailHash(Chain(a)')
    <3> SUFFICES ASSUME pc'[a] = "append"
                 PROVE  batch'[a][pos'[a]].prev_hash = TailHash(Chain(a)')
      OBVIOUS
    <3> DEFINE j == pos[a] + 1
    <3>1. j \in DOMAIN batch[a] /\ j > 1 /\ j - 1 = pos[a]
      BY <1>2, <1>3, <1>4
    <3>2. pos'[a] = j
      BY <1>3
    <3> HIDE DEF j
    <3>3. batch[a][j].prev_hash = batch[a][j - 1].hash
      BY <1>4, <3>1
    <3> QED
      BY <1>1, <1>2, <2>1, <3>1, <3>2, <3>3
  <2>3. Continues(a)'
    BY <1>1, <1>3, <1>4, <2>2 DEF Continues, Sealed, Chain
  <2>4. /\ BlocksIn(Chain(a)') = authored'[a] /\ Linked(Chain(a)') /\ Apart(Chain(a)')
    BY <1>2, <2>1
  <2> QED
    BY <1>1, <2>3, <2>4 DEF Home, Linked, Apart
<1>7. CASE ~Sealed(b)
  <2>1. Chain(a)' = Chain(a) /\ authored'[a] = authored[a]
    BY <1>1, <1>5, <1>7 DEF AddLatticeBlock, Sealed, Chain
  <2>2. pc'[a] = "broadcast"
    <3>1. ~(Len(batch[a]) > 1)
      BY <1>2, <1>4, <1>7
    <3>2. pos[a] = Len(batch[a])
      BY <1>2, <1>4, <3>1
    <3> QED
      BY <1>3, <3>2
  <2>3. Continues(a)'
    BY <1>1, <1>4, <2>2 DEF Continues, Sealed
  <2> QED
    BY <1>1, <2>1, <2>3 DEF Home, Linked, Apart
<1> QED
  BY <1>6, <1>7

LEMMA HomeNext ==
  ASSUME IInv, LinkInv, [Next]_vars, NEW a \in Node, restarts'[a] = 0
  PROVE  restarts[a] = 0 /\ Home(a)'
<1>0. restarts[a] = 0 /\ Home(a)
  <2>1. restarts[a] = 0
    <3>1. restarts \in [Node -> Nat]
      BY DEF IInv, TypeOK
    <3>2. ASSUME NEW n \in Node, Restart(n) PROVE restarts[a] = 0
      BY <3>1, <3>2 DEF Restart
    <3>3. CASE ~\E n \in Node : Restart(n)
      <4>1. restarts' = restarts
        BY <3>3 DEF Next, vars, Tick, EventLoop, Publish, Receive, EpochTask, StageDeltas,
           CollectArgs, TrainingSucceeds, TrainingFails, EvaluatePeer, AppendOwn, Broadcast,
           LeaveBarrierEarly, LeaveBarrierLate, SleepToDeadline, Elect
      <4> QED
        BY <4>1
    <3> QED
      BY <3>2, <3>3
  <2> QED
    BY <2>1 DEF LinkInv
<1>1. CASE Tick \/ UNCHANGED vars
  <2>1. UNCHANGED <<lattice, authored, batch, inflight, pc, pos>>
    BY <1>1 DEF Tick, vars, local
  <2> QED
    BY <1>0, <2>1, HomeFrame DEF Home, Chain
<1>2. ASSUME NEW n \in Node, n # a, EpochTask(n) PROVE Home(a)'
  <2>1. /\ pc'[a] = pc[a] /\ pos'[a] = pos[a] /\ batch'[a] = batch[a]
        /\ Chain(a)' = Chain(a) /\ authored'[a] = authored[a] /\ inflight' = inflight
    BY <1>2, Elsewhere DEF Chain
  <2> QED
    BY <1>0, <2>1, HomeFrame DEF Home
<1>3. CASE EpochTask(a)
  <2>1. CASE \/ StageDeltas(a) \/ CollectArgs(a) \/ LeaveBarrierEarly(a)
             \/ LeaveBarrierLate(a) \/ SleepToDeadline(a)
    <3>1. /\ UNCHANGED <<lattice, authored, batch, inflight, pos>>
          /\ pc'[a] \in {"args", "engine", "collected", "elect"}
      BY <2>1 DEF StageDeltas, CollectArgs, LeaveBarrierEarly, LeaveBarrierLate,
         SleepToDeadline, Goto, IInv, TypeOK
    <3> QED
      BY <1>0, <3>1, HomeFrame DEF Home, Chain
  <2>2. CASE Elect(a)
    <3>1. UNCHANGED <<lattice, authored, inflight>> /\ pc'[a] = "wait" /\ batch'[a] = << >>
      BY <2>2 DEF Elect, Goto, IInv, TypeOK
    <3>2. Continues(a)'
      BY <3>1 DEF Continues
    <3> QED
      BY <1>0, <3>1, <3>2 DEF Home, Linked, Apart, Chain
  <2>3. CASE Broadcast(a)
    <3>1. UNCHANGED <<lattice, authored, batch, inflight>>
          /\ pc'[a] \in {"broadcast", "barrier"}
      BY <2>3 DEF Broadcast, Advance, IInv, TypeOK
    <3> QED
      BY <1>0, <3>1, HomeFrame DEF Home, Chain
  <2> QED
    BY <1>0, <1>3, <2>1, <2>2, <2>3, HomeTrains, HomeEvaluates, HomeAppends DEF EpochTask
<1>4. ASSUME NEW n \in Node, Publish(n) PROVE Home(a)'
  <2>1. UNCHANGED <<lattice, authored, batch, pc, pos>>
    BY <1>4 DEF Publish, local
  <2>2. inflight'[a] = inflight[a] \/ (n # a /\ inflight'[a] = inflight[a] \cup {Head(channel[n])})
    BY <1>4 DEF Publish
  <2>3. Head(channel[n]).node_id = n
    BY <1>4, TailChain DEF Publish, LinkInv, IInv, TypeOK
  <2>4. \A b \in inflight'[a] : b.node_id # a
    BY <1>0, <2>2, <2>3 DEF Home
  <2> QED
    BY <1>0, <2>1, <2>4, HomeFrame DEF Chain
<1>5. ASSUME NEW n \in Node, Receive(n) PROVE Home(a)'
  <2>1. UNCHANGED <<authored, batch, pc, pos>>
    BY <1>5 DEF Receive, local
  <2>2. PICK b \in inflight[n] :
          /\ inflight' = [inflight EXCEPT ![n] = @ \ {b}]
          /\ lattice' = [lattice EXCEPT ![n] = AddLatticeBlock(lattice[n], b)]
    BY <1>5 DEF Receive
  <2>3. inflight'[a] \subseteq inflight[a]
    BY <2>2 DEF IInv, TypeOK
  <2>4. n = a => b.node_id # a
    BY <1>0 DEF Home
  <2>5. Chain(a)' = Chain(a)
    BY <2>2, <2>4 DEF Chain, AddLatticeBlock, IInv, TypeOK
  <2> QED
    BY <1>0, <2>1, <2>3, <2>5, HomeFrame DEF Home
<1>6. ASSUME NEW n \in Node, Restart(n) PROVE Home(a)'
  <2>1. n # a
    BY <1>0, <1>6 DEF Restart, IInv, TypeOK
  <2>2. /\ pc'[a] = pc[a] /\ pos'[a] = pos[a] /\ batch'[a] = batch[a]
        /\ Chain(a)' = Chain(a) /\ authored' = authored /\ inflight'[a] = inflight[a]
    BY <1>6, <2>1 DEF Restart, IInv, TypeOK, Chain
  <2> QED
    BY <1>0, <2>2, HomeFrame DEF Home
<1> QED
  BY <1>0, <1>1, <1>2, <1>3, <1>4, <1>5, <1>6 DEF Next, EventLoop

LEMMA OnceFrame ==
  ASSUME NEW a \in Node, Once(a), channel'[a] = channel[a],
         \/ Waiting(a)' = {}
         \/ Waiting(a)' = Waiting(a) /\ batch'[a] = batch[a],
         \A n \in Node \ {a} : inflight'[n] = inflight[n] /\ lattice'[n][a] = lattice[n][a]
  PROVE  Once(a)'
<1>1. \A n \in Node \ {a} : Reached(n, a)' = Reached(n, a)
  BY DEF Reached
<1> QED
  BY <1>1 DEF Once, Sealed

\* What is sealed and on its way, or in a lattice, was recorded by its author.
LEMMA OnceFacts ==
  ASSUME IInv, LinkInv, NEW a \in Node
  PROVE  /\ \A b \in BlocksIn(channel[a]) : b.node_id = a /\ (Sealed(b) => b \in authored[a])
         /\ \A n \in Node : \A b \in inflight[n] :
              Sealed(b) /\ b.node_id = a => b \in authored[a]
         /\ \A n \in Node : \A b \in BlocksIn(lattice[n][a]) :
              b \in authored[a] /\ Sealed(b) /\ b.node_id = a
         /\ \A i \in DOMAIN batch[a] : batch[a][i].node_id = a
         /\ Waiting(a) \subseteq DOMAIN batch[a]
         /\ \A i \in Waiting(a) : Sealed(batch[a][i]) => batch[a][i] \in authored[a]
<1>1. /\ \A b \in authored[a] : Sealed(b) /\ b.node_id = a
      /\ \A n \in Node : BlocksIn(lattice[n][a]) \subseteq authored[a]
      /\ \A i \in DOMAIN batch[a] : batch[a][i].node_id = a
      /\ Len(batch[a]) \in Nat /\ DOMAIN batch[a] = 1..Len(batch[a])
      /\ pos[a] \in Nat \ {0}
  BY HomeFacts DEF IInv, TypeOK
<1>2. \A b \in BlocksIn(channel[a]) : b.node_id = a /\ (Sealed(b) => b \in authored[a])
  BY DEF LinkInv, IInv, TransitInv
<1>3. \A n \in Node : \A b \in inflight[n] :
        Sealed(b) /\ b.node_id = a => b \in authored[a]
  BY DEF IInv, TransitInv
<1>4. \A i \in Waiting(a) : i \in DOMAIN batch[a]
                            /\ (Sealed(batch[a][i]) => batch[a][i] \in authored[a])
  <2>1. CASE pc[a] = "append"
    <3>1. Waiting(a) = 1..(pos[a] - 1) /\ pos[a] <= Len(batch[a])
      BY <2>1 DEF Waiting, IInv, RoundInv, RoundOk
    <3> QED
      BY <1>1, <2>1, <3>1 DEF IInv, RoundInv, RoundOk
  <2>2. CASE pc[a] = "broadcast"
    <3>1. Waiting(a) = pos[a]..Len(batch[a])
      BY <2>2 DEF Waiting
    <3>2. \A i \in Waiting(a) : i \in DOMAIN batch[a]
      BY <1>1, <3>1
    <3> QED
      BY <2>2, <3>2 DEF IInv, RoundInv, RoundOk
  <2>3. CASE pc[a] \notin {"append", "broadcast"}
    BY <2>3 DEF Waiting
  <2> QED
    BY <2>1, <2>2, <2>3
<1> QED
  BY <1>1, <1>2, <1>3, <1>4

\* A block that is appended was nowhere before.
LEMMA OnceAppends ==
  ASSUME IInv, LinkInv, NEW a \in Node, Home(a), Once(a), AppendOwn(a)
  PROVE  Once(a)'
<1> DEFINE p == pos[a]
           b == batch[a][p]
<1>1. /\ pc[a] \in {"commit", "append"} /\ batch' = batch /\ channel' = channel
      /\ inflight' = inflight
      /\ \A n \in Node \ {a} : lattice'[n] = lattice[n]
      /\ pc'[a] = IF p = Len(batch[a]) THEN "broadcast" ELSE "append"
      /\ pos'[a] = IF p = Len(batch[a]) THEN 1 ELSE p + 1
  BY DEF AppendOwn, Advance, IInv, TypeOK
<1>2. p \in DOMAIN batch[a] /\ b.node_id = a /\ b \notin authored[a] /\ (pc[a] = "commit" => p = 1)
  BY AppendsOne
<1>3. DOMAIN batch[a] = 1..Len(batch[a]) /\ Len(batch[a]) \in Nat /\ p \in Nat \ {0}
  BY HomeFacts DEF IInv, TypeOK
<1>4. Waiting(a)' = Waiting(a) \cup {p}
  <2>1. Waiting(a) = 1..(p - 1)
    BY <1>1, <1>2, <1>3 DEF Waiting
  <2>2. Waiting(a)' = 1..p
    BY <1>1, <1>3 DEF Waiting
  <2> QED
    BY <1>3, <2>1, <2>2
<1>5. /\ \A i \in Waiting(a) : Sealed(batch[a][i]) => batch[a][i] # b
      /\ b \notin BlocksIn(channel[a]) \/ ~Sealed(b)
      /\ \A n \in Node : b \notin Reached(n, a) \/ ~Sealed(b)
  BY <1>2, OnceFacts DEF Reached
<1>6. \A n \in Node \ {a} : Reached(n, a)' = Reached(n, a) /\ lattice'[n][a] = lattice[n][a]
  BY <1>1 DEF Reached
<1> HIDE DEF b, p
<1>7. \A i, j \in Waiting(a)' :
        Sealed(batch[a][i]) /\ batch[a][i] = batch[a][j] => i = j
  BY <1>4, <1>5 DEF Once, b
<1>8. \A i \in Waiting(a)' : Sealed(batch[a][i]) =>
        /\ batch[a][i] \notin BlocksIn(channel[a])
        /\ \A n \in Node \ {a} : batch[a][i] \notin Reached(n, a)
  BY <1>4, <1>5 DEF Once, b
<1> QED
  BY <1>1, <1>6, <1>7, <1>8 DEF Once, Sealed

\* Broadcasting moves a block from the batch to the end of the channel.
LEMMA OnceBroadcasts ==
  ASSUME IInv, LinkInv, NEW a \in Node, Once(a), Broadcast(a)
  PROVE  Once(a)'
<1> DEFINE p == pos[a]
           b == batch[a][p]
           l == Len(channel[a])
<1>1. /\ pc[a] = "broadcast" /\ batch' = batch /\ UNCHANGED <<lattice, inflight>>
      /\ channel'[a] = Append(channel[a], b)
      /\ pc'[a] = IF p = Len(batch[a]) THEN "barrier" ELSE "broadcast"
      /\ pos'[a] = IF p = Len(batch[a]) THEN 1 ELSE p + 1
  BY DEF Broadcast, Advance, IInv, TypeOK
<1>2. /\ DOMAIN batch[a] = 1..Len(batch[a]) /\ Len(batch[a]) \in Nat
      /\ p \in Nat \ {0} /\ p <= Len(batch[a])
  BY <1>1, HomeFacts DEF IInv, TypeOK, RoundInv, RoundOk
<1>3. Waiting(a)' = Waiting(a) \ {p} /\ p \in Waiting(a)
  <2>1. Waiting(a) = p..Len(batch[a])
    BY <1>1 DEF Waiting
  <2>2. Waiting(a)' = (p + 1)..Len(batch[a])
    BY <1>1, <1>2 DEF Waiting
  <2> QED
    BY <1>2, <2>1, <2>2
<1>4. IsBlock(b)
  BY <1>2, HomeFacts, ChainElements
<1> HIDE DEF b, p
<1>5. /\ DOMAIN channel[a] = 1..l /\ l \in Nat /\ DOMAIN channel'[a] = 1..(l + 1)
      /\ \A i \in 1..l : channel'[a][i] = channel[a][i]
      /\ channel'[a][l + 1] = b
      /\ BlocksIn(channel'[a]) = BlocksIn(channel[a]) \cup {b}
      /\ \A i \in 1..l : channel[a][i] \in BlocksIn(channel[a])
  BY <1>1, <1>4, HomeFacts, AppendChain, ChainElements
<1> HIDE DEF l
<1>6. Sealed(b) => /\ b \notin BlocksIn(channel[a])
                   /\ \A n \in Node \ {a} : b \notin Reached(n, a)
                   /\ \A i \in Waiting(a)' : batch[a][i] # b
  BY <1>3 DEF Once, b
<1>7. \A i, j \in DOMAIN channel'[a] :
        Sealed(channel'[a][i]) /\ channel'[a][i] = channel'[a][j] => i = j
  <2> SUFFICES ASSUME NEW i \in 1..(l + 1), NEW j \in 1..(l + 1),
                      Sealed(channel'[a][i]), channel'[a][i] = channel'[a][j]
               PROVE  i = j
    BY <1>5
  <2>1. (i = l + 1 \/ i \in 1..l) /\ (j = l + 1 \/ j \in 1..l)
    BY <1>5
  <2> QED
    BY <1>5, <1>6, <2>1 DEF Once
<1>8. \A n \in Node : Reached(n, a)' = Reached(n, a)
  BY <1>1 DEF Reached
<1>9. \A i, j \in Waiting(a)' :
        Sealed(batch[a][i]) /\ batch[a][i] = batch[a][j] => i = j
  BY <1>3 DEF Once
<1>10. \A i \in Waiting(a)' : Sealed(batch[a][i]) =>
         /\ batch[a][i] \notin BlocksIn(channel'[a])
         /\ \A n \in Node \ {a} : batch[a][i] \notin Reached(n, a)
  BY <1>3, <1>5, <1>6 DEF Once
<1>11. \A n \in Node \ {a} : \A c \in BlocksIn(channel'[a]) : Sealed(c) => c \notin Reached(n, a)
  BY <1>5, <1>6 DEF Once
<1> QED
  BY <1>1, <1>7, <1>8, <1>9, <1>10, <1>11 DEF Once, Sealed

\* Publishing moves the first block of the channel to those it reaches.
LEMMA OncePublishes ==
  ASSUME IInv, LinkInv, NEW a \in Node, Home(a), Once(a), NEW n \in Node, Publish(n)
  PROVE  Once(a)'
<1> DEFINE b == Head(channel[n])
<1>1. /\ UNCHANGED <<lattice, batch, pc, pos>> /\ channel[n] # << >>
      /\ channel' = [channel EXCEPT ![n] = Tail(@)]
      /\ \A m \in Node : inflight'[m] \subseteq inflight[m] \cup {b}
  BY DEF Publish, local
<1>2. /\ b \in BlocksIn(channel[n]) /\ b.node_id = n
      /\ BlocksIn(Tail(channel[n])) \subseteq BlocksIn(channel[n])
  BY <1>1, TailChain DEF IInv, TypeOK, LinkInv
<1>3. Waiting(a)' = Waiting(a)
  BY <1>1 DEF Waiting
<1>4. b = channel[n][1]
  BY <1>1
<1> HIDE DEF b
<1>5. \A m \in Node : Reached(m, a)' \subseteq Reached(m, a) \cup {b}
  BY <1>1 DEF Reached
<1>6. CASE n # a
  <2>1. channel'[a] = channel[a]
    BY <1>1, <1>6 DEF IInv, TypeOK
  <2>2. \A i \in Waiting(a) : batch[a][i] # b
    BY <1>2, <1>6, OnceFacts
  <2>3. \A c \in BlocksIn(channel[a]) : c # b
    BY <1>2, <1>6, OnceFacts
  <2>4. \A m \in Node : b \notin BlocksIn(lattice[m][a])
    BY <1>2, <1>6, OnceFacts
  <2>5. \A m \in Node \ {a} : inflight'[m] \cap BlocksIn(lattice[m][a]) = {}
    BY <1>1, <2>4 DEF Once
  <2>6. \A m \in Node \ {a} : \A c \in BlocksIn(channel[a]) : Sealed(c) => c \notin Reached(m, a)'
    BY <1>5, <2>3 DEF Once
  <2>7. \A i \in Waiting(a) : Sealed(batch[a][i]) =>
          /\ batch[a][i] \notin BlocksIn(channel[a])
          /\ \A m \in Node \ {a} : batch[a][i] \notin Reached(m, a)'
    BY <1>5, <2>2 DEF Once
  <2> QED
    BY <1>1, <1>3, <2>1, <2>5, <2>6, <2>7, SMTT(30) DEF Once, Sealed
<1>7. CASE n = a
  <2> DEFINE s == channel[a]
             t == Tail(s)
  <2>1. channel'[a] = t
    BY <1>1, <1>7 DEF IInv, TypeOK
  <2>2. IsChain(s) /\ Len(s) \in Nat /\ DOMAIN s = 1..Len(s) /\ s # << >>
    BY <1>1, <1>7, HomeFacts, ChainElements
  <2>3. /\ DOMAIN t = 1..(Len(s) - 1) /\ \A i \in DOMAIN t : t[i] = s[i + 1]
        /\ 1 \in DOMAIN s
    BY <2>2 DEF IsChain
  <2>4. \A i \in DOMAIN t : i + 1 \in DOMAIN s /\ i + 1 # 1
    BY <2>2, <2>3
  <2> HIDE DEF s, t
  <2>5. \A i \in DOMAIN t : Sealed(t[i]) => t[i] # b
    BY <1>4, <1>7, <2>3, <2>4 DEF Once, s
  <2>6. \A i, j \in DOMAIN t : Sealed(t[i]) /\ t[i] = t[j] => i = j
    <3> SUFFICES ASSUME NEW i \in DOMAIN t, NEW j \in DOMAIN t, Sealed(t[i]), t[i] = t[j]
                 PROVE  i = j
      OBVIOUS
    <3>1. i + 1 = j + 1
      BY <2>3, <2>4 DEF Once, s
    <3>2. i \in Nat /\ j \in Nat
      BY <2>2, <2>3
    <3> QED
      BY <3>1, <3>2
  <2>7. BlocksIn(t) \subseteq BlocksIn(s) /\ \A c \in BlocksIn(t) : Sealed(c) => c # b
    BY <1>2, <1>7, <2>5 DEF BlocksIn, s, t
  <2>8. \A m \in Node \ {a} : inflight'[m] \cap BlocksIn(lattice[m][a]) = {}
    <3> SUFFICES ASSUME NEW m \in Node \ {a}, NEW c \in inflight'[m], c \in BlocksIn(lattice[m][a])
                 PROVE  FALSE
      OBVIOUS
    <3>1. Sealed(c) /\ c \in Reached(m, a)
      BY OnceFacts DEF Reached
    <3>2. c = b
      BY <1>1 DEF Once
    <3> QED
      BY <1>2, <1>7, <3>1, <3>2 DEF Once
  <2>9. \A m \in Node \ {a} : \A c \in BlocksIn(t) : Sealed(c) => c \notin Reached(m, a)'
    BY <1>5, <2>7 DEF Once, s
  <2>10. \A i \in Waiting(a) : Sealed(batch[a][i]) =>
          /\ batch[a][i] \notin BlocksIn(t)
          /\ \A m \in Node \ {a} : batch[a][i] \notin Reached(m, a)'
    BY <1>2, <1>5, <1>7, <2>7 DEF Once, s
  <2>11. \A m \in Node \ {a} : \A i, j \in DOMAIN lattice'[m][a] :
           lattice'[m][a][i] = lattice'[m][a][j] => i = j
    BY <1>1 DEF Once
  <2>12. \A i, j \in Waiting(a) : Sealed(batch[a][i]) /\ batch[a][i] = batch[a][j] => i = j
    BY DEF Once
  <2>13. lattice' = lattice /\ batch' = batch
    BY <1>1
  <2> QED
    BY <1>3, <2>1, <2>6, <2>8, <2>9, <2>10, <2>11, <2>12, <2>13 DEF Once, Sealed
<1> QED
  BY <1>6, <1>7

\* Receiving moves a block from the network into the lattice, if it is sealed.
LEMMA OnceReceives ==
  ASSUME IInv, LinkInv, NEW a \in Node, Home(a), Once(a), NEW n \in Node, Receive(n)
  PROVE  Once(a)'
<1>1. UNCHANGED <<channel, batch, pc, pos>>
  BY DEF Receive, local
<1>2. PICK b \in inflight[n] :
        /\ inflight' = [inflight EXCEPT ![n] = @ \ {b}]
        /\ lattice' = [lattice EXCEPT ![n] = AddLatticeBlock(lattice[n], b)]
  BY DEF Receive
<1>3. Waiting(a)' = Waiting(a)
  BY <1>1 DEF Waiting
<1>4. CASE n = a
  <2>1. \A m \in Node \ {a} : inflight'[m] = inflight[m] /\ lattice'[m][a] = lattice[m][a]
    BY <1>2, <1>4 DEF IInv, TypeOK
  <2> QED
    BY <1>1, <1>3, <2>1, OnceFrame
<1>5. CASE n # a
  <2> DEFINE s == lattice[n][a]
             t == lattice'[n][a]
  <2>1. /\ inflight'[n] = inflight[n] \ {b}
        /\ lattice'[n] = AddLatticeBlock(lattice[n], b)
        /\ \A m \in Node \ {n} : inflight'[m] = inflight[m] /\ lattice'[m] = lattice[m]
    BY <1>2 DEF IInv, TypeOK
  <2>2. IsBlock(b) /\ IsChain(s) /\ Len(s) \in Nat /\ DOMAIN s = 1..Len(s)
    BY HomeFacts, ChainElements DEF IInv, TypeOK
  <2>3. t = IF Sealed(b) /\ b.node_id = a THEN Append(s, b) ELSE s
    BY <2>1 DEF AddLatticeBlock, Sealed, IInv, TypeOK
  <2>4. b \notin BlocksIn(s)
    BY <1>5 DEF Once
  <2> HIDE DEF s, t
  <2>5. /\ BlocksIn(t) \subseteq BlocksIn(s) \cup {b}
        /\ \A i, j \in DOMAIN t : t[i] = t[j] => i = j
    <3>1. CASE Sealed(b) /\ b.node_id = a
      <4>1. /\ BlocksIn(t) = BlocksIn(s) \cup {b} /\ DOMAIN t = 1..(Len(s) + 1)
            /\ \A i \in 1..Len(s) : t[i] = s[i]
            /\ t[Len(s) + 1] = b
        BY <2>2, <2>3, <3>1, AppendChain
      <4>2. \A i \in 1..Len(s) : s[i] # b
        BY <2>2, <2>4 DEF BlocksIn
      <4>3. \A i, j \in 1..Len(s) : s[i] = s[j] => i = j
        BY <1>5, <2>2 DEF Once, s
      <4>4. \A i \in 1..(Len(s) + 1) : i = Len(s) + 1 \/ i \in 1..Len(s)
        BY <2>2
      <4> QED
        BY <4>1, <4>2, <4>3, <4>4
    <3>2. CASE ~(Sealed(b) /\ b.node_id = a)
      BY <1>5, <2>3, <3>2 DEF Once, s
    <3> QED
      BY <3>1, <3>2
  <2>6. inflight'[n] \cap BlocksIn(t) = {}
    BY <1>5, <2>1, <2>5 DEF Once, s
  <2>7. \A m \in Node : Reached(m, a)' \subseteq Reached(m, a)
    <3>1. Reached(n, a)' \subseteq Reached(n, a)
      BY <2>1, <2>5 DEF Reached, s, t
    <3>2. \A m \in Node \ {n} : Reached(m, a)' = Reached(m, a)
      BY <2>1 DEF Reached
    <3> QED
      BY <3>1, <3>2
  <2>8. \A m \in Node \ {a} :
          /\ \A c \in BlocksIn(channel[a]) : Sealed(c) => c \notin Reached(m, a)'
          /\ inflight'[m] \cap BlocksIn(lattice'[m][a]) = {}
          /\ \A i, j \in DOMAIN lattice'[m][a] : lattice'[m][a][i] = lattice'[m][a][j] => i = j
    <3> TAKE m \in Node \ {a}
    <3>1. \A c \in BlocksIn(channel[a]) : Sealed(c) => c \notin Reached(m, a)'
      BY <2>7 DEF Once
    <3>2. CASE m = n
      BY <2>5, <2>6, <3>1, <3>2 DEF t
    <3>3. CASE m # n
      BY <2>1, <3>1, <3>3 DEF Once
    <3> QED
      BY <3>2, <3>3
  <2>9. \A i \in Waiting(a) : Sealed(batch[a][i]) =>
          /\ batch[a][i] \notin BlocksIn(channel[a])
          /\ \A m \in Node \ {a} : batch[a][i] \notin Reached(m, a)'
    BY <2>7 DEF Once
  <2> QED
    BY <1>1, <1>3, <2>8, <2>9 DEF Once, Sealed
<1> QED
  BY <1>4, <1>5

\* A restarted node forgets its lattice and may be sent again what still travels.
LEMMA OnceRestarts ==
  ASSUME IInv, LinkInv, NEW a \in Node, Home(a), Once(a), NEW n \in Node, n # a, Restart(n)
  PROVE  Once(a)'
<1>1. /\ pc'[a] = pc[a] /\ pos'[a] = pos[a] /\ batch'[a] = batch[a]
      /\ channel'[a] = channel[a] /\ lattice'[n][a] = << >>
      /\ \A m \in Node \ {n} : inflight'[m] = inflight[m] /\ lattice'[m][a] = lattice[m][a]
  BY DEF Restart, IInv, TypeOK, EmptyLattice
<1>2. \A b \in inflight'[n] : \E m \in Node : b \in inflight[m]
  BY DEF Restart, IInv, TypeOK
<1>3. Waiting(a)' = Waiting(a)
  BY <1>1 DEF Waiting
<1>4. BlocksIn(lattice'[n][a]) = {} /\ DOMAIN lattice'[n][a] = {}
  BY <1>1, EmptyChain
<1>5. \A m \in Node \ {n} : Reached(m, a)' = Reached(m, a)
  BY <1>1 DEF Reached
<1>6. ASSUME NEW b, b.node_id = a, \A m \in Node \ {a} : b \notin Reached(m, a)
      PROVE  b \notin Reached(n, a)'
  <2>1. \A m \in Node : b \notin inflight[m]
    BY <1>6 DEF Home, Reached
  <2> QED
    BY <1>2, <1>4, <2>1 DEF Reached
<1>7. \A i \in Waiting(a) : Sealed(batch[a][i]) =>
        /\ batch[a][i] \notin BlocksIn(channel[a])
        /\ \A m \in Node \ {a} : batch[a][i] \notin Reached(m, a)'
  BY <1>5, <1>6, OnceFacts DEF Once
<1>8. \A b \in BlocksIn(channel[a]) : Sealed(b) => \A m \in Node \ {a} : b \notin Reached(m, a)'
  BY <1>5, <1>6, OnceFacts DEF Once
<1>9. \A m \in Node \ {a} :
        /\ inflight'[m] \cap BlocksIn(lattice'[m][a]) = {}
        /\ \A i, j \in DOMAIN lattice'[m][a] : lattice'[m][a][i] = lattice'[m][a][j] => i = j
  BY <1>1, <1>4 DEF Once
<1> QED
  BY <1>1, <1>3, <1>7, <1>8, <1>9 DEF Once, Sealed

LEMMA OnceNext ==
  ASSUME IInv, LinkInv, [Next]_vars, NEW a \in Node, restarts'[a] = 0
  PROVE  Once(a)'
<1>0. restarts[a] = 0 /\ Home(a) /\ Once(a)
  BY HomeNext DEF LinkInv
<1>1. CASE Tick \/ UNCHANGED vars
  <2>1. UNCHANGED <<lattice, batch, inflight, channel, pc, pos>>
    BY <1>1 DEF Tick, vars, local
  <2> QED
    BY <1>0, <2>1, OnceFrame DEF Waiting
<1>2. ASSUME NEW n \in Node, n # a, EpochTask(n) PROVE Once(a)'
  <2>1. /\ pc'[a] = pc[a] /\ pos'[a] = pos[a] /\ batch'[a] = batch[a]
        /\ channel'[a] = channel[a] /\ inflight' = inflight
    BY <1>2, Elsewhere
  <2>2. \A m \in Node : lattice'[m][a] = lattice[m][a]
    <3>1. CASE AppendOwn(n)
      <4> DEFINE b == batch[n][pos[n]]
      <4>1. /\ lattice' = [lattice EXCEPT ![n] = AddLatticeBlock(lattice[n], b)]
        BY <3>1 DEF AppendOwn
      <4>2. b.node_id = n
        <5>1. pos[n] \in DOMAIN batch[n]
          <6>1. pc[n] \in {"commit", "append"} /\ batch[n] # << >>
            BY <3>1 DEF AppendOwn, IInv, BatchInv, BatchOk
          <6>2. DOMAIN batch[n] = 1..Len(batch[n]) /\ Len(batch[n]) \in Nat /\ Len(batch[n]) # 0
            BY <6>1, HomeFacts DEF IsChain
          <6> QED
            BY <6>1, <6>2 DEF IInv, TypeOK, RoundInv, RoundOk
        <5> QED
          BY <5>1, HomeFacts
      <4> HIDE DEF b
      <4> QED
        BY <1>2, <4>1, <4>2 DEF AddLatticeBlock, IInv, TypeOK
    <3>2. CASE ~AppendOwn(n)
      BY <1>2, <3>2 DEF EpochTask, StageDeltas, CollectArgs, TrainingSucceeds,
         TrainingFails, EvaluatePeer, Broadcast, LeaveBarrierEarly,
         LeaveBarrierLate, SleepToDeadline, Elect
    <3> QED
      BY <3>1, <3>2
  <2> QED
    BY <1>0, <2>1, <2>2, OnceFrame DEF Waiting
<1>3. CASE EpochTask(a)
  <2>1. CASE ~(AppendOwn(a) \/ Broadcast(a))
    <3>1. UNCHANGED <<lattice, channel, inflight>>
      BY <1>3, <2>1 DEF EpochTask, StageDeltas, CollectArgs, TrainingSucceeds,
         TrainingFails, EvaluatePeer, LeaveBarrierEarly,
         LeaveBarrierLate, SleepToDeadline, Elect
    <3>2. pc'[a] \notin {"append", "broadcast"}
      BY <1>3, <2>1 DEF EpochTask, StageDeltas, CollectArgs, TrainingSucceeds,
         TrainingFails, EvaluatePeer, LeaveBarrierEarly,
         LeaveBarrierLate, SleepToDeadline, Elect, Goto, IInv, TypeOK
    <3>3. Waiting(a)' = {}
      BY <3>2 DEF Waiting
    <3> QED
      BY <1>0, <3>1, <3>3, OnceFrame
  <2> QED
    BY <1>0, <2>1, OnceAppends, OnceBroadcasts
<1>4. ASSUME NEW n \in Node, EventLoop(n) PROVE Once(a)'
  BY <1>0, <1>4, OncePublishes, OnceReceives DEF EventLoop
<1>5. ASSUME NEW n \in Node, Restart(n) PROVE Once(a)'
  <2>1. n # a
    BY <1>0, <1>5 DEF Restart, IInv, TypeOK
  <2> QED
    BY <1>0, <1>5, <2>1, OnceRestarts
<1> QED
  BY <1>1, <1>2, <1>3, <1>4, <1>5 DEF Next

LEMMA InitLink == Init => LinkInv
<1> SUFFICES ASSUME Init PROVE LinkInv
  OBVIOUS
<1>1. \A n \in Node : BlocksIn(channel[n]) = {}
  BY EmptyChain DEF Init
<1>2. ASSUME NEW a \in Node PROVE Home(a) /\ Once(a)
  <2>1. /\ \A n \in Node : lattice[n][a] = << >>
        /\ batch[a] = << >> /\ channel[a] = << >> /\ authored[a] = {}
        /\ pc[a] = "wait" /\ \A n \in Node : inflight[n] = {}
    BY <1>2 DEF Init, EmptyLattice
  <2>2. Waiting(a) = {}
    BY <2>1 DEF Waiting
  <2>3. Home(a)
    BY <2>1, EmptyChain DEF Home, Linked, Apart, Continues, Chain
  <2>4. Once(a)
    BY <1>1, <2>1, <2>2, EmptyChain DEF Once
  <2> QED
    BY <2>3, <2>4
<1> QED
  BY <1>1, <1>2 DEF LinkInv

LEMMA SenderNext ==
  ASSUME IInv, LinkInv, [Next]_vars, NEW n \in Node
  PROVE  \A b \in BlocksIn(channel'[n]) : b.node_id = n
<1>0. \A b \in BlocksIn(channel[n]) : b.node_id = n
  BY DEF LinkInv
<1>1. CASE Broadcast(n)
  <2> DEFINE b == batch[n][pos[n]]
  <2>1. channel'[n] = Append(channel[n], b)
    BY <1>1 DEF Broadcast, IInv, TypeOK
  <2>2. pos[n] \in DOMAIN batch[n]
    BY <1>1, HomeFacts DEF Broadcast, IInv, TypeOK, RoundInv, RoundOk
  <2>3. IsBlock(b) /\ b.node_id = n
    BY <2>2, HomeFacts, ChainElements
  <2> HIDE DEF b
  <2> QED
    BY <1>0, <2>1, <2>3, HomeFacts, AppendChain
<1>2. CASE Publish(n)
  <2>1. channel'[n] = Tail(channel[n]) /\ channel[n] # << >>
    BY <1>2 DEF Publish, IInv, TypeOK
  <2> QED
    BY <1>0, <2>1, HomeFacts, TailChain
<1>3. CASE Restart(n)
  <2>1. channel'[n] = << >>
    BY <1>3 DEF Restart, IInv, TypeOK
  <2> QED
    BY <2>1, EmptyChain
<1>4. CASE ~(Broadcast(n) \/ Publish(n) \/ Restart(n))
  <2>1. channel'[n] = channel[n]
    <3>1. ASSUME NEW m \in Node, EpochTask(m) PROVE channel'[n] = channel[n]
      <4>1. CASE m # n
        BY <3>1, <4>1, Elsewhere
      <4>2. CASE m = n
        BY <1>4, <3>1, <4>2 DEF EpochTask, StageDeltas, CollectArgs, TrainingSucceeds,
           TrainingFails, EvaluatePeer, AppendOwn, LeaveBarrierEarly,
           LeaveBarrierLate, SleepToDeadline, Elect
      <4> QED
        BY <4>1, <4>2
    <3>2. ASSUME NEW m \in Node, EventLoop(m) \/ Restart(m) PROVE channel'[n] = channel[n]
      <4>0. DOMAIN channel = Node
        BY DEF IInv, TypeOK
      <4>1. CASE Publish(m)
        <5>1. m # n
          BY <1>4, <4>1
        <5>2. channel' = [channel EXCEPT ![m] = Tail(@)]
          BY <4>1 DEF Publish
        <5> QED
          BY <4>0, <5>1, <5>2
      <4>2. CASE Receive(m)
        BY <4>2 DEF Receive
      <4>3. CASE Restart(m)
        <5>1. m # n
          BY <1>4, <4>3
        <5>2. channel' = [channel EXCEPT ![m] = << >>]
          BY <4>3 DEF Restart
        <5> QED
          BY <4>0, <5>1, <5>2
      <4> QED
        BY <3>2, <4>1, <4>2, <4>3 DEF EventLoop
    <3> QED
      BY <3>1, <3>2 DEF Next, Tick, vars
  <2> QED
    BY <1>0, <2>1
<1> QED
  BY <1>1, <1>2, <1>3, <1>4

\* The invariant of linkage and delivery holds in every reachable state (main.rs
\* 205-334, mesh.rs).
THEOREM LinkInvariant == Spec => []LinkInv
<1>1. IInv /\ LinkInv /\ [Next]_vars => LinkInv'
  BY HomeNext, OnceNext, SenderNext DEF LinkInv
<1> QED
  BY <1>1, InitLink, InductiveInvariant, PTL DEF Spec

\* Between reading the end of its chain and appending to it, for as long as
\* evaluating and waiting for the lock take, nobody else can extend a node's own
\* chain: the blocks it made are linked as they were meant (main.rs 205-326).
THEOREM OwnChains == Spec => []OwnChainLinked
<1>1. ASSUME IInv, LinkInv, NEW n \in Node, restarts[n] = 0, NEW i \in DOMAIN lattice[n][n]
      PROVE  lattice[n][n][i].prev_hash = TailHash(SubSeq(lattice[n][n], 1, i - 1))
  <2> DEFINE s == lattice[n][n]
             t == SubSeq(s, 1, i - 1)
  <2>1. s \in Seq(BlocksIn(s)) /\ DOMAIN s = 1..Len(s) /\ Len(s) \in Nat
    BY <1>1, HomeFacts, ChainElements DEF IsChain
  <2>2. s[i].prev_hash = IF i = 1 THEN GenesisHash ELSE s[i - 1].hash
    BY <1>1 DEF LinkInv, Home, Linked, Chain
  <2>3. CASE i = 1
    <3>1. t = << >>
      BY <2>1, <2>3
    <3> QED
      BY <2>2, <2>3, <3>1 DEF TailHash
  <2>4. CASE i # 1
    <3>1. i - 1 \in 1..Len(s) /\ i - 1 >= 1
      BY <2>1, <2>4
    <3>2. Len(t) = i - 1 /\ t[i - 1] = s[i - 1] /\ t # << >>
      BY <2>1, <3>1
    <3> QED
      BY <2>2, <2>4, <3>2 DEF TailHash
  <2> QED
    BY <2>3, <2>4
<1>2. IInv /\ LinkInv => OwnChainLinked
  BY <1>1 DEF OwnChainLinked
<1> QED
  BY <1>2, InductiveInvariant, LinkInvariant, PTL

\* However blocks overtake each other, no node holds two blocks of an author
\* that was not restarted in one place of its chain, or one block twice, although
\* add_lattice_block looks neither at the link nor for a duplicate.
THEOREM NoForks == Spec => []NoForkWithoutRestart
<1>1. ASSUME IInv, LinkInv, NEW n \in Node, NEW a \in Node, restarts[a] = 0,
             NEW i \in DOMAIN lattice[n][a], NEW j \in DOMAIN lattice[n][a],
             lattice[n][a][i].prev_hash = lattice[n][a][j].prev_hash
      PROVE  i = j
  <2>1. Home(a) /\ Once(a)
    BY <1>1 DEF LinkInv
  <2>2. CASE n = a
    BY <1>1, <2>1, <2>2 DEF Home, Apart, Chain
  <2>3. CASE n # a
    <3>1. lattice[n][a][i] \in BlocksIn(Chain(a)) /\ lattice[n][a][j] \in BlocksIn(Chain(a))
      BY <1>1, <2>1, HomeFacts, ChainElements, SMTT(30) DEF Home
    <3>2. PICK k \in DOMAIN Chain(a), l \in DOMAIN Chain(a) :
            lattice[n][a][i] = Chain(a)[k] /\ lattice[n][a][j] = Chain(a)[l]
      BY <3>1 DEF BlocksIn
    <3>3. k = l
      BY <1>1, <2>1, <3>2 DEF Home, Apart
    <3> QED
      BY <1>1, <2>1, <2>3, <3>2, <3>3 DEF Once
  <2> QED
    BY <2>2, <2>3
<1>2. IInv /\ LinkInv => NoForkWithoutRestart
  BY <1>1 DEF NoForkWithoutRestart
<1> QED
  BY <1>2, InductiveInvariant, LinkInvariant, PTL
-------------------------------------------------------------------------------
(* Agreement.  As long as nobody is restarted, a block is kept by its author *)
(* until it has been published, and then it is on its way to every other     *)
(* node, or held by it, or lost for it.                                      *)

Kept(a) == BlocksIn(channel[a]) \cup {batch[a][i] : i \in Waiting(a)}

\* What is lost for n of the blocks of a.
Gap(n, a) == authored[a] \ (Reached(n, a) \cup Kept(a))

Gaps == {p \in Node \X UNION {authored[a] : a \in Node} :
           p[1] # p[2].node_id /\ p[2] \in Gap(p[1], p[2].node_id)}

NoRestarts == \A n \in Node : restarts[n] = 0

Arriving == NoRestarts => IsFiniteSet(Gaps) /\ Cardinality(Gaps) <= losses

LEMMA TailDiffers ==
  ASSUME NEW s, IsChain(s), s # << >>
  PROVE  Tail(s) # s
<1>1. s \in Seq(BlocksIn(s)) /\ Len(s) \in Nat
  BY ChainElements DEF IsChain
<1>2. Len(Tail(s)) = Len(s) - 1
  BY <1>1
<1>3. \A k \in Nat : k - 1 # k
  OBVIOUS
<1>4. Len(Tail(s)) # Len(s)
  BY <1>1, <1>2, <1>3, Zenon
<1> QED
  BY <1>4, Zenon

LEMMA TailRest ==
  ASSUME NEW s, IsChain(s), s # << >>
  PROVE  BlocksIn(s) \subseteq {Head(s)} \cup BlocksIn(Tail(s))
<1> DEFINE t == Tail(s)
<1>1. s \in Seq(BlocksIn(s)) /\ Len(s) \in Nat /\ DOMAIN s = 1..Len(s) /\ Len(s) > 0
  BY ChainElements DEF IsChain
<1>2. /\ Head(s) = s[1] /\ DOMAIN t = 1..(Len(s) - 1)
      /\ \A i \in 1..(Len(s) - 1) : t[i] = s[i + 1]
  BY <1>1
<1>3. ASSUME NEW i \in 1..Len(s), i # 1 PROVE s[i] \in BlocksIn(t)
  <2>1. i - 1 \in DOMAIN t /\ t[i - 1] = s[i]
    BY <1>1, <1>2, <1>3
  <2> HIDE DEF t
  <2> QED
    BY <2>1 DEF BlocksIn
<1> QED
  BY <1>1, <1>2, <1>3, SMTT(30) DEF BlocksIn

\* Nothing undoes a restart.
LEMMA NoRestartsBefore ==
  ASSUME IInv, [Next]_vars, NoRestarts'
  PROVE  NoRestarts /\ \A n \in Node : ~Restart(n)
<1>0. restarts \in [Node -> Nat]
  BY DEF IInv, TypeOK
<1>1. ASSUME NEW n \in Node, Restart(n) PROVE FALSE
  BY <1>0, <1>1 DEF Restart, NoRestarts
<1>2. ASSUME NEW n \in Node, EpochTask(n) PROVE UNCHANGED restarts
  BY <1>2 DEF EpochTask, StageDeltas, CollectArgs, TrainingSucceeds, TrainingFails,
     EvaluatePeer, AppendOwn, Broadcast, LeaveBarrierEarly, LeaveBarrierLate,
     SleepToDeadline, Elect
<1>3. UNCHANGED restarts \/ \E n \in Node : Restart(n)
  BY <1>2 DEF Next, Tick, EventLoop, Publish, Receive, vars
<1> QED
  BY <1>1, <1>3 DEF NoRestarts

\* What the author does to its own blocks.
LEMMA GapAtHome ==
  ASSUME IInv, LinkInv, NEW a \in Node, restarts[a] = 0, EpochTask(a), NEW n \in Node \ {a}
  PROVE  Gap(n, a)' \subseteq Gap(n, a)
<1> DEFINE p == pos[a]
           b == batch[a][p]
<1>0. /\ DOMAIN batch[a] = 1..Len(batch[a]) /\ Len(batch[a]) \in Nat /\ p \in Nat \ {0}
  BY HomeFacts DEF IInv, TypeOK
<1>1. CASE AppendOwn(a)
  <2>1. /\ pc[a] \in {"commit", "append"} /\ batch' = batch /\ channel' = channel
        /\ inflight' = inflight /\ lattice'[n] = lattice[n]
        /\ authored'[a] \subseteq authored[a] \cup {b}
        /\ pc'[a] = IF p = Len(batch[a]) THEN "broadcast" ELSE "append"
        /\ pos'[a] = IF p = Len(batch[a]) THEN 1 ELSE p + 1
    BY <1>1 DEF AppendOwn, Advance, IInv, TypeOK
  <2>2. pc[a] = "commit" => p = 1
    BY <1>1, AppendsOne DEF LinkInv
  <2>3. Waiting(a)' = Waiting(a) \cup {p}
    <3>1. Waiting(a) = 1..(p - 1)
      BY <1>0, <2>1, <2>2 DEF Waiting
    <3>2. Waiting(a)' = 1..p
      BY <1>0, <2>1 DEF Waiting
    <3> QED
      BY <1>0, <3>1, <3>2
  <2> QED
    BY <2>1, <2>3 DEF Gap, Kept, Reached
<1>2. CASE Broadcast(a)
  <2>1. /\ pc[a] = "broadcast" /\ batch' = batch /\ UNCHANGED <<lattice, inflight, authored>>
        /\ channel'[a] = Append(channel[a], b)
        /\ pc'[a] = IF p = Len(batch[a]) THEN "barrier" ELSE "broadcast"
        /\ pos'[a] = IF p = Len(batch[a]) THEN 1 ELSE p + 1
    BY <1>2 DEF Broadcast, Advance, IInv, TypeOK
  <2>2. p <= Len(batch[a])
    BY <2>1 DEF IInv, RoundInv, RoundOk
  <2>3. Waiting(a) \subseteq Waiting(a)' \cup {p}
    <3>1. Waiting(a) = p..Len(batch[a])
      BY <2>1 DEF Waiting
    <3>2. Waiting(a)' = (p + 1)..Len(batch[a])
      BY <1>0, <2>1, <2>2 DEF Waiting
    <3> QED
      BY <1>0, <3>1, <3>2
  <2>4. IsBlock(b)
    BY <1>0, <2>2, HomeFacts, ChainElements
  <2> HIDE DEF b, p
  <2>5. BlocksIn(channel'[a]) = BlocksIn(channel[a]) \cup {b}
    BY <2>1, <2>4, HomeFacts, AppendChain
  <2>6. Kept(a) \subseteq Kept(a)'
    BY <2>1, <2>3, <2>5 DEF Kept, b
  <2>7. Reached(n, a)' = Reached(n, a)
    BY <2>1 DEF Reached
  <2> QED
    BY <2>1, <2>6, <2>7 DEF Gap
<1>3. CASE ~(AppendOwn(a) \/ Broadcast(a))
  <2>1. UNCHANGED <<lattice, channel, inflight, authored>>
    BY <1>3 DEF EpochTask, StageDeltas, CollectArgs, TrainingSucceeds,
       TrainingFails, EvaluatePeer, LeaveBarrierEarly,
       LeaveBarrierLate, SleepToDeadline, Elect
  <2>2. pc[a] \notin {"append", "broadcast"}
    BY <1>3 DEF EpochTask, StageDeltas, CollectArgs, TrainingSucceeds,
       TrainingFails, EvaluatePeer, LeaveBarrierEarly,
       LeaveBarrierLate, SleepToDeadline, Elect, Goto
  <2>3. Waiting(a) = {}
    BY <2>2 DEF Waiting
  <2> QED
    BY <2>1, <2>3 DEF Gap, Kept, Reached
<1> QED
  BY <1>1, <1>2, <1>3

\* Only its own publication takes a block from an author without giving it to n.
LEMMA GapKept ==
  ASSUME IInv, LinkInv, [Next]_vars, NoRestarts', NEW a \in Node, NEW n \in Node \ {a},
         ~Publish(a)
  PROVE  Gap(n, a)' \subseteq Gap(n, a)
<1>0. NoRestarts /\ restarts[a] = 0 /\ \A m \in Node : ~Restart(m)
  BY NoRestartsBefore DEF NoRestarts
<1>1. CASE Tick \/ UNCHANGED vars
  <2>1. UNCHANGED <<lattice, batch, inflight, channel, pc, pos, authored>>
    BY <1>1 DEF Tick, vars, local
  <2> QED
    BY <1>0, <2>1 DEF Gap, Kept, Reached, Waiting
<1>2. ASSUME NEW m \in Node, m # a, EpochTask(m)
      PROVE  Gap(n, a)' \subseteq Gap(n, a)
  <2>1. /\ pc'[a] = pc[a] /\ pos'[a] = pos[a] /\ batch'[a] = batch[a]
        /\ authored'[a] = authored[a] /\ channel'[a] = channel[a] /\ inflight' = inflight
    BY <1>2, Elsewhere
  <2>2. Kept(a)' = Kept(a)
    BY <2>1 DEF Kept, Waiting
  <2>3. BlocksIn(lattice[n][a]) \subseteq BlocksIn(lattice'[n][a])
    <3>1. CASE AppendOwn(m)
      <4>1. PICK b \in BlocksIn(batch[m]) : lattice' = [lattice EXCEPT ![m] = AddLatticeBlock(lattice[m], b)]
        BY <1>0, <3>1, AppendsOne DEF AppendOwn, LinkInv, BlocksIn, NoRestarts
      <4>2. IsBlock(b)
        BY <4>1, HomeFacts DEF IsChain
      <4>3. DOMAIN lattice = Node /\ DOMAIN lattice[m] = Node /\ \A c \in Node : IsChain(lattice[m][c])
        BY DEF IInv, TypeOK
      <4>4. BlocksIn(lattice[m][a]) \subseteq BlocksIn(AddLatticeBlock(lattice[m], b)[a])
        BY <4>2, <4>3, AddBlock
      <4> QED
        BY <4>1, <4>3, <4>4
    <3>2. CASE ~AppendOwn(m)
      BY <1>2, <3>2 DEF EpochTask, StageDeltas, CollectArgs, TrainingSucceeds,
         TrainingFails, EvaluatePeer, Broadcast, LeaveBarrierEarly,
         LeaveBarrierLate, SleepToDeadline, Elect
    <3> QED
      BY <3>1, <3>2
  <2>4. Reached(n, a) \subseteq Reached(n, a)'
    BY <2>1, <2>3 DEF Reached
  <2> QED
    BY <2>1, <2>2, <2>4 DEF Gap
<1>3. CASE EpochTask(a)
  BY <1>0, <1>3, GapAtHome DEF NoRestarts
<1>4. ASSUME NEW m \in Node \ {a}, Publish(m)
      PROVE  Gap(n, a)' \subseteq Gap(n, a)
  <2>1. /\ UNCHANGED <<lattice, batch, pc, pos, authored>> /\ channel[m] # << >>
        /\ channel' = [channel EXCEPT ![m] = Tail(@)] /\ DOMAIN channel = Node
    BY <1>4 DEF Publish, local, IInv, TypeOK
  <2>2. Waiting(a)' = Waiting(a)
    BY <2>1 DEF Waiting
  <2>3. inflight[n] \subseteq inflight'[n] /\ channel'[a] = channel[a]
    BY <1>4, <2>1 DEF Publish
  <2> QED
    BY <2>1, <2>2, <2>3 DEF Gap, Kept, Reached
<1>5. ASSUME NEW m \in Node, Receive(m)
      PROVE  Gap(n, a)' \subseteq Gap(n, a)
  <2>1. UNCHANGED <<channel, batch, pc, pos, authored>>
    BY <1>5 DEF Receive, local
  <2>2. Kept(a)' = Kept(a)
    BY <2>1 DEF Kept, Waiting
  <2>3. PICK b \in inflight[m] :
          /\ inflight' = [inflight EXCEPT ![m] = @ \ {b}]
          /\ lattice' = [lattice EXCEPT ![m] = AddLatticeBlock(lattice[m], b)]
    BY <1>5 DEF Receive
  <2>4. /\ DOMAIN inflight = Node /\ DOMAIN lattice = Node /\ IsBlock(b)
        /\ DOMAIN lattice[m] = Node /\ \A c \in Node : IsChain(lattice[m][c])
    BY DEF IInv, TypeOK
  <2>5. BlocksIn(AddLatticeBlock(lattice[m], b)[a]) =
          IF Sealed(b) /\ a = b.node_id THEN BlocksIn(lattice[m][a]) \cup {b}
          ELSE BlocksIn(lattice[m][a])
    BY <2>4, AddBlock
  <2>6. \A c \in authored[a] : Sealed(c) /\ c.node_id = a
    BY HomeFacts
  <2>7. authored[a] \cap Reached(n, a) \subseteq Reached(n, a)'
    <3>1. CASE m = n
      <4>1. inflight'[n] = inflight[n] \ {b} /\ lattice'[n] = AddLatticeBlock(lattice[n], b)
        BY <2>3, <2>4, <3>1
      <4> QED
        BY <2>5, <2>6, <3>1, <4>1 DEF Reached
    <3>2. CASE m # n
      <4>1. inflight'[n] = inflight[n] /\ lattice'[n] = lattice[n]
        BY <2>3, <2>4, <3>2
      <4> QED
        BY <4>1 DEF Reached
    <3> QED
      BY <3>1, <3>2
  <2> QED
    BY <2>1, <2>2, <2>7 DEF Gap, Receive
<1> QED
  BY <1>0, <1>1, <1>2, <1>3, <1>4, <1>5 DEF Next, EventLoop

\* A publication of a adds its block to the gaps of those it does not reach.
LEMMA GapPublished ==
  ASSUME IInv, NEW a \in Node, Publish(a), NEW n \in Node \ {a}
  PROVE  /\ Gap(n, a)' \subseteq Gap(n, a) \cup {Head(channel[a])}
         /\ Head(channel[a]) \in inflight'[n] => Gap(n, a)' \subseteq Gap(n, a)
<1>1. /\ UNCHANGED <<lattice, batch, pc, pos, authored>> /\ channel[a] # << >>
      /\ channel'[a] = Tail(channel[a]) /\ inflight[n] \subseteq inflight'[n]
  BY DEF Publish, local, IInv, TypeOK
<1>2. Waiting(a)' = Waiting(a)
  BY <1>1 DEF Waiting
<1>3. BlocksIn(channel[a]) \subseteq {Head(channel[a])} \cup BlocksIn(channel'[a])
  BY <1>1, HomeFacts, TailRest
<1> QED
  BY <1>1, <1>2, <1>3 DEF Gap, Kept, Reached

LEMMA ArrivingNext ==
  ASSUME IInv, LinkInv, Arriving, [Next]_vars
  PROVE  Arriving'
<1> SUFFICES ASSUME NoRestarts' PROVE IsFiniteSet(Gaps') /\ Cardinality(Gaps') <= losses'
  BY DEF Arriving
<1>0. /\ IsFiniteSet(Gaps) /\ Cardinality(Gaps) <= losses
      /\ Cardinality(Gaps) \in Nat /\ losses \in Nat
  BY NoRestartsBefore, FS_CardinalityType DEF Arriving, IInv, TypeOK
<1>1. ASSUME NEW p \in Gaps'
      PROVE  /\ p = <<p[1], p[2]>> /\ p[1] \in Node /\ p[2].node_id \in Node
             /\ p[1] # p[2].node_id /\ p[2] \in Gap(p[1], p[2].node_id)'
  <2>1. PICK a \in Node : p[2] \in authored'[a]
    BY <1>1 DEF Gaps
  <2>2. IInv'
    BY NextIInv
  <2>3. p[2].node_id = a
    BY <2>1, <2>2 DEF IInv, AuthoredInv
  <2> QED
    BY <1>1, <2>1, <2>3 DEF Gaps
<1>2. ASSUME NEW p, p = <<p[1], p[2]>>, p[1] \in Node, p[2].node_id \in Node,
             p[1] # p[2].node_id, p[2] \in Gap(p[1], p[2].node_id)
      PROVE  p \in Gaps
  BY <1>2 DEF Gaps, Gap
<1>3. CASE \A a \in Node : ~Publish(a)
  <2>1. Gaps' \subseteq Gaps
    BY <1>1, <1>2, <1>3, GapKept
  <2>2. losses' = losses
    <3>1. ASSUME NEW n \in Node, EpochTask(n) PROVE losses' = losses
      BY <3>1 DEF EpochTask, StageDeltas, CollectArgs, TrainingSucceeds, TrainingFails,
         EvaluatePeer, AppendOwn, Broadcast, LeaveBarrierEarly, LeaveBarrierLate,
         SleepToDeadline, Elect
    <3> QED
      BY <1>3, <3>1 DEF Next, Tick, EventLoop, Receive, Restart, vars
  <2>3. IsFiniteSet(Gaps') /\ Cardinality(Gaps') <= Cardinality(Gaps)
    BY <1>0, <2>1, FS_Subset
  <2>4. Cardinality(Gaps') \in Nat
    BY <2>3, FS_CardinalityType
  <2> QED
    BY <1>0, <2>2, <2>3, <2>4
<1>4. ASSUME NEW a \in Node, Publish(a)
      PROVE  IsFiniteSet(Gaps') /\ Cardinality(Gaps') <= losses'
  <2> DEFINE h == Head(channel[a])
  <2>1. PICK reached \in SUBSET (Node \ {a}) :
          /\ losses' = losses + Cardinality((Node \ {a}) \ reached)
          /\ inflight' = [m \in Node |-> IF m \in reached THEN inflight[m] \cup {h}
                                         ELSE inflight[m]]
    BY <1>4 DEF Publish
  <2> DEFINE U == (Node \ {a}) \ reached
             lost == U \X {h}
  <2>2. /\ authored' = authored /\ channel[a] # << >>
        /\ \A c \in Node : c # a => ~Publish(c)
    <3>1. channel' = [channel EXCEPT ![a] = Tail(@)] /\ channel[a] # << >>
      BY <1>4 DEF Publish
    <3>2. channel'[a] # channel[a]
      <4>1. IsChain(channel[a]) /\ DOMAIN channel = Node
        BY DEF IInv, TypeOK
      <4>2. channel'[a] = Tail(channel[a])
        BY <3>1, <4>1
      <4> QED
        BY <3>1, <4>1, <4>2, TailDiffers
    <3>3. ASSUME NEW c \in Node, c # a, Publish(c) PROVE FALSE
      BY <3>2, <3>3 DEF Publish, IInv, TypeOK
    <3> QED
      BY <1>4, <3>1, <3>3 DEF Publish
  <2>3. Gaps' \subseteq Gaps \cup lost
    <3> SUFFICES ASSUME NEW p \in Gaps', p \notin Gaps PROVE p \in lost
      OBVIOUS
    <3>1. p[2].node_id = a
      <4>1. CASE p[2].node_id # a
        BY <1>1, <1>2, <2>2, <4>1, GapKept
      <4> QED  BY <4>1
    <3>2. p[2] = h /\ h \notin inflight'[p[1]]
      BY <1>1, <1>2, <1>4, <3>1, GapPublished
    <3>3. p[1] \in U
      BY <1>1, <2>1, <3>1, <3>2
    <3> QED
      BY <1>1, <3>2, <3>3
  <2>4. IsFiniteSet(U) /\ Cardinality(U) \in Nat
    BY NodeAssumption, FS_Subset, FS_CardinalityType
  <2> HIDE DEF U, h
  <2>5. IsFiniteSet(lost) /\ Cardinality(lost) = Cardinality(U)
    <3>1. IsFiniteSet({h}) /\ Cardinality({h}) = 1
      BY FS_Singleton
    <3>2. IsFiniteSet(lost) /\ Cardinality(lost) = Cardinality(U) * Cardinality({h})
      BY <2>4, <3>1, FS_Product
    <3> QED
      BY <2>4, <3>1, <3>2
  <2> HIDE DEF lost
  <2>6. /\ IsFiniteSet(Gaps \cup lost)
        /\ Cardinality(Gaps \cup lost)
             = Cardinality(Gaps) + Cardinality(lost) - Cardinality(Gaps \cap lost)
        /\ Cardinality(Gaps \cap lost) \in Nat
    BY <1>0, <2>5, FS_Union, FS_Intersection, FS_CardinalityType
  <2>7. IsFiniteSet(Gaps') /\ Cardinality(Gaps') <= Cardinality(Gaps \cup lost)
    BY <2>3, <2>6, FS_Subset
  <2>8. Cardinality(Gaps') \in Nat /\ Cardinality(Gaps \cup lost) \in Nat
    BY <2>6, <2>7, FS_CardinalityType
  <2>9. losses' = losses + Cardinality(U)
    BY <2>1 DEF U
  <2> QED
    BY <1>0, <2>4, <2>5, <2>6, <2>7, <2>8, <2>9
<1> QED
  BY <1>3, <1>4

LEMMA InitArriving == Init => Arriving
<1> SUFFICES ASSUME Init PROVE IsFiniteSet(Gaps) /\ Cardinality(Gaps) <= losses
  BY DEF Arriving
<1>1. Gaps = {}
  BY DEF Init, Gaps
<1> QED
  BY <1>1, FS_EmptySet DEF Init

\* When nothing is under way, what is missing at a node is a gap.
LEMMA MissingIsGap ==
  ASSUME IInv, LinkInv, Quiescent
  PROVE  Missing \subseteq Gaps
<1> SUFFICES ASSUME NEW p \in Missing PROVE p \in Gaps
  OBVIOUS
<1>1. PICK a \in Node : p[2] \in authored[a]
  BY DEF Missing
<1>2. /\ p[2].node_id = a /\ p[1] \in Node /\ p[2] \notin BlocksIn(lattice[p[1]][a])
      /\ p \in Node \X UNION {authored[c] : c \in Node}
  BY <1>1 DEF Missing, IInv, AuthoredInv
<1>3. Home(a) /\ inflight[p[1]] = {} /\ Waiting(a) = {} /\ BlocksIn(channel[a]) = {}
  BY <1>2, EmptyChain DEF Quiescent, LinkInv, Waiting
<1>4. p[1] # a
  BY <1>1, <1>2, <1>3 DEF Home, Chain
<1>5. p[2] \in Gap(p[1], a)
  BY <1>1, <1>2, <1>3 DEF Gap, Kept, Reached
<1> QED
  BY <1>2, <1>4, <1>5 DEF Gaps

\* Where nothing is under way any more and nobody was restarted, the blocks that
\* are missing anywhere are no more than the copies that were lost: nodes that lost
\* nothing hold the same blocks, for any number of nodes and rounds and whatever
\* the order of arrival (mesh.rs 143-213, chain.rs 89-99, main.rs 320-334).
THEOREM Agreement == Spec => []AgreeButForLosses
<1>1. IInv /\ LinkInv /\ Arriving => AgreeButForLosses
  <2> SUFFICES ASSUME IInv, LinkInv, Arriving, Quiescent
               PROVE  Cardinality(Missing) <= losses
    BY DEF AgreeButForLosses
  <2>1. IsFiniteSet(Gaps) /\ Cardinality(Gaps) <= losses
    BY DEF Arriving, Quiescent, NoRestarts
  <2>2. IsFiniteSet(Missing) /\ Cardinality(Missing) <= Cardinality(Gaps)
    BY <2>1, MissingIsGap, FS_Subset
  <2>3. Cardinality(Missing) \in Nat /\ Cardinality(Gaps) \in Nat /\ losses \in Nat
    BY <2>1, <2>2, FS_CardinalityType DEF IInv, TypeOK
  <2> QED
    BY <2>1, <2>2, <2>3
<1>2. IInv /\ LinkInv /\ Arriving /\ [Next]_vars => Arriving'
  BY ArrivingNext
<1> QED
  BY <1>1, <1>2, InitArriving, InductiveInvariant, LinkInvariant, PTL DEF Spec
================================================================================
