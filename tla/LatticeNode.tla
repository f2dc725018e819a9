------------------------------ MODULE LatticeNode ------------------------------
(***************************************************************************)
(* A network of SLAKSHNA-FL nodes.  Each node is one OS process with two   *)
(* tasks that share the lattice behind a RwLock: the epoch task of         *)
(* src/src/main.rs, one action per stretch between two awaits, and the     *)
(* event loop of src/src/network/mesh.rs, which drains the node's command  *)
(* channel into gossipsub and appends what gossipsub delivers.  The Python *)
(* ML engine is a call that returns an outcome.                            *)
(*                                                                         *)
(* A lock is not a variable: where the code holds the lattice lock over a  *)
(* loop (evaluating peers, appending the round's blocks), the loop is one  *)
(* action per iteration and LatticeLocked keeps the other task out.        *)
(*                                                                         *)
(* Time is counted in ticks: EpochDuration stands for the 600 s between    *)
(* two epoch boundaries, SyncWindow for the 45 s of the sync barrier.      *)
(***************************************************************************)
EXTENDS LatticeChain

CONSTANTS
  EpochDuration,  \* ticks between two epoch boundaries (600 s)
  SyncWindow,     \* ticks from a boundary to the L1 deadline (45 s)
  FullCount,      \* chains that end the sync barrier early (6)
  ChannelCap,     \* capacity of the command channel (100)
  MaxTime,        \* bound on the clock
  MaxRestarts,    \* bound on the restarts of all nodes together
  MaxLosses       \* bound on the copies of blocks the network drops

ASSUME TimeAssumption == /\ EpochDuration \in Nat \ {0}
                         /\ SyncWindow \in Nat \ {0}
                         /\ SyncWindow < EpochDuration
ASSUME SizeAssumption == /\ FullCount \in Nat
                         /\ ChannelCap \in Nat \ {0}
ASSUME BoundAssumption == /\ MaxTime \in Nat
                          /\ MaxRestarts \in Nat
                          /\ MaxLosses \in Nat

VARIABLES
  now,        \* the wall clock, the same at every node
  pc,         \* where each node's epoch task is
  epoch,      \* epoch_start (next_boundary) of the round in progress
  lattice,    \* lattice[n] is the lattice_chains of node n
  staged,     \* staged[n][p]: the delta in n's network_deltas/p_delta.b64
  weights,    \* ml_data.weights: what the engine says of whom
  batch,      \* my_proposal followed by evaluations
  unrated,    \* the engine's arguments, then the weights still to be visited
  pos,        \* next block of the batch to append or to broadcast
  channel,    \* the command channel to the event loop
  inflight,   \* inflight[n]: blocks gossipsub may still deliver to n
  authored,   \* history: every block n ever appended as its own
  restarts,   \* restarts[n]: how often n was restarted
  losses      \* copies dropped so far

local == <<pc, epoch, staged, weights, batch, unrated, pos>>
vars  == <<now, local, lattice, channel, inflight, authored, restarts, losses>>

\* Faulty variant: the boundary that t may already be.
NextBoundaryOrNow(t) == t + ((EpochDuration - (t % EpochDuration)) % EpochDuration)

\* Strictly after t, also when t is itself a boundary.
NextBoundary(t) == t + (EpochDuration - (t % EpochDuration))

Init ==
  /\ now = 0
  /\ pc       = [n \in Node |-> "wait"]
  /\ epoch    = [n \in Node |-> NextBoundary(0)]
  /\ lattice  = [n \in Node |-> EmptyLattice]
  /\ staged   = [n \in Node |-> [p \in Node |-> NoDelta]]
  /\ weights  = [n \in Node |-> << >>]
  /\ batch    = [n \in Node |-> << >>]
  /\ unrated  = [n \in Node |-> {}]
  /\ pos      = [n \in Node |-> 1]
  /\ channel  = [n \in Node |-> << >>]
  /\ inflight = [n \in Node |-> {}]
  /\ authored = [n \in Node |-> {}]
  /\ restarts = [n \in Node |-> 0]
  /\ losses = 0

-------------------------------------------------------------------------------
(* The epoch task. *)

Goto(n, from, to) == pc[n] = from /\ pc' = [pc EXCEPT ![n] = to]

\* A file is rewritten for every peer with a proposal and left as it is for
\* the others, so what an earlier round or an earlier process staged stays.
StageDeltas(n) ==
  /\ now >= epoch[n]
  /\ Goto(n, "wait", "args")
  /\ staged' = [staged EXCEPT ![n] = [p \in Node |->
       IF p # n /\ LatestProposal(lattice[n][p]) # {}
       THEN lattice[n][p][CHOOSE i \in LatestProposal(lattice[n][p]) : TRUE]
              .block_type.delta
       ELSE staged[n][p]]]
  /\ UNCHANGED <<now, epoch, lattice, weights, batch, unrated, pos,
                 channel, inflight, authored, restarts, losses>>

\* A second look at the lattice, under a lock of its own: these peers are the
\* arguments of the engine, with or without a staged file.
CollectArgs(n) ==
  /\ Goto(n, "args", "engine")
  /\ unrated' = [unrated EXCEPT ![n] = KnownAuthors(lattice[n]) \ {n}]
  /\ UNCHANGED <<now, epoch, lattice, staged, weights, batch, pos,
                 channel, inflight, authored, restarts, losses>>

\* Faulty variant: always a first block.
DraftUnlinked(n, delta) == Block(n, GenesisHash, Proposal(delta), epoch[n])

Draft(n, delta) == Block(n, TailHash(lattice[n][n]), Proposal(delta), epoch[n])

\* ml_engine.py ends well: it has weighed the node itself and every peer it was
\* started with.  Only now is the end of the own chain looked up.
TrainingSucceeds(n) ==
  /\ Goto(n, "engine", "rate")
  /\ \E d \in Delta : batch' = [batch EXCEPT ![n] = <<Seal(Draft(n, d))>>]
  /\ \E w \in [unrated[n] \cup {n} -> Score] : weights' = [weights EXCEPT ![n] = w]
  /\ unrated' = [unrated EXCEPT ![n] = @ \cup {n}]
  /\ UNCHANGED <<now, epoch, lattice, staged, pos,
                 channel, inflight, authored, restarts, losses>>

\* An exit code, an unreadable last line and a process that never started lead
\* to the same thing: a proposal that nobody seals, and no evaluation.
TrainingFails(n) ==
  /\ Goto(n, "engine", "commit")
  /\ batch' = [batch EXCEPT ![n] = <<Draft(n, NoDelta)>>]
  /\ unrated' = [unrated EXCEPT ![n] = {}]
  /\ UNCHANGED <<now, epoch, lattice, staged, weights, pos,
                 channel, inflight, authored, restarts, losses>>

\* Faulty variants: names the end of the target's chain, whatever that is; links
\* every evaluation to the proposal.
RatingOfTail(n, p, i) ==
  Seal(Block(n, TailHash(batch[n]),
             Evaluation(p, TailHash(lattice[n][p]), weights[n][p]), epoch[n]))
RatingBesideOthers(n, p, i) ==
  Seal(Block(n, batch[n][1].hash,
             Evaluation(p, lattice[n][p][i].hash, weights[n][p]), epoch[n]))

\* What n says of the i-th block of p, linked to the end of the round's batch.
Rating(n, p, i) ==
  Seal(Block(n, TailHash(batch[n]),
             Evaluation(p, lattice[n][p][i].hash, weights[n][p]), epoch[n]))

\* One iteration over ml_data.weights (a HashMap: any order), the read lock
\* held from the first ("rate" waits for it) to the last.  The proposal named
\* is the target's latest one now, after training; a target without one is
\* skipped.
EvaluatePeer(n) ==
  /\ pc[n] \in {"rate", "evaluate"}
  /\ \E p \in unrated[n] :
       /\ unrated' = [unrated EXCEPT ![n] = @ \ {p}]
       /\ \/ /\ LatestProposal(lattice[n][p]) = {}
             /\ UNCHANGED batch
          \/ \E i \in LatestProposal(lattice[n][p]) :
               batch' = [batch EXCEPT ![n] = Append(@, Rating(n, p, i))]
       /\ pc' = [pc EXCEPT ![n] = IF unrated[n] = {p} THEN "commit" ELSE "evaluate"]
  /\ UNCHANGED <<now, epoch, lattice, staged, weights, pos,
                 channel, inflight, authored, restarts, losses>>

\* Faulty variant: positions are counted from zero.
AdvanceFromZero(n, again, done) ==
  IF pos[n] = Len(batch[n])
  THEN pos' = [pos EXCEPT ![n] = 0] /\ pc' = [pc EXCEPT ![n] = done]
  ELSE pos' = [pos EXCEPT ![n] = @ + 1] /\ pc' = [pc EXCEPT ![n] = again]

\* The step that walks along the batch, and where it leads at the end of it.
Advance(n, again, done) ==
  IF pos[n] = Len(batch[n])
  THEN pos' = [pos EXCEPT ![n] = 1] /\ pc' = [pc EXCEPT ![n] = done]
  ELSE pos' = [pos EXCEPT ![n] = @ + 1] /\ pc' = [pc EXCEPT ![n] = again]

\* One add_lattice_block of the round, the write lock held from the first
\* ("commit" waits for it) to the last.
AppendOwn(n) ==
  LET b == batch[n][pos[n]]
  IN /\ pc[n] \in {"commit", "append"}
     /\ lattice' = [lattice EXCEPT ![n] = AddLatticeBlock(lattice[n], b)]
     /\ authored' = IF b.hash = CalculateHash(b)
                    THEN [authored EXCEPT ![n] = @ \cup {b}] ELSE authored
     /\ Advance(n, "append", "broadcast")
     /\ UNCHANGED <<now, epoch, staged, weights, batch, unrated,
                    channel, inflight, restarts, losses>>

\* Faulty variant: only the proposal is broadcast.
BroadcastProposal(n) ==
  /\ Goto(n, "broadcast", "barrier")
  /\ Len(channel[n]) < ChannelCap
  /\ channel' = [channel EXCEPT ![n] = Append(@, batch[n][1])]
  /\ UNCHANGED <<now, epoch, lattice, staged, weights, batch, unrated, pos,
                 inflight, authored, restarts, losses>>

\* broadcast_lattice_block waits for room in the channel.
Broadcast(n) ==
  /\ pc[n] = "broadcast"
  /\ Len(channel[n]) < ChannelCap
  /\ channel' = [channel EXCEPT ![n] = Append(@, batch[n][pos[n]])]
  /\ Advance(n, "broadcast", "barrier")
  /\ UNCHANGED <<now, epoch, lattice, staged, weights, batch, unrated,
                 inflight, authored, restarts, losses>>

\* The barrier ends when FullCount chains exist or at the deadline; on the
\* early way out the code says that all submissions were collected.
LeaveBarrierEarly(n) ==
  /\ Cardinality(KnownAuthors(lattice[n])) >= FullCount
  /\ Goto(n, "barrier", "collected")
  /\ UNCHANGED <<now, epoch, lattice, staged, weights, batch, unrated, pos,
                 channel, inflight, authored, restarts, losses>>

\* Faulty variant: the barrier has no deadline.
LeaveBarrierFullOnly(n) ==
  /\ Cardinality(KnownAuthors(lattice[n])) >= FullCount
  /\ now >= epoch[n] + SyncWindow
  /\ Goto(n, "barrier", "elect")
  /\ UNCHANGED <<now, epoch, lattice, staged, weights, batch, unrated, pos,
                 channel, inflight, authored, restarts, losses>>

LeaveBarrierLate(n) ==
  /\ Cardinality(KnownAuthors(lattice[n])) < FullCount
  /\ now >= epoch[n] + SyncWindow
  /\ Goto(n, "barrier", "elect")
  /\ UNCHANGED <<now, epoch, lattice, staged, weights, batch, unrated, pos,
                 channel, inflight, authored, restarts, losses>>

SleepToDeadline(n) ==
  /\ now >= epoch[n] + SyncWindow
  /\ Goto(n, "collected", "elect")
  /\ UNCHANGED <<now, epoch, lattice, staged, weights, batch, unrated, pos,
                 channel, inflight, authored, restarts, losses>>

\* The committee is computed from the lattice as it is at this moment and only
\* logged; what nodes with the same blocks may elect is CommitteeElection's
\* subject.  The loop goes straight on to read the clock for the next boundary.
Elect(n) ==
  /\ Goto(n, "elect", "wait")
  /\ epoch'   = [epoch EXCEPT ![n] = NextBoundary(now)]
  /\ batch'   = [batch EXCEPT ![n] = << >>]
  /\ weights' = [weights EXCEPT ![n] = << >>]
  /\ UNCHANGED <<now, lattice, staged, unrated, pos,
                 channel, inflight, authored, restarts, losses>>

-------------------------------------------------------------------------------
(* The event loop. *)

LatticeLocked(n) == pc[n] \in {"evaluate", "append"}

\* gossipsub.publish: the copies of the nodes that are not reached, all of them
\* when publish itself fails (an error the code only logs), are lost.
Publish(n) ==
  /\ channel[n] # << >>
  /\ channel' = [channel EXCEPT ![n] = Tail(@)]
  /\ \E reached \in SUBSET (Node \ {n}) :
       /\ losses' = losses + Cardinality((Node \ {n}) \ reached)
       /\ losses' <= MaxLosses
       /\ inflight' = [m \in Node |-> IF m \in reached
                                      THEN inflight[m] \cup {Head(channel[n])}
                                      ELSE inflight[m]]
  /\ UNCHANGED <<now, local, lattice, authored, restarts>>

\* Deliveries overtake each other; gossipsub's cache of message identifiers
\* makes them happen at most once.
Receive(n) ==
  /\ ~LatticeLocked(n)
  /\ \E b \in inflight[n] :
       /\ inflight' = [inflight EXCEPT ![n] = @ \ {b}]
       /\ lattice' = [lattice EXCEPT ![n] = AddLatticeBlock(lattice[n], b)]
  /\ UNCHANGED <<now, local, channel, authored, restarts, losses>>

-------------------------------------------------------------------------------
(* The environment. *)

\* The process dies anywhere and starts again.  The address is in RocksDB and
\* the staged files are on disk; the lattice is in memory only.  Under its new
\* libp2p identity the node may be sent any block that is still travelling,
\* blocks of its own included.
Restart(n) ==
  /\ MapThenSumSet(LAMBDA m : restarts[m], Node) < MaxRestarts
  /\ restarts' = [restarts EXCEPT ![n] = @ + 1]
  /\ pc'       = [pc EXCEPT ![n] = "wait"]
  /\ epoch'    = [epoch EXCEPT ![n] = NextBoundary(now)]
  /\ lattice'  = [lattice EXCEPT ![n] = EmptyLattice]
  /\ weights'  = [weights EXCEPT ![n] = << >>]
  /\ batch'    = [batch EXCEPT ![n] = << >>]
  /\ unrated'  = [unrated EXCEPT ![n] = {}]
  /\ pos'      = [pos EXCEPT ![n] = 1]
  /\ channel'  = [channel EXCEPT ![n] = << >>]
  /\ \E replayed \in SUBSET UNION {inflight[m] : m \in Node} :
       inflight' = [inflight EXCEPT ![n] = replayed]
  /\ UNCHANGED <<now, staged, authored, losses>>

Tick ==
  /\ now < MaxTime
  /\ now' = now + 1
  /\ UNCHANGED <<local, lattice, channel, inflight, authored, restarts, losses>>

-------------------------------------------------------------------------------
EpochTask(n) ==
  \/ StageDeltas(n) \/ CollectArgs(n) \/ TrainingSucceeds(n) \/ TrainingFails(n)
  \/ EvaluatePeer(n) \/ AppendOwn(n) \/ Broadcast(n) \/ LeaveBarrierEarly(n)
  \/ LeaveBarrierLate(n) \/ SleepToDeadline(n) \/ Elect(n)

EventLoop(n) == Publish(n) \/ Receive(n)

Next == \/ Tick
        \/ \E n \in Node : EpochTask(n) \/ EventLoop(n) \/ Restart(n)

Spec == Init /\ [][Next]_vars

\* What the runs of Propagation and RoundsEnd take for granted: a training run
\* ends (the code waits for it without a timeout), tasks are scheduled, and a
\* block that is in flight and not lost arrives.
Fairness == /\ WF_vars(Tick)
            /\ \A n \in Node : /\ WF_vars(EpochTask(n))
                               /\ WF_vars(Publish(n))
                               /\ WF_vars(Receive(n))

-------------------------------------------------------------------------------
(* Types. *)

States == {"wait", "args", "engine", "rate", "evaluate", "commit", "append",
           "broadcast", "barrier", "collected", "elect"}

IsBlock(b) ==
  /\ DOMAIN b = {"node_id", "prev_hash", "block_type", "signature", "hash"}
  /\ b.node_id \in Node
  /\ b.signature \in Nat
  /\ \/ b.block_type \in [kind : {"proposal"}, delta : Delta \cup {NoDelta}]
     \/ /\ IsEvaluation(b)
        /\ DOMAIN b.block_type = {"kind", "target", "proposal_hash", "trust_score"}
        /\ b.block_type.target \in Node
        /\ b.block_type.trust_score \in Score

BlocksIn(chain) == {chain[i] : i \in DOMAIN chain}

IsChain(s) == s \in Seq(BlocksIn(s)) /\ \A b \in BlocksIn(s) : IsBlock(b)

\* Every variable has the type its declaration gives it (main.rs, mesh.rs).
TypeOK ==
  /\ now \in Nat
  /\ pc \in [Node -> States]
  /\ epoch \in [Node -> Nat]
  /\ DOMAIN lattice = Node
  /\ \A n \in Node : DOMAIN lattice[n] = Node /\ \A a \in Node : IsChain(lattice[n][a])
  /\ staged \in [Node -> [Node -> Delta \cup {NoDelta}]]
  /\ DOMAIN weights = Node
  /\ \A n \in Node : weights[n] \in [DOMAIN weights[n] -> Score]
  /\ DOMAIN batch = Node /\ \A n \in Node : IsChain(batch[n])
  /\ unrated \in [Node -> SUBSET Node]
  /\ pos \in [Node -> Nat \ {0}]
  /\ DOMAIN channel = Node /\ \A n \in Node : IsChain(channel[n])
  /\ DOMAIN inflight = Node /\ \A n \in Node : \A b \in inflight[n] : IsBlock(b)
  /\ DOMAIN authored = Node /\ \A n \in Node : \A b \in authored[n] : IsBlock(b)
  /\ restarts \in [Node -> Nat]
  /\ losses \in Nat

-------------------------------------------------------------------------------
(* Safety. *)

\* A block that any node holds under an author's name was appended by that
\* author to its own chain first: nothing is broadcast before it is recorded,
\* and the unsealed proposal of a failed round, which is broadcast all the same,
\* is recorded by nobody (chain.rs add_lattice_block, main.rs 320-334).
Authentic == \A n, a \in Node : BlocksIn(lattice[n][a]) \subseteq authored[a]

\* A node proposes at most once for an epoch, also when it is restarted in the
\* middle of a round or exactly on a boundary (main.rs 126-133).
OneProposalPerEpoch ==
  \A n \in Node : \A p, q \in authored[n] :
    IsProposal(p) /\ IsProposal(q) /\ p.signature = q.signature => p = q

\* The proposal an evaluation names was really made by its target, although
\* target and proposal are looked up long after the round began and the
\* evaluation itself is recorded later still (main.rs 265-304).
EvaluationsGrounded ==
  \A n \in Node : \A b \in authored[n] : IsEvaluation(b) =>
    \E p \in authored[b.block_type.target] :
      IsProposal(p) /\ p.hash = b.block_type.proposal_hash

\* Unless it was restarted, a node's own chain is linked by hashes from its
\* first block on, although its end is read long before the new blocks are
\* appended and the lock is free in between (main.rs 205-216, 320-326).
OwnChainLinked ==
  \A n \in Node : restarts[n] = 0 =>
    \A i \in DOMAIN lattice[n][n] :
      lattice[n][n][i].prev_hash = TailHash(SubSeq(lattice[n][n], 1, i - 1))

\* No node ever holds two blocks of an author in the same place of its chain,
\* in whatever order they arrived, unless the author was restarted.
NoForkWithoutRestart ==
  \A n, a \in Node : restarts[a] = 0 =>
    \A i, j \in DOMAIN lattice[n][a] :
      lattice[n][a][i].prev_hash = lattice[n][a][j].prev_hash => i = j

\* Nobody was restarted, and nothing is under way.
Quiescent ==
  \A n \in Node : /\ restarts[n] = 0
                  /\ pc[n] \notin {"append", "broadcast"}
                  /\ channel[n] = << >>
                  /\ inflight[n] = {}

\* What a node does not hold of what was recorded, as (node, block) pairs.
Missing == {p \in Node \X UNION {authored[a] : a \in Node} :
              p[2] \notin BlocksIn(lattice[p[1]][p[2].node_id])}

\* A copy that is lost costs its node that one block and nothing after it: when
\* nothing is under way, no more blocks are missing at all nodes together than
\* copies were lost, and without losses all hold the same, whatever the order of
\* arrival and whoever failed to train (mesh.rs 143-153, chain.rs 89-99).
AgreeButForLosses == Quiescent => Cardinality(Missing) <= losses

\* All nodes together promise what ReplicatedLattice promises: blocks become
\* known one at a time and in any order, only after their author recorded them,
\* and a restart forgets (main.rs, mesh.rs, chain.rs).
View == [n \in Node |-> UNION {BlocksIn(lattice[n][a]) : a \in Node}]

Abstract == INSTANCE ReplicatedLattice WITH issued <- authored, view <- View

Refinement == Abstract!Spec

-------------------------------------------------------------------------------
(* The inductive invariant behind Authentic, OneProposalPerEpoch,          *)
(* EvaluationsGrounded and Refinement: what is true of a block on each     *)
(* leg of its way from the batch to a lattice.                             *)

Sealed(b) == b.hash = CalculateHash(b)

Grounded(b) == IsEvaluation(b) =>
  \E p \in authored[b.block_type.target] :
    IsProposal(p) /\ p.hash = b.block_type.proposal_hash

\* What an author has recorded is its own, sealed, grounded, and not of the future.
AuthoredInv ==
  \A n \in Node : \A b \in authored[n] :
    b.node_id = n /\ Sealed(b) /\ Grounded(b) /\ b.signature <= now

\* What is under way is unsealed, and will be dropped, or recorded by its author.
TransitInv ==
  /\ \A n \in Node : \A b \in BlocksIn(channel[n]) :
       Sealed(b) => b \in authored[b.node_id]
  /\ \A n \in Node : \A b \in inflight[n] :
       Sealed(b) => b \in authored[b.node_id]

\* A batch is one proposal and then evaluations, all of the round's epoch.
BatchOk(n) ==
  /\ \A i \in DOMAIN batch[n] :
       /\ batch[n][i].node_id = n
       /\ batch[n][i].signature = epoch[n]
       /\ IsProposal(batch[n][i]) <=> i = 1
       /\ Grounded(batch[n][i])
  /\ pc[n] \in {"wait", "args", "engine"} => batch[n] = << >>
  /\ pc[n] \in {"rate", "evaluate", "commit", "append", "broadcast"} =>
       batch[n] # << >>
  /\ pc[n] \in {"rate", "evaluate"} => unrated[n] \subseteq DOMAIN weights[n]

BatchInv == \A n \in Node : BatchOk(n)

\* How far a batch has been recorded, and when the epoch has its proposal.
RoundOk(n) ==
  /\ pc[n] # "wait" => epoch[n] <= now
  /\ pc[n] \in {"wait", "args", "engine", "rate", "evaluate", "commit"} =>
       \A b \in authored[n] : IsProposal(b) => b.signature # epoch[n]
  /\ pc[n] \in {"append", "broadcast"} => pos[n] <= Len(batch[n])
  /\ pc[n] \notin {"append", "broadcast"} => pos[n] = 1
  /\ pc[n] = "append" => pos[n] > 1
  /\ pc[n] = "append" => \A i \in 1..(pos[n] - 1) :
       Sealed(batch[n][i]) => batch[n][i] \in authored[n]
  /\ pc[n] = "broadcast" => \A i \in DOMAIN batch[n] :
       Sealed(batch[n][i]) => batch[n][i] \in authored[n]

RoundInv == \A n \in Node : RoundOk(n)

IInv == TypeOK /\ Authentic /\ OneProposalPerEpoch /\ AuthoredInv
        /\ TransitInv /\ BatchInv /\ RoundInv

-------------------------------------------------------------------------------
(* Liveness, under Fairness. *)

\* If nothing is lost and nobody restarts, the nodes come to hold all blocks
\* anyone ever recorded (and stay there: no more epochs before MaxTime).
Propagation ==
  <>[](\A n, a \in Node : BlocksIn(lattice[n][a]) = authored[a])

\* A round that was started reaches the election if the clock gets that far.
RoundsEnd ==
  \A n \in Node :
    (pc[n] = "args" /\ epoch[n] + SyncWindow <= MaxTime) ~> pc[n] = "elect"
================================================================================
