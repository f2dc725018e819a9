------------------------------ MODULE TrainLoop ------------------------------
(***************************************************************************)
(* The training loop of Bhaskera (trainer/loop.py) as run by all ranks of  *)
(* a job: epochs of accumulation windows, the all-reduce of gradients,     *)
(* optimizer steps, and the barrier and the save after an epoch.           *)
(*                                                                         *)
(* A gradient is the set of micro-batches it was computed from, and the    *)
(* weights are the sequence of gradients the optimizer has applied.  Ray   *)
(* Train splits the dataset into shards of equal length, so all ranks have *)
(* config.batches batches per epoch; what is in them is their own.         *)
(***************************************************************************)
EXTENDS Naturals, Sequences, FiniteSets

CONSTANTS Ranks,      \* the workers of the job
          Configs     \* configurations, see Config

(* A configuration: training.* and checkpoint.* of config.yaml, the batches *)
(* in a shard, and whether this PyTorch has the FSDP2 helper.               *)
Config == [strategy : {"fsdp", "ddp"}, helper : BOOLEAN, static : BOOLEAN,
           unused : BOOLEAN, moe : BOOLEAN, accum : Nat \ {0}, epochs : Nat,
           maxSteps : Nat, batches : Nat, saves : BOOLEAN, interval : Nat \ {0}]

ASSUME RanksAssumption == Ranks # {}
ASSUME ConfigsAssumption == Configs \subseteq Config

VARIABLES config,     \* the configuration
          bad,        \* micro-batches whose gradient is not finite
          pc,         \* where a rank is
          epoch, step, epochSteps, micro, taken,  \* locals of _run_epoch
          sync,       \* does backward() all-reduce (require_backward_grad_sync)
          grad,       \* p.grad of the parameters
          weights,    \* the parameters
          saved       \* what save_and_prune was called with
loopVars == <<config, bad, pc, epoch, step, epochSteps, micro, taken, sync, grad,
          weights, saved>>
counters == <<epoch, step, epochSteps, micro, taken>>

MicroBatch == [rank : Ranks, epoch : Nat, index : Nat]
-----------------------------------------------------------------------------
(* wrap_model and wrap_ddp: static_graph survives only where no parameter   *)
(* may be unused, and mixtures of experts always have unused ones.          *)
StaticGraph(c) == c.static /\ ~(c.unused \/ c.moe)

(* _set_grad_sync reaches FSDP2 modules through a helper that may be        *)
(* missing, DDP through an attribute unless the graph is static.            *)
Toggles(c) == IF c.strategy = "fsdp" THEN c.helper ELSE ~StaticGraph(c)

SetGradSync(r, enabled) ==
    sync' = IF Toggles(config) THEN [sync EXCEPT ![r] = enabled] ELSE sync

Goto(r, there) == pc' = [pc EXCEPT ![r] = there]
-----------------------------------------------------------------------------
LoopInit ==
    /\ config \in Configs
    /\ \E b \in SUBSET [rank : Ranks, epoch : 0 .. config.epochs - 1,
                        index : 1 .. config.batches] :
          Cardinality(b) <= 1 /\ bad = b
    /\ pc = [r \in Ranks |-> IF config.epochs = 0 THEN "done" ELSE "epoch"]
    /\ epoch = [r \in Ranks |-> 0]
    /\ step = [r \in Ranks |-> 0]
    /\ epochSteps = [r \in Ranks |-> 0]
    /\ micro = [r \in Ranks |-> 0]
    /\ taken = [r \in Ranks |-> 0]
    /\ sync = [r \in Ranks |-> TRUE]
    /\ grad = [r \in Ranks |-> {}]
    /\ weights = [r \in Ranks |-> <<>>]
    /\ saved = [r \in Ranks |-> <<>>]

(* Faulty variant: what the last epoch left in the gradient stays there.    *)
StartEpochDirty(r) ==
    /\ pc[r] = "epoch"
    /\ taken' = [taken EXCEPT ![r] = 0]
    /\ epochSteps' = [epochSteps EXCEPT ![r] = 0]
    /\ Goto(r, "window")
    /\ UNCHANGED <<config, bad, epoch, step, micro, sync, grad, weights, saved>>

(* A new iterator over the shard and a clean gradient. *)
StartEpoch(r) ==
    /\ pc[r] = "epoch"
    /\ taken' = [taken EXCEPT ![r] = 0]
    /\ epochSteps' = [epochSteps EXCEPT ![r] = 0]
    /\ grad' = [grad EXCEPT ![r] = {}]
    /\ Goto(r, "window")
    /\ UNCHANGED <<config, bad, epoch, step, micro, sync, weights, saved>>

(* while step < max_steps *)
BeginWindow(r) ==
    /\ pc[r] = "window"
    /\ micro' = [micro EXCEPT ![r] = 0]
    /\ Goto(r, IF step[r] < config.maxSteps THEN "micro" ELSE "epochEnd")
    /\ UNCHANGED <<config, bad, epoch, step, epochSteps, taken, sync, grad,
                   weights, saved>>

NextBatch(r) ==
    /\ pc[r] = "micro"
    /\ taken[r] < config.batches
    /\ taken' = [taken EXCEPT ![r] = @ + 1]
    /\ SetGradSync(r, micro[r] = config.accum - 1)
    /\ Goto(r, "backward")
    /\ UNCHANGED <<config, bad, epoch, step, epochSteps, micro, grad, weights,
                   saved>>

(* StopIteration: the window begun is dropped and the epoch ends, with the  *)
(* synchronisation left as the last micro-step has set it.                  *)
RunsOut(r) ==
    /\ pc[r] = "micro"
    /\ taken[r] = config.batches
    /\ Goto(r, "epochEnd")
    /\ UNCHANGED <<config, bad, counters, sync, grad, weights, saved>>

Own(r) == [rank |-> r, epoch |-> epoch[r], index |-> taken[r]]
AfterBackward(r) == IF micro[r] + 1 = config.accum THEN "optimizer" ELSE "micro"

(* backward() while gradients are only accumulated. *)
Backward(r) ==
    /\ pc[r] = "backward"
    /\ ~sync[r]
    /\ grad' = [grad EXCEPT ![r] = @ \cup {Own(r)}]
    /\ micro' = [micro EXCEPT ![r] = @ + 1]
    /\ Goto(r, AfterBackward(r))
    /\ UNCHANGED <<config, bad, epoch, step, epochSteps, taken, sync, weights,
                   saved>>

(* backward() with the all-reduce, in which every rank waits for the        *)
(* others: all end up with the gradient of all.                             *)
AllReduce ==
    /\ \A r \in Ranks : pc[r] = "backward" /\ sync[r]
    /\ LET all == UNION {grad[r] \cup {Own(r)} : r \in Ranks}
       IN  grad' = [r \in Ranks |-> all]
    /\ micro' = [r \in Ranks |-> micro[r] + 1]
    /\ pc' = [r \in Ranks |-> AfterBackward(r)]
    /\ UNCHANGED <<config, bad, epoch, step, epochSteps, taken, sync, weights,
                   saved>>

(* Faulty variant: a rank looks at the gradient of its own batches.         *)
FiniteOwn(r) == {b \in grad[r] : b.rank = r} \cap bad = {}

Finite(r) == grad[r] \cap bad = {}

(* The gradient is applied and cleared. *)
OptimizerStep(r) ==
    /\ pc[r] = "optimizer"
    /\ Finite(r)
    /\ SetGradSync(r, TRUE)
    /\ weights' = [weights EXCEPT ![r] = Append(@, grad[r])]
    /\ grad' = [grad EXCEPT ![r] = {}]
    /\ step' = [step EXCEPT ![r] = @ + 1]
    /\ epochSteps' = [epochSteps EXCEPT ![r] = @ + 1]
    /\ Goto(r, "window")
    /\ UNCHANGED <<config, bad, epoch, micro, taken, saved>>

(* A gradient that is not finite is cleared; the window does not count.     *)
SkipStep(r) ==
    /\ pc[r] = "optimizer"
    /\ ~Finite(r)
    /\ SetGradSync(r, TRUE)
    /\ grad' = [grad EXCEPT ![r] = {}]
    /\ Goto(r, "window")
    /\ UNCHANGED <<config, bad, counters, weights, saved>>

(* Back in train(): the next epoch, or the end.                             *)
Continues(r) == step[r] < config.maxSteps /\ epoch[r] + 1 < config.epochs
NextEpoch(S) ==
    /\ epoch' = [r \in Ranks |-> IF r \in S /\ Continues(r) THEN epoch[r] + 1
                                                            ELSE epoch[r]]
    /\ pc' = [r \in Ranks |-> CASE r \notin S -> pc[r]
                                [] r \in S /\ Continues(r) -> "epoch"
                                [] OTHER -> "done"]

(* An epoch without a single step returns before the barrier.               *)
EmptyEpoch(r) ==
    /\ pc[r] = "epochEnd"
    /\ epochSteps[r] = 0
    /\ NextEpoch({r})
    /\ UNCHANGED <<config, bad, step, epochSteps, micro, taken, sync, grad,
                   weights, saved>>

(* Faulty variant: an epoch without a step is saved too.                    *)
EndEpochAlways(r) ==
    /\ pc[r] = "epochEnd"
    /\ Goto(r, "barrier")
    /\ UNCHANGED <<config, bad, counters, sync, grad, weights, saved>>

EndEpoch(r) ==
    /\ pc[r] = "epochEnd"
    /\ epochSteps[r] > 0
    /\ Goto(r, "barrier")
    /\ UNCHANGED <<config, bad, counters, sync, grad, weights, saved>>

SaveDue(r) == config.saves /\ (epoch[r] + 1) % config.interval = 0

(* dist.barrier(): every rank goes when the last one has come, and into     *)
(* save_and_prune if it is due (the module Checkpoint), which has barriers  *)
(* of its own.                                                              *)
Barrier ==
    /\ \A r \in Ranks : pc[r] = "barrier"
    /\ pc' = [r \in Ranks |-> IF SaveDue(r) THEN "save" ELSE "next"]
    /\ UNCHANGED <<config, bad, counters, sync, grad, weights, saved>>

Save ==
    /\ \A r \in Ranks : pc[r] = "save"
    /\ saved' = [r \in Ranks |->
                   Append(saved[r], [step |-> step[r], weights |-> weights[r]])]
    /\ pc' = [r \in Ranks |-> "next"]
    /\ UNCHANGED <<config, bad, counters, sync, grad, weights>>

Return(r) ==
    /\ pc[r] = "next"
    /\ NextEpoch({r})
    /\ UNCHANGED <<config, bad, step, epochSteps, micro, taken, sync, grad,
                   weights, saved>>

RankStep(r) ==
    \/ StartEpoch(r) \/ BeginWindow(r) \/ NextBatch(r) \/ RunsOut(r)
    \/ Backward(r) \/ OptimizerStep(r) \/ SkipStep(r)
    \/ EmptyEpoch(r) \/ EndEpoch(r) \/ Return(r)
LoopDone == (\A r \in Ranks : pc[r] = "done") /\ UNCHANGED loopVars
LoopNext == (\E r \in Ranks : RankStep(r)) \/ AllReduce \/ Barrier \/ Save \/ LoopDone

LoopSpec == LoopInit /\ [][LoopNext]_loopVars
(* Ranks are processes of their own; a collective that all have called ends. *)
LoopFairness == (\A r \in Ranks : WF_loopVars(RankStep(r)))
            /\ WF_loopVars(AllReduce) /\ WF_loopVars(Barrier) /\ WF_loopVars(Save)
FairLoop == LoopSpec /\ LoopFairness
-----------------------------------------------------------------------------
(* Every variable keeps its type: the locals of _run_epoch, the gradients   *)
(* and the checkpoints handed to save_and_prune.                            *)
LoopTypeOK ==
    /\ config \in Configs
    /\ bad \subseteq MicroBatch
    /\ pc \in [Ranks -> {"epoch", "window", "micro", "backward", "optimizer",
                         "epochEnd", "barrier", "save", "next", "done"}]
    /\ epoch \in [Ranks -> Nat]
    /\ step \in [Ranks -> Nat]
    /\ epochSteps \in [Ranks -> Nat]
    /\ micro \in [Ranks -> Nat]
    /\ taken \in [Ranks -> Nat]
    /\ sync \in [Ranks -> BOOLEAN]
    /\ grad \in [Ranks -> SUBSET MicroBatch]
    /\ weights \in [Ranks -> Seq(SUBSET MicroBatch)]
    /\ saved \in [Ranks -> Seq([step : Nat, weights : Seq(SUBSET MicroBatch)])]

(* The collectives have no names: if two ranks wait in collectives, they    *)
(* wait in the same one, with the same number of optimizer steps behind     *)
(* them.  (_run_epoch: breaks out of windows, skipped steps and the early   *)
(* return of an epoch without steps all happen on all ranks or on none.)    *)
Collective(r) == CASE pc[r] = "backward" /\ sync[r] -> <<"reduce", epoch[r], taken[r]>>
                   [] pc[r] \in {"barrier", "save"} -> <<pc[r], epoch[r], 0>>
                   [] pc[r] = "done" -> <<"done", 0, 0>>
                   [] OTHER -> <<>>
SameCollective ==
    \A r, s \in Ranks : Collective(r) # <<>> /\ Collective(s) # <<>> =>
        Collective(r) = Collective(s) /\ step[r] = step[s]

(* What the optimizer applies is one whole window: config.accum consecutive *)
(* micro-batches of one epoch, of every rank.  Nothing of a window that was *)
(* dropped or skipped gets into a later one.                                *)
WindowOf(e, first) == {[rank |-> r, epoch |-> e, index |-> i] :
                         r \in Ranks, i \in first + 1 .. first + config.accum}
WholeWindows ==
    \A r \in Ranks : \A i \in 1 .. Len(weights[r]) :
        \E e \in 0 .. epoch[r], k \in 0 .. config.batches :
            weights[r][i] = WindowOf(e, k * config.accum)

(* A checkpoint is named after its step: no two saves of a run have the     *)
(* same step, and all ranks hand over the same step and weights.            *)
SavesAdvance ==
    /\ \A r, s \in Ranks : saved[r] = saved[s]
    /\ \A r \in Ranks : \A i \in 1 .. Len(saved[r]) - 1 :
           saved[r][i].step < saved[r][i + 1].step
=============================================================================
