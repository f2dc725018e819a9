------------------------------- MODULE Checkpoint -------------------------------
(***************************************************************************)
(* Checkpointing in Bhaskera, from the epoch loop of trainer/loop.py       *)
(* through trainer/checkpointing.py to distributed/checkpoint.py.  The     *)
(* ranks are processes that meet in dist.barrier() and share a directory   *)
(* of checkpoints; Ray Train restarts all of them together when one fails. *)
(*                                                                         *)
(* A directory is the set of its files, "." standing for the directory     *)
(* itself.  A file carries the run that wrote it.  DCP's own collectives   *)
(* are left out, which only adds interleavings: each rank writes its model *)
(* shard and its optimizer shard.  Training is one step per saved epoch.   *)
(***************************************************************************)
EXTENDS Naturals, FiniteSets, FiniteSetsExt

CONSTANTS
  Rank,         \* the training processes
  Root,         \* rank 0
  PruneKeep,    \* keep_last_n of save_checkpoint: its default of 3, never passed
  KeepLastN,    \* checkpoint.keep_last_n of the configuration
  Loss,         \* average losses of an epoch
  MaxStep,      \* steps of a whole training run
  MaxRestarts   \* max_failures of the trainer, and restarts by hand

ASSUME RankAssumption == IsFiniteSet(Rank) /\ Root \in Rank
ASSUME KeepAssumption == PruneKeep \in Nat \ {0} /\ KeepLastN \in Nat \ {0}
ASSUME LossAssumption == Loss \subseteq Nat
ASSUME CheckpointBounds == MaxStep \in Nat /\ MaxRestarts \in Nat

VARIABLES
  pc,       \* where each rank is
  step,     \* the step counter of each rank
  tmp,      \* tmp[s]: what is in step_<s>.tmp
  final,    \* final[s]: what is in step_<s>
  victims,  \* the checkpoints rank 0 is about to remove
  best,     \* best_ckpts of rank 0
  run       \* how often the job was restarted

ranks == <<pc, step>>
disk  == <<tmp, final>>
vars  == <<ranks, disk, victims, best, run>>

Steps   == 1..MaxStep
Part    == {"model", "optim"}
Kind    == Part \cup {"meta", "complete"}
File(k, r) == <<k, r, run>>
Dot     == <<".", Root, 0>>  \* the directory

Complete(dir) == \E f \in dir : f[1] = "complete"
Completed     == {s \in Steps : Complete(final[s])}

\* A meta.json, and from one and the same run the shards of all ranks.
Whole(dir) ==
  /\ \E f \in dir : f[1] = "meta"
  /\ \E v \in 0..run : \A r \in Rank, k \in Part : <<k, r, v>> \in dir

-------------------------------------------------------------------------------
(* Where a run starts.  A directory is named by its step, SaveDir by 0. *)

SaveDir == 0

\* The step_<N> directories with a sentinel inside d.  Inside a checkpoint
\* there are model, optim, meta.json and .complete, and no step_<N>.
CandidatesIn(d) == IF d = SaveDir THEN Completed ELSE {}

LoadCheckpoint(d) == IF CandidatesIn(d) = {} THEN 0 ELSE Max(CandidatesIn(d))

\* Faulty variant: goes on after the step that was saved.
MaybeResumeAfter ==
  IF Completed = {} THEN 0 ELSE Max(Completed) + 1

\* The trainer looks for the latest directory itself, by a pattern that fits
\* step_<N>.tmp too, and passes that directory on.
MaybeResume ==
  LET found == {s \in Steps : final[s] # {} \/ tmp[s] # {}}
  IN  IF found = {} THEN 0 ELSE LoadCheckpoint(Max(found))

Init ==
  /\ pc    = [r \in Rank |-> "train"]
  /\ step  = [r \in Rank |-> 0]
  /\ tmp   = [s \in Steps |-> {}]
  /\ final = [s \in Steps |-> {}]
  /\ victims = {}
  /\ best = {}
  /\ run = 0

-------------------------------------------------------------------------------
(* All ranks. *)

Goto(r, from, to) == pc[r] = from /\ pc' = [pc EXCEPT ![r] = to]

\* An epoch with at least one optimizer step.
TrainEpoch(r) ==
  /\ step[r] < MaxStep
  /\ Goto(r, "train", "enter")
  /\ step' = [step EXCEPT ![r] = @ + 1]
  /\ UNCHANGED <<disk, victims, best, run>>

\* The barriers carry no names: the ranks go on when all of them wait.
Barriers == {"enter", "open", "written", "release"}

After(r) == CASE pc[r] = "enter"   -> "seek"
              [] pc[r] = "open"    -> "model"
              [] pc[r] = "written" -> IF r = Root THEN "replace" ELSE "release"
              [] pc[r] = "release" -> IF r = Root THEN "rank" ELSE "train"

Barrier ==
  /\ \A r \in Rank : pc[r] \in Barriers
  /\ pc' = [r \in Rank |-> After(r)]
  /\ UNCHANGED <<step, disk, victims, best, run>>

Sought(r) == IF r = Root THEN "mkdir" ELSE "open"

\* save_and_prune passes no rank, so every rank takes itself for rank 0 here,
\* and a directory is left over or was made by rank 0 a moment ago.
Seek(r) ==
  /\ Goto(r, "seek", IF tmp[step[r]] # {} THEN "sweep" ELSE Sought(r))
  /\ UNCHANGED <<step, disk, victims, best, run>>

Sweep(r) ==
  /\ Goto(r, "sweep", Sought(r))
  /\ tmp[step[r]] # {}
  /\ tmp' = [tmp EXCEPT ![step[r]] = {}]
  /\ UNCHANGED <<step, final, victims, best, run>>

\* rmtree raises FileNotFoundError: another rank was faster.
SweepFails(r) ==
  /\ Goto(r, "sweep", "failed")
  /\ tmp[step[r]] = {}
  /\ UNCHANGED <<step, disk, victims, best, run>>

\* Faulty variant: rank 0 does not wait for the shards of the others.
WriteShardEagerly(r, k, next) ==
  /\ Goto(r, k, IF r = Root /\ k = "optim" THEN "replace" ELSE next)
  /\ tmp' = [tmp EXCEPT ![step[r]] =
               {f \in @ : <<f[1], f[2]>> # <<k, r>>} \cup {Dot, File(k, r)}]
  /\ UNCHANGED <<step, final, victims, best, run>>

\* The shard replaces one that is there; the directory is made if it is not.
WriteShard(r, k, next) ==
  /\ Goto(r, k, next)
  /\ tmp' = [tmp EXCEPT ![step[r]] =
               {f \in @ : <<f[1], f[2]>> # <<k, r>>} \cup {Dot, File(k, r)}]
  /\ UNCHANGED <<step, final, victims, best, run>>

-------------------------------------------------------------------------------
(* Rank 0. *)

MakeTmp ==
  /\ Goto(Root, "mkdir", "open")
  /\ tmp' = [tmp EXCEPT ![step[Root]] = @ \cup {Dot}]
  /\ UNCHANGED <<step, final, victims, best, run>>

\* rmtree of step_<s>: its entries in any order, then the directory.
RemoveFrom(s) ==
  \/ \E k \in Kind : /\ \E f \in final[s] : f[1] = k
                     /\ final' = [final EXCEPT ![s] = {f \in @ : f[1] # k}]
  \/ /\ final[s] = {Dot}
     /\ final' = [final EXCEPT ![s] = {}]

\* A checkpoint of the same step, from an earlier run.
Replace ==
  /\ pc[Root] = "replace"
  /\ RemoveFrom(step[Root])
  /\ UNCHANGED <<ranks, tmp, victims, best, run>>

Rename ==
  /\ Goto(Root, "replace", "meta")
  /\ final[step[Root]] = {}
  /\ final' = [final EXCEPT ![step[Root]] = tmp[step[Root]]]
  /\ tmp' = [tmp EXCEPT ![step[Root]] = {}]
  /\ UNCHANGED <<step, victims, best, run>>

WriteFile(k, next) ==
  /\ Goto(Root, k, next)
  /\ final' = [final EXCEPT ![step[Root]] = @ \cup {File(k, Root)}]
  /\ UNCHANGED <<step, tmp, victims, best, run>>

\* Faulty variant: one too many is removed.
OldestAndOneMore ==
  {s \in Completed : Cardinality({u \in Completed : u > s}) >= PruneKeep - 1}

\* _cleanup_old_checkpoints: all completed ones but the PruneKeep highest.
Oldest == {s \in Completed : Cardinality({u \in Completed : u > s}) >= PruneKeep}

ListOldest ==
  /\ Goto(Root, "prune", "pruning")
  /\ victims' = Oldest
  /\ UNCHANGED <<step, disk, best, run>>

\* The better-or-earlier entry of best_ckpts comes first (a stable sort), and
\* the list is cut after KeepLastN.
Before(e, f) == e.loss < f.loss \/ (e.loss = f.loss /\ e.step < f.step)
Kept(list)   == {e \in list : Cardinality({f \in list : Before(f, e)}) < KeepLastN}

RankByLoss ==
  /\ Goto(Root, "rank", "trimming")
  /\ \E l \in Loss :
       LET list == best \cup {[loss |-> l, step |-> step[Root]]}
       IN  /\ best' = Kept(list)
           /\ victims' = {e.step : e \in list \ Kept(list)}
  /\ UNCHANGED <<step, disk, run>>

RemoveVictim ==
  /\ pc[Root] \in {"pruning", "trimming"}
  /\ \E s \in victims :
       \/ /\ \A u \in victims : s <= u
          /\ RemoveFrom(s)
          /\ UNCHANGED victims
       \/ /\ final[s] = {}
          /\ victims' = victims \ {s}
          /\ UNCHANGED final
  /\ UNCHANGED <<ranks, tmp, best, run>>

VictimsRemoved ==
  /\ victims = {}
  /\ Goto(Root, "pruning", "release") \/ Goto(Root, "trimming", "train")
  /\ UNCHANGED <<step, disk, victims, best, run>>

-------------------------------------------------------------------------------
\* The processes are killed wherever they are and started anew.
Restart ==
  /\ run < MaxRestarts
  /\ run' = run + 1
  /\ pc'   = [r \in Rank |-> "train"]
  /\ step' = [r \in Rank |-> MaybeResume]
  /\ victims' = {}
  /\ best' = {}
  /\ UNCHANGED disk

RankStep(r) ==
  \/ TrainEpoch(r) \/ Seek(r) \/ Sweep(r) \/ SweepFails(r)
  \/ WriteShard(r, "model", "optim") \/ WriteShard(r, "optim", "written")

RootStep ==
  \/ MakeTmp \/ Replace \/ Rename
  \/ WriteFile("meta", "complete") \/ WriteFile("complete", "prune")
  \/ ListOldest \/ RankByLoss \/ RemoveVictim \/ VictimsRemoved

Next == Barrier \/ RootStep \/ Restart \/ \E r \in Rank : RankStep(r)

Spec == Init /\ [][Next]_vars

Fairness == /\ WF_vars(Barrier) /\ WF_vars(RootStep)
            /\ \A r \in Rank : WF_vars(RankStep(r))

-------------------------------------------------------------------------------
States == {"train", "enter", "seek", "sweep", "mkdir", "open", "model", "optim",
           "written", "replace", "meta", "complete", "prune", "pruning",
           "release", "rank", "trimming", "failed"}

FileName == {Dot} \cup (Kind \X Rank \X Nat)

\* Every variable has the type its declaration gives it.
TypeOK ==
  /\ pc \in [Rank -> States]
  /\ step \in [Rank -> 0..MaxStep]
  /\ tmp \in [Steps -> SUBSET FileName]
  /\ final \in [Steps -> SUBSET FileName]
  /\ victims \in SUBSET Steps
  /\ best \in SUBSET [loss : Loss, step : Steps]
  /\ run \in Nat

\* The sentinel is written into a directory that then holds meta.json and, all
\* of the same run, the shards of every rank: no rank is still writing when
\* rank 0 renames, and nothing an interrupted save left behind gets in
\* (checkpoint.py 138-174).
CommitWhole ==
  [][\A s \in Steps : ~Complete(final[s]) /\ Complete(final'[s]) => Whole(final[s])]_vars

\* Two ways of pruning, by age and by loss, remove checkpoints of one another's
\* lists, and a removal can be interrupted anywhere.  Even so, in a job that was
\* not restarted there is a whole checkpoint from the first one on
\* (checkpoint.py 85-97, checkpointing.py 56-61).
SomeCheckpointSurvives ==
  run = 0 /\ (\E r \in Rank : step[r] > 1) =>
    \E s \in Completed : Whole(final[s])

\* No rank waits in a barrier for good, unless another one has failed: the ranks
\* come to the barriers in step with one another although rank 0 has more to do
\* between them (checkpoint.py 136-182, checkpointing.py 43-61).
SavesEnd == \A r \in Rank :
  pc[r] = "enter" ~> pc[r] = "train" \/ \E q \in Rank : pc[q] = "failed"

-------------------------------------------------------------------------------
(* The inductive invariant behind CommitWhole. *)

Outside == {"train", "enter", "rank", "trimming"}
Opening == {"seek", "sweep", "mkdir", "open", "failed"}
Writing == {"model", "optim", "written"}
Closing == {"replace", "meta", "complete", "prune", "pruning", "release"}

\* The ranks are between the same two barriers.
Together == \E phase \in {Outside, Opening, Writing, Closing} :
              \A r \in Rank : pc[r] \in phase

RootAlone == \A r \in Rank \ {Root} :
  pc[r] \notin {"mkdir", "replace", "meta", "complete", "prune", "pruning",
                "rank", "trimming"}

\* They save the same step; one that has entered the next save is one ahead.
SameStep ==
  /\ \A r, q \in Rank :
       step[r] = IF pc[r] = "enter" /\ pc[q] # "enter" THEN step[q] + 1
                 ELSE IF pc[r] # "enter" /\ pc[q] = "enter" THEN step[q] - 1
                 ELSE step[q]
  /\ \A r \in Rank : pc[r] # "train" => step[r] # 0

\* Where the shards of this save are, from the first one written to the sentinel.
Shards ==
  /\ \A r \in Rank : pc[r] \in {"optim", "written"} =>
       File("model", r) \in tmp[step[r]]
  /\ \A r \in Rank : pc[r] = "written" => File("optim", r) \in tmp[step[r]]
  /\ pc[Root] = "replace" =>
       \A r \in Rank, k \in Part : File(k, r) \in tmp[step[Root]]
  /\ pc[Root] \in {"meta", "complete"} =>
       \A r \in Rank, k \in Part : File(k, r) \in final[step[Root]]
  /\ pc[Root] = "complete" => File("meta", Root) \in final[step[Root]]

\* A sentinel is never in a step_<N>.tmp.
NoSentinelInTmp == \A s \in Steps : ~Complete(tmp[s])

IInv == TypeOK /\ Together /\ RootAlone /\ SameStep /\ Shards /\ NoSentinelInTmp
================================================================================
