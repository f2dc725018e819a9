----------------------------- MODULE TrainingJob -----------------------------
(***************************************************************************)
(* A training job: the ranks of TrainLoop, and the logger of the rank Lead *)
(* (rank 0), the only one that reports steps.  Lead is the training thread *)
(* of MetricsPump: while it is inside log() it does nothing else.          *)
(***************************************************************************)
EXTENDS TrainLoop, MetricsPump

CONSTANT Lead
ASSUME LeadAssumption == Lead \in Ranks

jobVars == <<loopVars, pumpVars>>

JobInit == LoopInit /\ PumpInit

(* train() reports the size of the model before the first epoch. *)
ReportModel ==
    /\ steps = <<>>
    /\ Log(0)
    /\ UNCHANGED loopVars

(* Optimizer steps, skipped steps and finished epochs are reported. *)
Reported == OptimizerStep(Lead) \/ SkipStep(Lead) \/ EndEpoch(Lead)
LeadReports == steps # <<>> /\ Reported /\ Log(step'[Lead])

LeadWorks ==
    /\ trainer = "train" /\ steps # <<>>
    /\ \/ StartEpoch(Lead) \/ BeginWindow(Lead) \/ NextBatch(Lead) \/ RunsOut(Lead)
       \/ Backward(Lead) \/ EmptyEpoch(Lead) \/ Return(Lead)
    /\ UNCHANGED pumpVars

OtherWorks(r) == RankStep(r) /\ UNCHANGED pumpVars
Together == /\ trainer = "train"
            /\ AllReduce \/ Barrier \/ Save
            /\ UNCHANGED pumpVars

(* train() ends with tracker.finish(). *)
LeadFinishes == pc[Lead] = "done" /\ steps # <<>> /\ Finish /\ UNCHANGED loopVars

(* Inside log(), or in finish() until it has waited for the worker. *)
InLogger == (LogStep \/ Join) /\ UNCHANGED loopVars
LeadUploads == FinalUpload /\ UNCHANGED loopVars
WorkerWorks == WorkerStep /\ UNCHANGED loopVars
(* The processes of the job go when all ranks have returned. *)
JobExits == (\A r \in Ranks : pc[r] = "done") /\ Exit /\ UNCHANGED loopVars
JobOver == trainer = "exited" /\ UNCHANGED jobVars

JobNext ==
    \/ ReportModel \/ LeadReports \/ LeadWorks
    \/ \E r \in Ranks \ {Lead} : OtherWorks(r)
    \/ Together \/ LeadFinishes \/ InLogger \/ LeadUploads
    \/ WorkerWorks \/ JobExits \/ JobOver

(* Every rank runs on, inside log() and the timed join as well.  Nothing is *)
(* assumed of what asks the server: the worker thread, and the last calls   *)
(* of finish(), which rank 0 makes itself and without a timeout.            *)
JobFairness ==
    /\ WF_jobVars(ReportModel \/ LeadReports \/ LeadWorks \/ LeadFinishes \/ InLogger)
    /\ \A r \in Ranks \ {Lead} : WF_jobVars(OtherWorks(r))
    /\ WF_jobVars(Together)
JobSpec == JobInit /\ [][JobNext]_jobVars /\ JobFairness
-----------------------------------------------------------------------------
(* Types of the ranks and of the logger, with the bound of its queue.       *)
JobTypeOK == LoopTypeOK /\ PumpTypeOK

(* Metrics never block training: although the server need not answer the    *)
(* worker, every rank returns from train() and rank 0 gets through log()    *)
(* and the join, as far as the last calls of finish().  Those two ask the   *)
(* server, and if it does not answer they keep rank 0 for good.             *)
JobEnds ==
    <>(trainer \in {"upload", "finished"} /\ \A r \in Ranks : pc[r] = "done")
=============================================================================
