----------------------------- MODULE MetricsPump -----------------------------
(***************************************************************************)
(* How the metrics of a training rank reach MLflow: build_logger, the      *)
(* fan-out of MultiLogger, and MLflowLogger with its bounded queue between *)
(* the training thread and a worker thread that talks to the store         *)
(* (utils/loggers/).                                                       *)
(*                                                                         *)
(* The n-th call of log() is the batch n.  The store is                    *)
(* external: it takes a batch, or raises, at most MaxFailures times.       *)
(***************************************************************************)
EXTENDS Naturals, Sequences, FiniteSets, SequencesExt

CONSTANTS QueueMax,       \* _QUEUE_MAXSIZE
          ArtifactsEvery, \* mlflow_log_artifacts_every
          MaxLogs,        \* bound: calls of log()
          MaxFailures,    \* bound: errors of the store
          Settings        \* settings of a rank, see Setting

Trackers == {"wandb", "mlflow", "ray"}
Setting == [trackers : SUBSET Trackers, dashboard : BOOLEAN, rank : Nat,
            allRanks : BOOLEAN, importable : SUBSET Trackers,
            storeUp : BOOLEAN, fileOk : BOOLEAN]

ASSUME PumpAssumption ==
    /\ QueueMax \in Nat \ {0} /\ ArtifactsEvery \in Nat \ {0}
    /\ MaxLogs \in Nat /\ MaxFailures \in Nat
ASSUME SettingsAssumption == Settings \subseteq Setting

VARIABLES setting,  \* configuration and surroundings of the rank
          trainer,  \* where the training thread is
          steps,    \* steps[n] is the step given with the n-th call of log()
          queue, dropped, stop,  \* _queue, _dropped, _stop
          worker,   \* where the worker thread is
          inHand,   \* the batch the worker has taken, 0 if none
          last,     \* last_uploaded_step + 1
          lines,    \* lines of the local training.log
          reading,  \* lines the worker's upload has read
          stored,   \* batches the store has, in the order they came
          artifact, \* lines of the uploaded training.log
          failures, joined  \* errors so far; did finish() see the worker end
pumpVars == <<setting, trainer, steps, queue, dropped, stop, worker, inHand, last,
          lines, reading, stored, artifact, failures, joined>>
store == <<stored, artifact, failures>>
-----------------------------------------------------------------------------
(* build_logger: Ray on every rank, the others on rank 0 only; a backend    *)
(* that cannot be imported is left out.                                     *)
Wanted(c) == c.trackers \cup (IF c.dashboard THEN {"ray"} ELSE {})
Children(c) == {t \in Wanted(c) \cap c.importable : t = "ray" \/ c.rank = 0}

(* MLflowLogger.__init__: the worker thread runs only if this rank is to    *)
(* publish and the run could be opened.                                     *)
Available(c) == /\ "mlflow" \in Children(c)
                /\ c.rank = 0 \/ c.allRanks
                /\ c.storeUp

PumpInit ==
    /\ setting \in Settings
    /\ trainer = "train"
    /\ steps = <<>>
    /\ queue = <<>> /\ dropped = 0 /\ stop = FALSE
    /\ worker = IF Available(setting) THEN "loop" ELSE "gone"
    /\ inHand = 0 /\ last = 0 /\ lines = 0 /\ reading = 0
    /\ stored = <<>> /\ artifact = 0
    /\ failures = 0 /\ joined = FALSE

(* MultiLogger.log: every child in turn, whatever the others raise.  What   *)
(* MLflowLogger.log does first is the line in training.log.                 *)
Log(s) ==
    /\ trainer = "train"
    /\ steps' = Append(steps, s)
    /\ lines' = IF Available(setting) /\ setting.fileOk THEN lines + 1 ELSE lines
    /\ trainer' = IF Available(setting) THEN "put" ELSE "train"
    /\ UNCHANGED <<setting, queue, dropped, stop, worker, inHand, last, reading,
                   store, joined>>

(* Faulty variant: a drop is not counted.                                   *)
PutUncounted ==
    /\ trainer = "put"
    /\ IF Len(queue) < QueueMax
       THEN queue' = Append(queue, Len(steps)) /\ trainer' = "train"
       ELSE queue' = queue /\ trainer' = "drain"
    /\ UNCHANGED <<setting, steps, dropped, stop, worker, inHand, last, lines,
                   reading, store, joined>>

(* put_nowait; a full queue counts as a drop before anything is removed.    *)
Put ==
    /\ trainer = "put"
    /\ IF Len(queue) < QueueMax
       THEN queue' = Append(queue, Len(steps)) /\ trainer' = "train" /\ dropped' = dropped
       ELSE queue' = queue /\ trainer' = "drain" /\ dropped' = dropped + 1
    /\ UNCHANGED <<setting, steps, stop, worker, inHand, last, lines, reading,
                   store, joined>>

(* The oldest batch makes room, unless the worker has emptied the queue.    *)
Drain ==
    /\ trainer = "drain"
    /\ queue' = IF queue = <<>> THEN queue ELSE Tail(queue)
    /\ trainer' = "putAgain"
    /\ UNCHANGED <<setting, steps, dropped, stop, worker, inHand, last, lines,
                   reading, store, joined>>

(* Faulty variant: the newest batch is given up.                            *)
PutAgainNot ==
    /\ trainer = "putAgain"
    /\ trainer' = "train"
    /\ UNCHANGED <<setting, steps, queue, dropped, stop, worker, inHand, last,
                   lines, reading, store, joined>>

PutAgain ==
    /\ trainer = "putAgain"
    /\ queue' = IF Len(queue) < QueueMax THEN Append(queue, Len(steps)) ELSE queue
    /\ trainer' = "train"
    /\ UNCHANGED <<setting, steps, dropped, stop, worker, inHand, last, lines,
                   reading, store, joined>>

(* MultiLogger.finish, MLflowLogger.finish: stop, wait for the worker for   *)
(* ten seconds, upload the log, end the run.                                *)
Finish ==
    /\ trainer = "train"
    /\ stop' = Available(setting)
    /\ trainer' = IF Available(setting) THEN "join" ELSE "finished"
    /\ UNCHANGED <<setting, steps, queue, dropped, worker, inHand, last, lines,
                   reading, store, joined>>

(* Faulty variant: join() without a timeout.                                *)
JoinForGood ==
    /\ trainer = "join" /\ worker = "gone"
    /\ joined' = TRUE
    /\ trainer' = "upload"
    /\ UNCHANGED <<setting, steps, queue, dropped, stop, worker, inHand, last,
                   lines, reading, store>>

Join ==
    /\ trainer = "join"
    /\ joined' = (worker = "gone")
    /\ trainer' = "upload"
    /\ UNCHANGED <<setting, steps, queue, dropped, stop, worker, inHand, last,
                   lines, reading, store>>

(* finish() itself uploads the log and ends the run; neither call has a     *)
(* timeout, so that a server that does not answer keeps it here.            *)
FinalUpload ==
    /\ trainer = "upload"
    /\ \/ artifact' = lines /\ UNCHANGED failures
       \/ /\ failures < MaxFailures /\ failures' = failures + 1
          /\ UNCHANGED artifact
    /\ trainer' = "finished"
    /\ UNCHANGED <<setting, steps, queue, dropped, stop, worker, inHand, last,
                   lines, reading, stored, joined>>

(* The process ends and takes the daemon thread along.                      *)
Exit ==
    /\ trainer = "finished"
    /\ trainer' = "exited"
    /\ worker' = "gone"
    /\ UNCHANGED <<setting, steps, queue, dropped, stop, inHand, last, lines,
                   reading, store, joined>>
-----------------------------------------------------------------------------
(* Faulty variant: stop alone ends the loop.                                *)
LeaveAtOnce ==
    /\ worker = "loop" /\ stop
    /\ worker' = "gone"
    /\ UNCHANGED <<setting, trainer, steps, queue, dropped, stop, inHand, last,
                   lines, reading, store, joined>>
(* _pump: the loop ends when stop is set and the queue is empty; otherwise  *)
(* get() waits for half a second and the condition is looked at again.      *)
Leave ==
    /\ worker = "loop" /\ stop /\ queue = <<>>
    /\ worker' = "gone"
    /\ UNCHANGED <<setting, trainer, steps, queue, dropped, stop, inHand, last,
                   lines, reading, store, joined>>

Take ==
    /\ worker = "loop" /\ queue # <<>>
    /\ inHand' = Head(queue)
    /\ queue' = Tail(queue)
    /\ worker' = "flush"
    /\ UNCHANGED <<setting, trainer, steps, dropped, stop, last, lines, reading,
                   store, joined>>

(* An upload is due when the step has entered another span of               *)
(* ArtifactsEvery steps; -1 is in a span of its own.                        *)
Span(uploaded) == IF uploaded = 0 THEN 0 ELSE 1 + (uploaded - 1) \div ArtifactsEvery
UploadDue == setting.fileOk /\ Span(steps[inHand] + 1) # Span(last)

Flushed ==
    /\ worker = "flush"
    /\ stored' = Append(stored, inHand)
    /\ worker' = IF UploadDue THEN "read" ELSE "loop"
    /\ inHand' = IF UploadDue THEN inHand ELSE 0
    /\ UNCHANGED <<setting, trainer, steps, queue, dropped, stop, last, lines,
                   reading, artifact, failures, joined>>

(* log_metrics raises: the batch is gone, the thread sleeps and goes on.    *)
FlushFails ==
    /\ worker = "flush" /\ failures < MaxFailures
    /\ failures' = failures + 1
    /\ inHand' = 0
    /\ worker' = "loop"
    /\ UNCHANGED <<setting, trainer, steps, queue, dropped, stop, last, lines,
                   reading, stored, artifact, joined>>

(* _upload_log_artifact: reading the file and having it in the store are    *)
(* two moments; an error is swallowed, and the upload counts all the same.  *)
ReadLog ==
    /\ worker = "read"
    /\ reading' = lines
    /\ worker' = "write"
    /\ UNCHANGED <<setting, trainer, steps, queue, dropped, stop, inHand, last,
                   lines, store, joined>>

WriteArtifact ==
    /\ worker = "write"
    /\ \/ artifact' = reading /\ UNCHANGED failures
       \/ /\ failures < MaxFailures /\ failures' = failures + 1
          /\ UNCHANGED artifact
    /\ last' = steps[inHand] + 1
    /\ inHand' = 0 /\ reading' = 0
    /\ worker' = "loop"
    /\ UNCHANGED <<setting, trainer, steps, queue, dropped, stop, lines, stored,
                   joined>>

(* What the training thread does inside log(), and inside finish().         *)
LogStep == Put \/ Drain \/ PutAgain
FinishStep == Join \/ FinalUpload
WorkerStep == Leave \/ Take \/ Flushed \/ FlushFails \/ ReadLog \/ WriteArtifact
Over == trainer = "exited" /\ UNCHANGED pumpVars
(* Training logs steps that never go back, at most MaxLogs times.           *)
LogSome == /\ Len(steps) < MaxLogs
           /\ \E s \in 0 .. MaxLogs :
                 /\ IF steps = <<>> THEN s = 0 ELSE s - Last(steps) \in {0, 1}
                 /\ Log(s)
PumpNext == LogSome \/ LogStep \/ Finish \/ FinishStep \/ Exit \/ WorkerStep \/ Over

PumpSpec == PumpInit /\ [][PumpNext]_pumpVars
(* The worker is a thread of its own; training need not end.                *)
FairPump == PumpSpec /\ WF_pumpVars(WorkerStep)
-----------------------------------------------------------------------------
(* Types and bounds; the queue never holds more than it may.                *)
PumpTypeOK ==
    /\ setting \in Settings
    /\ trainer \in {"train", "put", "drain", "putAgain", "join", "upload",
                    "finished", "exited"}
    /\ steps \in Seq(Nat)
    /\ queue \in Seq(Nat \ {0}) /\ Len(queue) <= QueueMax
    /\ dropped \in Nat /\ stop \in BOOLEAN /\ joined \in BOOLEAN
    /\ worker \in {"loop", "flush", "read", "write", "gone"}
    /\ inHand \in 0 .. Len(steps)
    /\ last \in Nat /\ lines \in Nat /\ reading \in Nat /\ artifact \in Nat
    /\ stored \in Seq(Nat \ {0})
    /\ failures \in 0 .. MaxFailures

(* The batch in the worker's hands that the store does not have yet.        *)
Flying == IF worker = "flush" THEN <<inHand>> ELSE <<>>
InFlight == stored \o Flying \o queue

(* Batches reach the store in the order they were logged, none twice, and   *)
(* when log() has returned the newest one is not lost to a full queue: the  *)
(* oldest makes room.                                                       *)
OrderKept ==
    /\ \A i, j \in 1 .. Len(InFlight) : i < j => InFlight[i] < InFlight[j]
    /\ trainer = "train" /\ steps # <<>> /\ Available(setting) /\ failures = 0 =>
           InFlight # <<>> /\ Last(InFlight) = Len(steps)

(* A batch that was put gets to the store unless it was dropped, which      *)
(* dropped counts, or the store raised, which the program logs as a debug   *)
(* message and only the model counts, in failures.  dropped may count too   *)
(* many: the worker may empty the queue between the failed put and the      *)
(* removal.                                                                 *)
LossesCounted ==
    Available(setting) /\ trainer # "exited" =>
        LET pending == IF trainer \in {"put", "drain", "putAgain"} THEN 1 ELSE 0
        IN  Len(steps) <= Len(InFlight) + pending + dropped + failures

(* After finish() has seen the worker end, nothing waits in the queue and,  *)
(* unless the store raised, the uploaded log is complete.  (Without that a  *)
(* worker that outlives the join may put an older copy over it.)            *)
FinishComplete ==
    joined /\ trainer = "finished" =>
        queue = <<>> /\ (failures = 0 => artifact = lines)
=============================================================================
