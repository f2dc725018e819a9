------------------------------ MODULE TrustEngine ------------------------------
(***************************************************************************)
(* ml_engine.py: the process that a node starts once a round.  It reads    *)
(* its trust in the other nodes, trains, adds up the updates of the nodes  *)
(* it can read, weighted by trust, revises the trust, and prints what the  *)
(* node then publishes.  It may end anywhere, killed or by an exception,   *)
(* and finds at its next start what it left on disk.                       *)
(*                                                                         *)
(* A model is the sequence of runs whose updates were added to the one     *)
(* that was downloaded, an update the set of the keys it has a tensor for. *)
(* Trust is kept in thousandths.  The softmax is only used for             *)
(* beta * w * (1 - w), the Pull of a similarity on alpha; any combination  *)
(* of pulls is allowed.  The counter of rounds and <me>_delta.pth are left *)
(* out: nothing but logging uses the one, nothing reads the other.         *)
(***************************************************************************)
EXTENDS Integers, Sequences, FiniteSets

CONSTANTS
  Node,       \* the node and those whose chains it knows
  Me,         \* the node itself
  Drawn,      \* initial values of alpha, from a normal distribution
  Pull,       \* values of beta * w * (1 - w)
  Parameters, \* keys of the trained parameters in a checkpoint
  Largest,    \* largest absolute value alpha can have
  MaxRuns,    \* bound on the runs
  MaxAborts   \* bound on the runs that are cut off

ASSUME MeAssumption    == Me \in Node
ASSUME TrustAssumption == /\ Largest \in Nat /\ Largest >= 1225
                          /\ Drawn \subseteq -Largest..Largest
                          /\ Pull \subseteq 0..25
ASSUME KeysAssumption  == "dummy" \notin Parameters
ASSUME RunsAssumption  == MaxRuns \in Nat /\ MaxAborts \in Nat

VARIABLES
  mode,       \* TRAINING_MODE
  pc,         \* where the process is, "idle" when there is none
  run,        \* number of the run
  aborts,     \* runs that were cut off
  args,       \* all_nodes: the node and its arguments
  known,      \* nodes with a state["alpha"]
  alpha,      \* state["alpha"] in memory
  delta,      \* delta_i
  readable,   \* keys of available_deltas
  heard,      \* available_deltas
  sim,        \* peer_improvements
  saved,      \* <me>_state.json
  base,       \* <me>_base_full
  lora,       \* <me>_base_lora.pth: the run that wrote it, and its keys
  cache,      \* tokenized_cache
  ckpt,       \* the highest completed checkpoint
  published,  \* runs whose last line was printed
  learned,    \* of these, the ones that saved what they trained
  drawn       \* how often a random alpha was drawn for a node

memory  == <<args, known, alpha, delta, readable, heard, sim>>
disk    == <<saved, base, lora, cache, ckpt>>
history == <<published, learned, drawn>>
vars    == <<mode, pc, run, aborts, memory, disk, history>>

Run == 1..MaxRuns

NoTrust == [n \in Node |-> 0]
Fresh   == [is |-> "absent", known |-> {}, alpha |-> NoTrust]
NoCkpt  == [run |-> 0, start |-> << >>]
NoCache == [run |-> 0, rows |-> "none"]
NoLora  == [run |-> 0, keys |-> {}]
NoneHeard == [n \in Node |-> {}]
Dummy   == {"dummy"}

Init ==
  /\ mode \in {"finetuning", "pretraining"}
  /\ pc = "idle"
  /\ run = 0
  /\ aborts = 0
  /\ args = {}
  /\ known = {}
  /\ alpha = NoTrust
  /\ delta = {}
  /\ readable = {}
  /\ heard = NoneHeard
  /\ sim = NoTrust
  /\ saved = Fresh
  /\ base = [is |-> "absent", runs |-> << >>]
  /\ lora = NoLora
  /\ cache = NoCache
  /\ ckpt = NoCkpt
  /\ published = {}
  /\ learned = {}
  /\ drawn = NoTrust

Goto(from, to) == pc = from /\ pc' = to

Pretraining == mode = "pretraining"

-------------------------------------------------------------------------------
(* Starting. *)

\* A directory that is there is not downloaded again, whatever is in it.
StartRun(peers) ==
  /\ run < MaxRuns
  /\ Goto("idle", IF Pretraining /\ base.is = "absent" THEN "fetch" ELSE "load")
  /\ run' = run + 1
  /\ args' = peers \cup {Me}
  /\ UNCHANGED <<mode, aborts, known, alpha, delta, readable, heard, sim, disk, history>>

\* save_pretrained makes the directory and fills it.
Fetch ==
  /\ Goto("fetch", "fetching")
  /\ base' = [base EXCEPT !.is = "torn"]
  /\ UNCHANGED <<mode, run, aborts, memory, saved, lora, cache, ckpt, history>>

FetchEnds ==
  /\ Goto("fetching", "load")
  /\ base' = [base EXCEPT !.is = "whole"]
  /\ UNCHANGED <<mode, run, aborts, memory, saved, lora, cache, ckpt, history>>

\* A file that cannot be parsed is as good as none.
Loaded == IF saved.is = "whole" THEN saved ELSE Fresh

\* Faulty variant: every node the run was given gets a random alpha.
AllGiven == args

\* The nodes that get one: those met for the first time.
Unmet == args \ Loaded.known

\* Faulty variant: a file that cannot be parsed is an error, in every run.
LoadOrRaise ==
  /\ Goto("load", IF saved.is = "torn" THEN "raise" ELSE "prepare")
  /\ known' = args
  /\ \E draw \in [args -> Drawn] :
       alpha' = [n \in Node |-> IF n \in args THEN draw[n] ELSE 0]
  /\ UNCHANGED <<mode, run, aborts, args, delta, readable, heard, sim, disk, history>>

LoadState ==
  /\ Goto("load", "prepare")
  /\ known' = Loaded.known \cup args
  /\ \E draw \in [Unmet -> Drawn] :
       alpha' = [n \in Node |-> IF n \in Unmet THEN draw[n] ELSE Loaded.alpha[n]]
  /\ drawn' = [n \in Node |-> IF n \in Unmet THEN drawn[n] + 1 ELSE drawn[n]]
  /\ UNCHANGED <<mode, run, aborts, args, delta, readable, heard, sim, disk,
                 published, learned>>

-------------------------------------------------------------------------------
(* Training. *)

\* Faulty variant: tokens that are there, whole or not, are used.
PrepareKeeping ==
  /\ Goto("prepare", IF cache.run = 0 THEN "tokenize" ELSE "train")
  /\ UNCHANGED <<mode, run, aborts, memory, saved, base, lora, cache, ckpt, history>>

\* prepare_bhaskera_config clears the cache, so the look for parquet files that
\* follows finds none, and the data is tokenized in every run.
Prepare ==
  /\ Goto("prepare", "tokenize")
  /\ cache' = NoCache
  /\ UNCHANGED <<mode, run, aborts, memory, saved, base, lora, ckpt, history>>

Tokenize ==
  /\ Goto("tokenize", "tokenizing")
  /\ cache' = [run |-> run, rows |-> "part"]
  /\ UNCHANGED <<mode, run, aborts, memory, saved, base, lora, ckpt, history>>

TokenizeEnds ==
  /\ Goto("tokenizing", "cut")
  /\ cache' = [cache EXCEPT !.rows = "all"]
  /\ UNCHANGED <<mode, run, aborts, memory, saved, base, lora, ckpt, history>>

\* The one folder that tokenizing has just made is cut to the first 80 rows of its
\* first file.  An error is swallowed: the rows are all there if it came before that
\* file was written over, the file is torn if it came while it was, and other files
\* may stay beside the first rows if it came after ("first" as well).
Truncate ==
  /\ Goto("cut", "train")
  /\ \/ cache' = [cache EXCEPT !.rows = "first"] /\ UNCHANGED aborts
     \/ UNCHANGED <<cache, aborts>>
     \/ /\ aborts < MaxAborts
        /\ aborts' = aborts + 1
        /\ cache' = [cache EXCEPT !.rows = "torn"]
  /\ UNCHANGED <<mode, run, memory, saved, base, lora, ckpt, history>>

\* The model of the configuration: the template's, or the local base.
BaseModel == IF Pretraining THEN base.runs ELSE << >>

\* The model, its tokenizer and the tokens can be read.
Trainable == cache.rows # "torn" /\ (Pretraining => base.is = "whole")

\* The model is loaded, from step 0 and never from a checkpoint
\* (RunsStartFromZero in CheckpointProofs); when it is trained and saved, the
\* checkpoint of the same step of an earlier run is removed first.
Train ==
  /\ Trainable
  /\ Goto("train", "saving")
  /\ ckpt' = [run |-> 0, start |-> BaseModel]
  /\ UNCHANGED <<mode, run, aborts, memory, saved, base, lora, cache, history>>

TrainSaves ==
  /\ Goto("saving", "extract")
  /\ ckpt' = [ckpt EXCEPT !.run = run]
  /\ UNCHANGED <<mode, run, aborts, memory, saved, base, lora, cache, history>>

\* No finite gradient in the last epoch: it ends without a save, and well.
TrainSavesNothing ==
  /\ Trainable
  /\ Goto("train", "extract")
  /\ UNCHANGED <<mode, run, aborts, memory, disk, history>>

TrainFails ==
  /\ ~Trainable
  /\ Goto("train", "raise")
  /\ UNCHANGED <<mode, run, aborts, memory, disk, history>>

\* torch.distributed.checkpoint fills the tensors of the dictionary it is given,
\* and adds none.
DcpLoad(asked, stored) == asked \cap stored

\* Faulty variant: the dictionary has the parameters, as that of the trainer has.
AskedForParameters == Parameters

\* The dictionary that is given to it is empty.
AskedFor == {}

\* A delta: what was read from a completed checkpoint, of it only the adapters or
\* the parameters that the base has too; without a checkpoint a dummy, as no
\* program writes the adapter files that are then looked for.
DeltaFrom(checkpointed) ==
  IF checkpointed THEN DcpLoad(AskedFor, Parameters) ELSE Dummy

ExtractDelta ==
  /\ Goto("extract", "collect")
  /\ delta' = DeltaFrom(ckpt.run # 0)
  /\ UNCHANGED <<mode, run, aborts, args, known, alpha, readable, heard, sim, disk,
                 history>>

-------------------------------------------------------------------------------
(* Aggregating. *)

\* The peers run this program, and their deltas are what it extracts.
PeerDelta == {DeltaFrom(checkpointed) : checkpointed \in BOOLEAN}

\* A staged delta may be missing, or empty because its training failed.
Collect(peers) ==
  /\ Goto("collect", "aggregate")
  /\ readable' = peers \cup {Me}
  /\ \E d \in [peers -> PeerDelta] :
       heard' = [n \in Node |-> IF n \in peers THEN d[n]
                                ELSE IF n = Me THEN delta ELSE {}]
  /\ UNCHANGED <<mode, run, aborts, args, known, alpha, delta, sim, disk, history>>

\* The keys of delta_agg.
Aggregated == UNION {heard[n] : n \in readable}

\* save_pretrained writes over the files of the base.
Aggregate ==
  /\ Pretraining
  /\ Goto("aggregate", "applying")
  /\ base' = [base EXCEPT !.is = "torn"]
  /\ UNCHANGED <<mode, run, aborts, memory, saved, lora, cache, ckpt, history>>

\* Only keys that the model has are added to it; without one it is saved as it
\* was loaded.
Apply ==
  /\ Goto("applying", "compare")
  /\ base' = [is |-> "whole", runs |-> IF Aggregated \cap Parameters = {} THEN base.runs
                                       ELSE Append(base.runs, run)]
  /\ UNCHANGED <<mode, run, aborts, memory, saved, lora, cache, ckpt, history>>

SaveAggregate ==
  /\ ~Pretraining
  /\ Goto("aggregate", "compare")
  /\ lora' = [run |-> run, keys |-> Aggregated]
  /\ UNCHANGED <<mode, run, aborts, memory, saved, base, cache, ckpt, history>>

-------------------------------------------------------------------------------
(* Trust. *)

\* An empty delta is like none, not even like itself; two deltas of different
\* shapes are not compared, and dummies are zeros.
Similarities(n) ==
  IF delta = {} \/ n \notin readable THEN {0}
  ELSE IF n = Me THEN {1}
  ELSE IF heard[n] = delta /\ delta # Dummy THEN -1..1 ELSE {0}

Compare ==
  /\ Goto("compare", "trust")
  /\ sim' \in {s \in [Node -> -1..1] : \A n \in Node : s[n] \in Similarities(n)}
  /\ UNCHANGED <<mode, run, aborts, args, known, alpha, delta, readable, heard, disk,
                 history>>

\* Faulty variants: no decay; the similarity taken away.
RevisedUndecayed(a, s, p) == a + s * p
RevisedAgainst(a, s, p) == LET x == a - s * p IN x - (x \div 50)

\* alpha += beta * similarity * w * (1 - w); alpha *= 0.98
Revised(a, s, p) == LET x == a + s * p IN x - (x \div 50)

ReviseTrust ==
  /\ Goto("trust", "open")
  /\ \E pull \in [args -> Pull] :
       alpha' = [n \in Node |-> IF n \in args THEN Revised(alpha[n], sim[n], pull[n])
                                ELSE alpha[n]]
  /\ UNCHANGED <<mode, run, aborts, args, known, delta, readable, heard, sim, disk,
                 history>>

\* open(.., "w") truncates the file before anything is written.
OpenState ==
  /\ Goto("open", "dump")
  /\ saved' = [Fresh EXCEPT !.is = "torn"]
  /\ UNCHANGED <<mode, run, aborts, memory, base, lora, cache, ckpt, history>>

DumpState ==
  /\ Goto("dump", "print")
  /\ saved' = [is |-> "whole", known |-> known, alpha |-> alpha]
  /\ UNCHANGED <<mode, run, aborts, memory, base, lora, cache, ckpt, history>>

-------------------------------------------------------------------------------
(* Ending. *)

\* The memory of the process goes with it.
Exit ==
  /\ pc' = "idle"
  /\ args' = {}
  /\ known' = {}
  /\ alpha' = NoTrust
  /\ delta' = {}
  /\ readable' = {}
  /\ heard' = NoneHeard
  /\ sim' = NoTrust
  /\ UNCHANGED <<mode, run, disk, drawn>>

PrintResult ==
  /\ pc = "print"
  /\ published' = published \cup {run}
  /\ learned' = IF ckpt.run = run THEN learned \cup {run} ELSE learned
  /\ UNCHANGED aborts
  /\ Exit

Raise ==
  /\ pc = "raise"
  /\ UNCHANGED <<aborts, published, learned>>
  /\ Exit

\* The process is killed, or a statement raises that nothing catches.
Abort ==
  /\ pc # "idle"
  /\ aborts < MaxAborts
  /\ aborts' = aborts + 1
  /\ UNCHANGED <<published, learned>>
  /\ Exit

Step ==
  \/ Fetch \/ FetchEnds \/ LoadState
  \/ Prepare \/ Tokenize \/ TokenizeEnds \/ Truncate
  \/ Train \/ TrainSaves \/ TrainSavesNothing \/ TrainFails \/ ExtractDelta
  \/ \E peers \in SUBSET (args \ {Me}) : Collect(peers)
  \/ Aggregate \/ Apply \/ SaveAggregate
  \/ Compare \/ ReviseTrust \/ OpenState \/ DumpState
  \/ PrintResult \/ Raise

StartSome == \E peers \in SUBSET (Node \ {Me}) : StartRun(peers)

Next == StartSome \/ Step \/ Abort

Spec == Init /\ [][Next]_vars

\* The node starts the engine once a round and waits for its end.
Fairness == WF_vars(StartSome) /\ WF_vars(Step)

FairSpec == Spec /\ Fairness

-------------------------------------------------------------------------------
States == {"idle", "fetch", "fetching", "load", "prepare", "tokenize", "tokenizing",
           "cut", "train", "saving", "extract", "collect", "aggregate", "applying",
           "compare", "trust", "open", "dump", "print", "raise"}

Presence == {"absent", "torn", "whole"}

Rows == {"none", "part", "all", "first", "torn"}

Keys == Parameters \cup Dummy

Trust == [Node -> -Largest..Largest]

\* Every variable has the type its declaration gives it.  In particular trust
\* never leaves its range: what a similarity adds in the worst case, the decay
\* takes away (ml_engine.py 742-749).
TypeOK ==
  /\ mode \in {"finetuning", "pretraining"}
  /\ pc \in States
  /\ run \in 0..MaxRuns
  /\ aborts \in 0..MaxAborts
  /\ args \in SUBSET Node
  /\ known \in SUBSET Node
  /\ alpha \in Trust
  /\ delta \in SUBSET Keys
  /\ readable \in SUBSET Node
  /\ heard \in [Node -> SUBSET Keys]
  /\ sim \in [Node -> -1..1]
  /\ saved \in [is : Presence, known : SUBSET Node, alpha : Trust]
  /\ base \in [is : Presence, runs : Seq(Run)]
  /\ lora \in [run : 0..MaxRuns, keys : SUBSET Keys]
  /\ cache \in [run : 0..MaxRuns, rows : Rows]
  /\ ckpt \in [run : 0..MaxRuns, start : Seq(Run)]
  /\ published \in SUBSET Run
  /\ learned \in SUBSET Run
  /\ drawn \in [Node -> Nat]

\* What is trained on are tokens that this run has made, all of them or a first
\* part, whatever an earlier run left when it was cut off
\* (ml_engine.py 138-144, 376-431).
CacheWhole ==
  pc \in {"saving", "extract"} => cache.run = run /\ cache.rows \in {"all", "first"}

\* No evidence on a peer ever reaches the trust in it.  A run may draw its alpha at
\* random, and no run moves it but towards zero, whatever peer and node train:
\* the checkpoints are loaded into a dictionary without keys
\* (ml_engine.py 534-535, 718-749).
TrustOnlyFades ==
  [][pc = "trust" /\ pc' = "open" =>
       \A n \in args \ {Me} : \/ alpha[n] <= alpha'[n] /\ alpha'[n] <= 0
                              \/ 0 <= alpha'[n] /\ alpha'[n] <= alpha[n]]_vars

\* Runs that have ended without a result.
EndedRuns == 1..(IF pc = "idle" THEN run ELSE run - 1)
Unfinished == EndedRuns \ published

\* The trust in a node is made up at random once, and once more at most for every
\* run that ended without a result: only such a run can lose the state file, also
\* for nodes it was not given (ml_engine.py 348-366, 752-754).
DrawnOncePerLoss == \A n \in Node : drawn[n] <= 1 + Cardinality(Unfinished)

\* Evidence does not turn the order of trust round: who was trusted no less and
\* agrees is trusted no less afterwards than who disagrees, rounding and decay
\* included (ml_engine.py 742-749).
AlignedStaysAhead ==
  [][pc = "trust" /\ pc' = "open" =>
       \A m, n \in args : alpha[m] >= alpha[n] /\ sim[m] >= 0 /\ sim[n] <= 0 =>
                          alpha'[m] >= alpha'[n]]_vars

\* When runs are no longer cut off, the next one publishes, unless the base was
\* being written when an earlier one was (ml_engine.py 348-358, 391-397).
Republishes == \A k \in Run :
  run = k - 1 /\ pc = "idle" /\ aborts = MaxAborts /\ (Pretraining => base.is # "torn")
    ~> k \in published

-------------------------------------------------------------------------------
(* The inductive invariant behind the safety properties. *)

Numbered ==
  /\ pc # "idle" => run # 0
  /\ published \subseteq EndedRuns

\* The cache under construction, and the finished one.
TokensOfRun ==
  /\ pc \in {"tokenizing", "cut", "train"} => cache.run = run
  /\ pc = "cut" => cache.rows = "all"
  /\ pc = "train" => cache.rows \in {"all", "first", "torn"}
  /\ CacheWhole

\* No parameter is ever read, so no peer is ever like this node.
NothingLearned ==
  /\ delta \in {{}, Dummy}
  /\ \A n \in Node \ {Me} : sim[n] = 0

\* The nodes with an alpha: in the file until it is loaded, then in memory.
Remembered == IF pc \in {"idle", "fetch", "fetching", "load"} THEN Loaded.known ELSE known

DrawsAccounted ==
  /\ pc = "print" => saved.is = "whole" /\ saved.known = known
  /\ \A n \in Node :
       drawn[n] <= (IF n \in Remembered THEN 1 ELSE 0) + Cardinality(Unfinished)

IInv == TypeOK /\ Numbered /\ TokensOfRun /\ NothingLearned /\ DrawsAccounted

-------------------------------------------------------------------------------
(* What documents and comments say, and the code does not do. *)

\* ml_engine.py: "Save aggregated LoRA as base for next epoch OR apply full-model
\* updates": what was trained before and published is in the model that a later
\* training starts from.
RoundsBuildUp ==
  ckpt.run # 0 =>
    \A r \in learned : r < ckpt.run => \E i \in DOMAIN ckpt.start : ckpt.start[i] = r
================================================================================
