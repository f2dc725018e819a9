# A verification project for SLAKSHNA-FL

SLAKSHNA-FL is a federated-learning network. Every participant runs a Rust node
that keeps a lattice of block chains (one chain per author), gossips blocks over
libp2p, and once per epoch calls a Python engine, which fine-tunes a model with
Bhaskera (a training and serving framework that is part of the repository) and
says how much it trusts its peers. This directory holds TLA+ modules of the
parts of the system in which something can go wrong between two steps, the TLC
runs that check them on small instances, and proofs for all instances.

All source paths below are relative to the repository. `Bhaskera/src/bhaskera/`
is left out of the paths of Bhaskera.

## 1. The system

### The node (Rust, `src/`)

| Component | State | Operations | Talks to |
|---|---|---|---|
| Lattice chains, `src/chain.rs` | `lattice_chains`: author -> list of blocks, in memory only, behind one `RwLock` | `calculate_hash`, `add_lattice_block` (checks the hash and nothing else), `get_elected_committee` | written by the epoch task and the event loop, read by the API |
| Epoch task, `src/main.rs` 121-393 | its place in the round, `epoch_start`, the proposal and the evaluations of the round | wait for a boundary of 600 s; stage the peers' latest deltas as files; run the engine; build one proposal and one evaluation per trusted peer; append; broadcast; sync barrier; elect | the engine (a subprocess), the lattice, the command channel |
| Mesh network, `src/network/mesh.rs` | command channel (100), `active_peers` | event loop: publish what comes from the channel, append what gossipsub delivers, keep the list of peers | libp2p |
| Node state, `src/state.rs` | RocksDB: key pair, state root, height | `get_or_create_master_address`; the setters are never called | start-up, API |
| Star network, `src/network/star.rs` | registry of peers with a channel each | hello/welcome, relay of blocks | nobody: never constructed |
| API, `src/api.rs` | none | reads | clients |

### The ML engine (`ml_engine.py`)

One process per round. It keeps, per node, a state file (`alpha` per peer, round
number, score), the delta of the round, the base model or adapter, a cache of
tokenized data and a directory of checkpoints. In order: read the state, compute
the weights that will be published (a softmax of the old `alpha`), tokenize, cut
the tokens to 80 rows, train in a subprocess, load the highest completed
checkpoint, sparsify and save its delta, read the staged deltas of the peers,
aggregate, save the base model, compare deltas, update `alpha`, write the state,
print the result. The load is into a dictionary without keys, so nothing of the
checkpoint arrives (section 4).

### Bhaskera (`Bhaskera/src/bhaskera/`)

| Component | State | Operations | Talks to |
|---|---|---|---|
| Model setup, `models/`, `introspect.py`, `distributed/` | dtype, owner unit and trainability of every parameter | load, introspect the module tree, LoRA, cast, freeze routers, shard experts then layers then the root | PEFT, FSDP2, DDP |
| Training loop, `trainer/loop.py` | per rank: epoch, step, window, gradient, gradient synchronisation, weights | epochs of accumulation windows; skip a step; barrier and save after an epoch | the other ranks through collectives, checkpointing, the loggers |
| Checkpointing, `distributed/checkpoint.py`, `trainer/checkpointing.py` | a shared directory of `step_<N>` and `step_<N>.tmp`, `best_ckpts` of rank 0 | save (four barriers), prune by age, prune by loss, resume | the other ranks, the file system |
| Loggers, `utils/loggers/` | a bounded queue, a stop flag, `_dropped`, the local `training.log` | `log`, the worker's flush and upload, `finish` | the training thread, the MLflow server |
| Token cache, `data/tokenize.py`, `launcher/tokenize.py` | one directory of Parquet files and a `metadata.json` per cache key | render, tokenize, write, find again, overwrite, load | Ray Data, the training job |
| KV caches, `inference/kv_cache.py` | per layer: rows, or a full-precision window and what was evicted and quantized | update, advance, reset | the model's layers |
| Inference engine, `inference/engine.py`, `speculative.py` | the backend, one cache for all requests; caches of draft and target | load, generate, draft, verify, reject | the model, vLLM |
| Serving, `serve/` | one generation thread and one streamer queue per request | whole answers, streams, stop sequences, a client leaves | Ray Serve, the model |
| Launcher and worker, `launcher/` | none of their own | start all ranks under Ray Train, restart all when one fails | all of training |
| Formats, optimizers, sampling, statistics | none | pure functions and observation | |

### What is hard here

* two tasks of a node share the lattice, and the epoch task looks at it five
  times in a round with the lock free in between, for minutes while it trains;
* gossip arrives in any order, at most once, and may not arrive;
* a node restarts with its address and its staged files, but without its lattice;
* ranks meet in collectives that have no names, with different work between
  them: windows cut short, skipped steps, epochs without a step, saves that are
  not due, in a directory that an earlier, killed run may have left in any state;
* the training thread and the metrics worker share a queue that is full now and
  then, and training must not wait for a server that does not answer;
* a key-value cache lives longer than the request that filled it, and a request
  may raise half-way through the layers;
* generation threads cannot be cancelled, and the streamer between a thread and
  its request has no timeout;
* the command that tokenizes may be killed between any two files;
* floating-point sums are taken in the order of a hash map, which differs at
  every node.

`PROJECT.json` lists each of these at its line, under `hazards`.

### What makes each component correct

* *Lattice*: only sealed blocks of their author; an author proposes once per
  epoch; an evaluation names a proposal that exists; a lost copy costs one node
  one block; nodes with the same blocks agree on targets whose scores differ by
  more than the rounding.
* *Epoch task*: its own chain is linked although it is read long before it is
  written; a round that begins ends.
* *Checkpointing*: a sentinel means a whole checkpoint; some whole checkpoint is
  always there; ranks do not deadlock.
* *ML engine*: it trains on its own tokens, keeps its trust over anything but a
  run that ends without a result, and publishes again when runs are not cut off.
* *Model setup*: the parameters of an FSDP2 unit have one dtype, experts are
  units of their own, routers do not train and projections do.
* *Training loop*: ranks wait in the same collective; the optimizer is given
  whole windows of all ranks; checkpoints have steps of their own.
* *Loggers*: the order of the log is kept, losses are counted, training ends.
* *Token cache*: what is loaded is of a path given for it, all of it, once.
* *Caches and decoding*: a layer reads the whole context of its request and
  nothing else.
* *Serving*: an answer is what the backend handed out, whole; one generation at a
  time; nobody waits behind somebody who left.

## 2. The modules

| Module | Models | Extends |
|---|---|---|
| `LatticeChain` | `chain.rs`: blocks, appending, ranking (operators only) | |
| `LatticeNode` | a network of nodes: epoch tasks (`main.rs`), event loops (`mesh.rs`), restarts, lost blocks | `LatticeChain` |
| `ReplicatedLattice` | what the lattice promises: issued blocks and views | `LatticeChain` |
| `CommitteeElection` | `get_elected_committee` with rounded sums in any order | `LatticeChain` |
| `TrustEngine` | a round of `ml_engine.py`, its files, and its end at any point | |
| `ModelSetup` | what a worker does to a model before it trains it | |
| `TrainLoop` | `trainer/loop.py` as run by all ranks | |
| `MetricsPump` | `build_logger`, `MultiLogger`, `MLflowLogger` and its worker | |
| `TrainingJob` | the ranks with the logger of rank 0 | `TrainLoop`, `MetricsPump` |
| `Checkpoint` | saving, pruning, resuming by several ranks | |
| `TokenCache` | the tokenize command, its cache on disk, loading it | |
| `KVCache` | the static and the turboquant cache | |
| `Speculative` | speculative decoding and the loop around it | |
| `InferenceEngine` | backends and requests over one cache | `KVCache`, `Speculative` |
| `Serving` | a replica: requests, threads, streamers, clients | |
| `MC...` | small instances for TLC | the module named |
| `...Proofs` | theorems about the module named; `JobPreparationProofs`: about `TokenCache` and `ModelSetup` | the module named |

Operators commented as a *faulty variant* are not used by the specifications.
Each is a definition of the code with a plausible bug in it, and shows that the
property it is listed with in `PROJECT.json` does depend on the code.

### `LatticeNode`

| Variable | In the code |
|---|---|
| `pc[n]` | where the epoch task of `n` is; `rate`, `commit`: waiting for the lock; `evaluate`, `append`: holding it |
| `epoch[n]` | `next_boundary` / `epoch_start` |
| `lattice[n]` | `lattice_chains` |
| `staged[n]` | the files `network_deltas/<peer>_delta.b64` |
| `unrated[n]` | `python_args`, then the entries of `ml_data.weights` not visited yet |
| `weights[n]` | `ml_data.weights` |
| `batch[n]`, `pos[n]` | `my_proposal` followed by `evaluations`; the loop over them |
| `channel[n]` | the command channel |
| `inflight[n]` | what gossipsub may still deliver to `n` |
| `authored`, `restarts`, `losses` | history and bounds, in no process |

One action per stretch between two awaits, in the order of the code:
`StageDeltas`, `CollectArgs`, `TrainingSucceeds` or `TrainingFails`,
`EvaluatePeer` (per peer), `AppendOwn` (per block), `Broadcast` (per block),
`LeaveBarrierEarly` or `LeaveBarrierLate`, `SleepToDeadline`, `Elect`. The event
loop has `Publish` and `Receive`. While the epoch task holds the lattice lock
over a loop, `LatticeLocked` keeps `Receive` out.

Data is abstract: SHA-256 is injective (a hash is the tuple of the fields fed to
it), a delta is a model value, a trust score a natural number that is nowhere
added up (that is `CommitteeElection`'s part; `Elect` changes nothing but the
place in the loop), a signature the epoch it is stamped with. Gossipsub delivers a message to a node at most once
(its cache of message identifiers); a restarted node has a new libp2p identity
and may get again whatever is still travelling. The clocks of the nodes agree
(the code assumes NTP; what it computes from the clock is in the model).

### `CommitteeElection`

One action per addition. A score is a multiple of the smallest unit and a float
has `Precision` significant bits, rounded to nearest, ties to even: the f64 rules
with 2 bits instead of 53, so that rounding happens at sums of 4 and more. The
ledger is what nodes agree on; the order is free, except that a chain that was
begun is finished first, as the nested loops do.

### `Checkpoint`

A directory is a set of files, each with the run that wrote it. The ranks walk
through `save_and_prune` and `save_checkpoint` one file-system call at a time;
`Barrier` lets all of them go at once, from whatever barriers they are in, since
`dist.barrier()` has no name. `RemoveFrom` is `rmtree`: an entry at a time, in
any order. `Restart` may happen between any two steps, as Ray's restart of all
workers or a start by hand. Left out: the collectives inside DCP (they would
only restrict the interleavings), shards of more than one file, and saves
skipped by `save_interval`.

`MaybeResume` looks odd because it says what happens when a `step_<N>` directory
is handed to a function that looks for `step_<N>` directories inside its
argument. `RunsStartFromZero` proves what follows.

### `TrustEngine`

| Variable | In the code |
|---|---|
| `mode` | `TRAINING_MODE`, the same in all runs |
| `args`, `known`, `alpha`, `readable`, `heard`, `sim` | `all_nodes`, the keys and values of `state["alpha"]`, the keys of `available_deltas` and the deltas, `peer_improvements`; gone with the process |
| `delta` | the keys of `delta_i` |
| `saved`, `base`, `lora`, `cache`, `ckpt` | `<id>_state.json`, `<id>_base_full`, `<id>_base_lora.pth`, `tokenized_cache`, the highest completed checkpoint |
| `run`, `aborts`, `published`, `learned`, `drawn` | history and bounds |

One action per write that can be torn, in the order of `main`: `StartRun`,
`Fetch` and `FetchEnds`, `LoadState`, `Prepare`, `Tokenize` and `TokenizeEnds`,
`Truncate`, `Train` and `TrainSaves` (or `TrainSavesNothing`, `TrainFails`), `ExtractDelta`,
`Collect`, `Aggregate` and `Apply` (or `SaveAggregate` in finetuning), `Compare`,
`ReviseTrust`, `OpenState` and `DumpState`, `PrintResult`. `Abort` ends the
process between any two of them: a kill or an exception that nothing catches.

A model is the list of the runs whose updates were added to it, an update the set
of the keys it has a tensor for. What decides everything after training is
`DeltaFrom`: `torch.distributed.checkpoint.load` fills the tensors of the
dictionary it is given and adds none, and `ml_engine.py:534` gives it
`{"model": {}}`. So `delta_i` is empty where there is a completed checkpoint, and
the dummy of line 591 where there is none; the peers run the same program. An empty
delta has no similarity even to itself (`Similarities`, line 738), and an empty
aggregate leaves the model as it was loaded (`Apply`, lines 690-702). The actions
are written for any delta, and the one definition `AskedFor` says that nothing is
asked for: with `AskedForParameters` in its place, `TrustOnlyFades` fails.

Trust is in thousandths and decays with the rounding of `x - x \div 50`; what the
softmax contributes is `beta * w * (1 - w)`, at most 25 thousandths, and every
combination of such values is allowed, which includes all that softmax gives.
That training starts from the configured model and never from a checkpoint is
`RunsStartFromZero` of the trainer. An exception in `Truncate` is swallowed by the
code, and leaves the tokens whole, cut, or torn in the file being written.

The peers are an environment: their staged deltas can be read or not, and are
empty or dummies. Left out: a process that outlives a killed node (its pipes are
broken, so it ends at its next line of output), and `TrainSavesNothing` with a
checkpoint of *this* run from an earlier epoch, which is `TrainSaves`; the round
counter and `<id>_delta.pth`, which nothing reads.

### `TrainLoop`

| Variable | In the code |
|---|---|
| `config`, `bad` | the settings; the micro-batches whose loss or gradient is not finite |
| `pc[r]` | where rank `r` is: `epoch`, `window`, `micro`, `epochEnd` run on, `backward` may wait in an all-reduce, `barrier` and `save` wait |
| `epoch`, `step`, `epochSteps`, `micro`, `taken` | the locals of `_run_epoch` and `train`: epoch, optimizer steps, those of the epoch, micro-step, batches taken from the shard |
| `sync[r]` | whether `backward` synchronises (`set_requires_gradient_sync`, `require_backward_grad_sync`) |
| `grad[r]`, `weights[r]` | the micro-batches in `.grad`; the gradients applied so far |
| `saved[r]` | what `save_and_prune` was called with |

A rank's own steps are actions of one rank; `AllReduce`, `Barrier` and `Save`
are steps of all ranks at once, since nothing names a collective and the first
to come waits. Whether gradient synchronisation can be switched off depends on
the wrapper: under DDP with a static graph, and under FSDP2 where the helper is
missing, it stays on, and every micro-step is an all-reduce (`Toggles`). What is
saved is a step of its own, `Save`; its file-system calls are in `Checkpoint`.

### `MetricsPump` and `TrainingJob`

The training thread puts a batch, removes the oldest when the queue is full and
puts again (`Put`, `Drain`, `PutAgain`); the worker takes, flushes, reads the
local log and uploads it (`Take`, `Flushed` or `FlushFails`, `ReadLog`,
`WriteArtifact`, `Leave`), each step between two calls that can block or switch
threads. `Finish`, `Join`, `FinalUpload` and `Exit` are the end; `Join` may time
out with the worker at work. `FinalUpload` stands for two calls of the client
library that rank 0 makes itself and without a timeout (`log_artifact`, `end_run`):
it may never come. `failures` counts what the store has refused; the code has no
such counter, it writes a line at debug level. The n-th call of `log` is batch n, so that what a
store holds can be compared with what was logged.

`TrainingJob` makes rank `Lead` the thread of the pump: optimizer steps, skipped
steps and epoch ends call `log` in the same step, and until it has returned the
rank does nothing. The second `log` of a step, of system metrics, is left out;
it goes through the same calls. So are the constructor of the logger, which talks
to the server before training begins, and the other trackers (wandb, Ray), whose
calls are taken to return.

### `ModelSetup`

A model is the list of its modules, as `named_modules` gives it, with names cut
at the dots. `LoadModel`, `Introspect`, `ApplyLora`, `CastAdapters`,
`FreezeRouters`, `ShardExperts`, `ShardLayers`, `ShardRoot` are the calls in the
order of `worker_fn`. `params` says of each parameter where it is, of
which kind, its dtype and whether it trains; `unit` to which FSDP2 unit it belongs;
`profile` is `ModelProfile`. `Layers` are the modules of the class that
`fsdp.transformer_layer_cls` names first in the model, or else of the class that
introspection has found. Activation checkpointing is left out: it wraps modules,
and nothing here depends on it. What the code takes for granted of a model is stated
in three assumptions, which TLC evaluates on the four architectures. One of them,
`RouterAssumption`, is close to what `RoutersFrozen` concludes: it says by which of
two ways every router can be told, and the property that the freezing uses both and
nothing afterwards undoes it.

### `TokenCache`

`files[k]` and `meta[k]` are the Parquet files and `metadata.json` of the cache
directory of key `k`. A command (`Start`) goes through its splits: `Hit`, or
`BeginRemoval` / `RemoveEntry` / `Removed` (`rmtree` under `--overwrite`), then
`Miss`, `WriteFile` in any order, `OpenMetadata` and `WriteMetadata`. `Die` ends
it anywhere. `Load` is a job that is given a directory that was printed. A command
reads its rows from a path (`data.train_path`, `data.val_path`, or what its
arguments put there), and the key is a hash of the dataset, the split and the
format: the path is no part of it. `given` remembers the paths that commands gave
for a key since its directory was last removed. A row is the
number of its words and turns, since whether any token is left is all that
decides if it is kept.

### `KVCache`, `Speculative`, `InferenceEngine`

A token is cached as itself; one that was evicted from the window is marked as
not exact, which is all that quantization means here. `StaticUpdate`,
`TurboUpdate`, `UpdateRaises`, `Advance`, `Reset` are the methods.
`InferenceEngine` sends requests through it: `Begin`, then `Attend` layer by
layer, `Sample`; `CacheFails` and `ModelFails` leave the cache as it is at that
moment. `Delegate` is vLLM, `BeginParam2` the path that ignores the cache; a
request that is `direct` is a caller that drives the cache itself and advances
it, as the tests of the repository do. `Speculative` is the loop with a draft
model: `Propose`, `Verify` with every outcome of the rejection test,
`StandardStep` without a draft. Without a name of a draft model (`named`) the engine
turns speculation off when it loads.

### `Serving`

`at[c]` is where the request of client `c` is, `thread[c]` the generation thread
made for it, `pipe[c]` the streamer's queue, `body[c]` what a whole answer has
collected, `sent[c]` what the client has. `Dispatch` is Ray Serve under
`max_ongoing_requests`; `SendRole`, `Start`, `ReadStreamer` or `ReadDelta`,
`ReadEnd`, `ReadError`, `Close` are the coroutine between two awaits; `Generate`,
`EndGeneration` and `Raise` the thread, which goes on when the client has left
(`Leave`). A stop string is a string: `Encode` says which tokens it is made of when
it is encoded alone, which is all that the Hugging Face backend ever looks for, at
the end of what has been generated (`StopIds`). The same text in other tokens does
not end the answer, and the tokens of a stop string that does are part of it. vLLM
is given the strings, finds them in the text, wherever its tokens begin and end, and
hands out nothing of one (`StopAtText`); when it does is its own affair.

## 3. The runs

| Run | Instance | Shows |
|---|---|---|
| `lattice_restarts` | 2 nodes, 1 restart, 1 loss, time 0..4, up to 4 blocks | types, authenticity, one proposal per epoch, groundedness, own chains linked, no fork without a restart, nodes at rest that differ in no more blocks than copies were lost, refinement of `ReplicatedLattice` |
| `lattice_liveness` | 2 nodes, time 0..3, fair | blocks spread, rounds end |
| `election_rounding` | 2 nodes, scores 1..3, 4 evaluations, 2-bit floats | a gap larger than the rounding decides alike at all nodes |
| `checkpoint_saves` | 3 ranks, 3 steps, 1 restart, fair | types, sentinels are written into whole checkpoints, some checkpoint survives, saves end |
| `trust_rounds` | the node and a peer, 3 runs, 2 of them cut off anywhere, both modes, fair | types and the range of trust, tokens of the run itself, trust drawn anew only after a run without a result, trust in peers that only fades, the order of trust, publishing again |
| `training_job` | 2 ranks, both wrappers with and without the switch, windows of 1 and 2, shards of 1 to 3 batches, up to 3 epochs and 3 steps, at most one bad micro-batch, a queue of 1, 1 error of the store, fair | same collectives, whole windows, saves advance, order and counting of the log, a complete finish, all ranks return and rank 0 gets through the join of `finish` |
| `inference` | 2 layers, 6 set-ups, 2 requests of batches of 1 or 2 and 1 to 3 tokens, window 1, 3 static rows, 1 exception, 2 drafts | layers read the whole context; speculation keeps it until a draft is rejected |
| `serving` | 2 clients at a replica for 1, both backends, streams and whole answers, a vocabulary of `a`, `aa` and the end token, up to 3 tokens, the stop string `aa` whose own tokens are `a`, `a`, 1 exception, 1 client that leaves, fair | whole answers, one generation at a time, all are served |
| `token_cache` | 6 choices, two of them with another path, 3 commands cut off anywhere, 5 or 3 rows in batches of 2 | loads are of paths that were given, loads are whole, nothing is there twice |
| `model_setup` | 4 architectures, every configuration, layers found or named | dtypes, experts, routers, an adapter on every projection (not that it trains: see `doc_router_freeze`) |
| `doc_base_lora`, `doc_router_freeze` | as `trust_rounds`, `model_setup` | findings, below |

### Bounds and why they are enough

* `EpochDuration` 2 and `SyncWindow` 1 keep the order of the real times
  (0 < 45 s < 600 s); training may take any time, more than an epoch included.
* `MaxTime` 4 allows two epochs and the beginning of a third, with a restart
  exactly on a boundary, between two, and in the middle of a round. `MaxBlocks`
  is a constraint on all blocks together; 4 let both nodes finish a round with
  an evaluation or one of them go on into the next one.
* `ChannelCap` 1 instead of 100: every broadcast of a batch of two blocks blocks.
* `FullCount` 2 of 2 nodes stands for 6, `CommitteeSize` 1 for 4: both ways out
  of the barrier, and a committee smaller than the set of candidates, occur.
* `MaxRestarts`, `MaxLosses` 1: the second one adds nothing a first one at
  another moment does not do, and the proofs have no bound.
* `PruneKeep` 2 and `KeepLastN` 2 (3 in the code) with 3 steps: both prunings
  remove something. Every epoch takes one step and is saved.
* `Pull` is {1, 25} and `Drawn` the two ends of the range: the weakest and the
  strongest revision, from where a step too far is seen at once. Three runs give
  one that is cut off while it writes, one that finds the ruins and is cut off
  too, and one that has to publish. An error in `Truncate` that tears a file counts
  as a cut. Deadlock is not checked in this instance
  because it stops after `MaxRuns`.
* `training_job`: a shard of 3 batches with windows of 2 ends inside a window,
  one of 1 batch has an epoch without a step; with 3 epochs a window that was
  dropped is followed by one that is not. A job with a worker is checked in one
  configuration only, because the ranks and the worker do not meet but in the
  queue; `JobIsALoop` proves that. A queue of 1 is full as soon as the worker is
  one batch behind. `MaxLogs` is never reached.
* `inference`: 3 rows and requests of up to 3 + 2 tokens reach the end of the
  static cache, a window of 1 evicts from the second token on; two requests, as
  one finds only what the one before has left.
* `serving`: two clients for one place; the tokens of the stop string may begin in
  the prompt, end with the last of three tokens or before it, and its text may come
  as the single token `aa`. Only one client gives the string.
* `token_cache`: a batch without words, one with, and one that is not full; a path
  with more batches than the one that follows it;
  three commands: one that is cut off, one that finds that, and one that
  overwrites or finds both.
* `model_setup`: a dense model, a mixture of experts, one in float32 with dense and
  sparse layers and shared experts, and one whose experts only its configuration
  file tells of.
* When the clock is at `MaxTime`, or training, serving or the commands are over,
  the system stutters (`TimeUp`, `Over`, `JobOver`, `Quiet`, `EngineOver`,
  `CacheOver`, `SetUp`), so that deadlock stays checked everywhere else.

### Fairness

`lattice_liveness`: the tasks of a tokio runtime are scheduled, time passes,
training ends (the code awaits it without a timeout, so it has to be assumed),
and a block that is in flight arrives. There are no losses and no restarts:
nothing is sent twice, so with a loss `Propagation` is false by design.
`checkpoint_saves`: every rank that can take a step takes one, and a barrier that
all have reached opens. Nothing is assumed of restarts. `trust_rounds`: the node
starts the engine in every epoch and waits for it, and a process that runs goes
on (training ends); nothing is assumed of `Abort`. `training_job`: every rank is
a process that goes on, inside `log` and in `finish` as far as the join, which has
a timeout; a collective that all have come to ends. Nothing is assumed of what asks
the server: neither of the worker thread nor of `FinalUpload`. So the server may
never answer, and `JobEnds` says only what holds then: all ranks return from
training and rank 0 comes to those last calls, where the job may hang for good.
`serving`: Ray Serve hands out waiting requests, the event loop and the generation
threads run; nothing makes a client leave, a thread raise, or vLLM find a stop
string.

## 4. Findings

Each is a run that TLC must find violated, with the line it contradicts.

* `doc_base_lora`: a round does not build on the rounds before it
  (`RoundsBuildUp`), for two reasons. `ml_engine.py:534` loads the checkpoint into
  an empty dictionary, which stays empty: the delta that is published, and with it
  every aggregate, has no tensor of what was trained, in both modes; pretraining saves
  its base as it was loaded. And in finetuning the aggregate is written to
  `<id>_base_lora.pth` "as base for next epoch" (`:686`), a file that nothing reads:
  a round starts from the configured model. What follows for trust is
  `TrustOnlyFades`, which holds: whatever node and peers train, trust in a peer moves
  by nothing but the decay, from the random value it was given.
* `doc_router_freeze`: routers are found by their place in the tree, and keywords
  are said to be a fallback (`Bhaskera/ARCHITECTURE.md:289`). They always apply,
  and the adapters of every `gate_proj`, which introspection takes care to
  target, are frozen because of their name.

Noted without a run:

* the node: the sync barrier counts authors ever heard of, not submissions of
  the round (`main.rs:349`), so from the second round on it is no barrier; an
  evaluation names the target's latest proposal, which may be later than the
  delta that was compared (`main.rs:266`); `README.md:72` calls RocksDB the
  persistence layer for lattice blocks, but no block is ever stored;
  `README.md:310` says that trust excludes a node from the committee, but there is
  no threshold, and with at most four evaluated nodes all are elected;
* the engine: the data is tokenized in every round, not once
  (`ml_engine.py:376`), because the cache is cleared before; training that saves
  nothing ends well, and the round goes on with an older checkpoint
  (`ml_engine.py:526`); a base directory that is cut off while it is written is
  never repaired;
* checkpoints: a restarted job begins at step 0, whatever was saved
  (`RunsStartFromZero`); the numbers of the earlier run are then higher, and the
  checkpoint just written is the one that is pruned (`distributed/checkpoint.py:95`);
  every rank sweeps `.tmp` as if it were rank 0 (`:139`), so in a first save a
  slower rank can remove what rank 0 has just made; killed in the middle of
  `rmtree`, pruning or replacing leaves a sentinel without some shard (`:124` says
  the sentinel excludes that); pruning by step runs first and removes the best
  checkpoint by loss (`Bhaskera/ARCHITECTURE.md:340`);
* loggers: a batch that meets an error of the store is lost, although the queue is
  said to absorb the gap (`utils/loggers/mlflow_logger.py:329`), and its only trace
  is a debug line; `finish` ends with two calls to the server without a timeout
  (`:313-317`), which rank 0 makes itself;
  `mlflow_log_all_ranks` has no effect, as other ranks never get the logger (`:39`);
* caches: `get_seq_length` stays 0 under `generate()`, which never advances, and
  the static cache then returns only the tokens of the pass
  (`inference/kv_cache.py:149`); a request of another batch size raises once the
  turboquant cache has evicted something, and the static cache refuses batches
  other than 1 and the configured one; the target's cache keeps rejected drafts
  (`inference/speculative.py:16`), tokens after the end of a sequence are kept,
  and requests that ask for greedy decoding are sampled;
* serving: a client that leaves leaves its thread running (`serve/engine.py:211`);
  a stop string is missed by the Hugging Face backend where the text comes in other
  tokens, and kept in the answer where it is found, while vLLM cuts it off
  (`serve/engine.py:171-178`, `:284-299`);
  an exception in a thread leaves its request waiting for good; an error of vLLM
  in a stream, and `max_tokens`, both end with the finish reason `stop`;
* token cache: a command killed in the middle of `write_parquet` leaves files that
  the next one adds its own to, so rows are there twice (`data/tokenize.py:168`); an
  interrupted removal can leave the metadata with some of the files, which is
  found again as if whole; a command with another source path hits the cache of the
  first (`data/tokenize.py:50`), which is why `LoadsOnlyGiven` promises a path that
  was given, and not the last one; two
  commands at once are not modelled;
* model setup: a `shared_expert_gate` counts as an expert module;
  `include_experts` has no effect with targets `auto`.

## 5. The proofs

`LatticeNodeProofs`, for any finite set of nodes and any bounds:

* `InductiveInvariant`: `Spec => []IInv`. `Authentic` is not inductive: it needs
  to know that a block in a channel or in flight is recorded by its author or
  unsealed (`TransitInv`), which needs that the batch being broadcast has been
  recorded up to its position (`RoundInv`), which needs what a batch is
  (`BatchInv`). `OneProposalPerEpoch` needs that nothing recorded is stamped
  with the future (`AuthoredInv`: a restart waits for a boundary strictly after
  now) and that before the batch is recorded the epoch has no proposal
  (`RoundInv`). `EvaluationsGrounded` is part of `AuthoredInv`, and holds in the
  batch already because `Authentic` says that the proposal found in the lattice
  was recorded by its target.
* `TypeCorrect`, `AuthenticBlocks`, `SingleProposal`, `GroundedEvaluations`:
  the properties, from the invariant.
* `LinkInvariant`: `LinkInv` on top of `IInv`. While a batch is built, appended
  and broadcast it stays linked to the block it was started from, because only
  the node itself appends to its own chain (`Continues`); hashes of distinct
  blocks differ, so no two blocks of an author name the same predecessor
  (`Apart`); and a block waits in the batch, is in the channel, or has left and
  reached each node at most once (`Once`). `OwnChains` and `NoForks` are the two
  properties, from the invariant.
* `Agreement`: `AgreeButForLosses`, from `Arriving`: as long as nobody was
  restarted, a block is kept by its author until it has been sent to the others, and
  then travels to a node, has reached it, or is a gap; only `Publish` makes gaps, as
  many as it counts losses. What is missing at a node when nothing is under way is a
  gap (`MissingIsGap`). It speaks of the blocks alone: nodes with the same blocks need
  not elect the same committee, since the sums are rounded in orders of their own,
  and how far they agree is what `CommitteeElectionProofs` is about.
* `Implements`: under `issued <- authored, view <- View`, `AppendOwn` is `Issue`
  (or a stutter for an unsealed block), `Receive` is `Learn` (or a stutter),
  `Restart` is `Forget`, and everything else stutters.

`CommitteeElectionProofs`, for any nodes, precision, scores and number of evaluations:

* `InductiveInvariant`: after `n` additions whose exact sum is `x`, the rounded sum
  is within `(n - 1) * Ulp(2x) / 2` of `x` (`Sums`). The unit in the bound is that of
  `2x`, so a rounded sum must not outgrow `2x`. One rounding alone could double it;
  what prevents that is that a number once rounded is never rounded below
  (`RoundSteady`), hence no addition rounds up by more than the score it adds
  (`AddRounds`). `Ulp` is a power of two: that they grow, and divide each other, is
  derived from the numbers of subsets of a set (`SubsetsDouble`, `PowerDivides`).
* `LeadsDecide`: `GapDecides`, in whatever order the scores are added; and
  `CommitteeIsExact`: where every two targets are that far apart, the committee is
  the one that exact sums would elect.

`CheckpointProofs`, for any finite set of ranks and any bounds:

* `RunsStartFromZero`: the trainer's `maybe_resume` returns 0 in every state.
* `InductiveInvariant`: the ranks are always between the same two barriers
  (`Together`), which is what nameless barriers could break; from it follow that
  all save the same step (`SameStep`) and where the shards are (`Shards`).
* `TypeCorrect`, `CommitsAreWhole`: types, and `Spec => CommitWhole`.
* `CheckpointsSurvive`: `SomeCheckpointSurvives`, if `PruneKeep >= 2`; with 1 it
  is false, as TLC shows at once (age leaves only the last checkpoint and the
  ranking by loss may remove that one). `KeepInv` says that nothing is on disk
  beyond the step of rank 0, that there is an earlier whole checkpoint during a
  save and two after it, and that `best_ckpts` has been cut: then the cut drops at
  most one entry (`OneDropped`), and pruning by age spares the step just saved and
  the latest before it.
* `SavesNeverStick`: `NoneWaitsForGood`. While a rank is in a save and none has
  failed, either all ranks are in a barrier, which then opens, or one that is not
  can take a step: between two barriers the others only wait for ranks that still
  have work (`Phases`), `Root` always finds a file to remove next (`SomeIsNext`,
  `AlwaysRemovable`), and a rank still in its epoch has not come to the last one
  (`SameStep`). It assumes that there is some loss to report (`Loss # {}`), as
  every epoch ends with one.

`TrustEngineProofs`, for any set of nodes, any range of trust from 1.225 up, any
initial values in it, and any number of runs and of runs cut off:

* `RevisedInRange`, `RevisedMonotone`: one revision keeps trust in its range (at
  1.225 the decay takes 0.025, the most a similarity can add) and is monotone.
* `InductiveInvariant`: whose the tokens are at each point of a run
  (`TokensOfRun`); that no delta has a parameter, hence no peer a similarity
  (`NothingLearned`); and who has an `alpha` that is remembered, in the file or in
  memory. `DrawnOncePerLoss` is not inductive: it says nothing of a run in progress,
  while `DrawsAccounted` gives every draw a place, the memory of that `alpha` or a run
  that ended without a result.
* `TypeCorrect`, `FreshTokens`, `DrawsBounded`, `PeersFade`, `OrderKept`: the properties,
  from the invariant and the two lemmas.

`TrainingJobProofs`, for any logging rank, any non-empty set of ranks and any set of
configurations of the loop, and any queue size, settings, number of calls and of
errors of the logger. First the logger on its own:

* `InductiveInvariant`: store, worker and queue are three stretches of one
  increasing sequence (`Order`), which the newest batch ends (`Newest`); what was
  logged and is in none of them is counted (`Count`); and what is left when the
  worker has gone (`Ending`).
* `TypeCorrect`, `Ordered`, `Counted`, `FinishedWhole`: the properties.

Then the ranks on their own:

* `LoopInvariant`: `LoopSpec => []LoopInv`. `SameCollective` speaks of ranks that
  wait and says nothing of those that still run. So `Stop(r)` is defined for every
  place in the loop: the collective rank `r` will come to next, with its epoch,
  batch, step, steps of the epoch and place in the window, as a function of the
  rank's own state alone. No step of a rank on its own changes `Stop`
  (`StopKept`), and `Lockstep` says that all ranks have the same; a collective
  takes all of them from one common point to the next. With it: what a rank has
  in its gradient at each place (`Gradient`), how far it is in its window
  (`Inside`), weights that are equal as soon as what is about to be applied is
  (`SameWeights`), and saves that lie behind the steps of the epoch (`Behind`).
* `RanksMeet`, `WindowsWhole`, `CheckpointsAdvance`: the properties.

And their composition:

* `JobIsALoop`: `JobSpec => LoopSpec`: a job with its logger implements the loop,
  since every step of it is one of the ranks' or leaves them alone. Hence
  `JobMeets`, `JobWindows`, `JobCheckpoints`.
* `JobInvariant`, and from it `JobOrder`, `JobCounted`, `JobFinished`: what the
  job does to the logger are steps of `MetricsPump`, in which `log` is given the
  rank's step. `JobTypes`: types.
* `JobNeverSticks`: `JobGoesOn`. Until all ranks have returned and rank 0 has come
  to the last calls of `finish`, some rank has a step of its own or all are in one
  collective, also if the worker thread never does anything. That those calls return
  is not claimed. Ranks that all wait are in the same collective, or have all returned (`SameCollective`, `SamePlace`);
  rank 0 can be held up by the logger only in `log` and `finish`, where the timeouts
  of `put` and `join` let it go on.

`InferenceEngineProofs`, for any number of layers, slots, window rows and requests,
and for any lookahead and batch:

* `LayersReadTheWholeContext`. That an attention read the whole context says
  nothing of the rows it leaves behind, so `LayersTrack` describes a forward pass
  in progress: the layers already behind hold the context and this pass, those
  still to come hold the context alone, quantized rows and window together being
  one sequence (`HeldQuantized`, with the window exactly as long as it can be).
  `UpdateHolds` is one update of one layer; the sequence algebra of cutting the
  window is `Cut`. Nothing is claimed of a cache between two requests, since an
  exception may leave the layers unlike each other: that is what `reset()` is for.
* `SpeculationIsLosslessUntilRejection`: per item, what the target model has been
  fed with, followed by the input it is given next, is the text; a round in which
  all drafts are accepted appends to both what `OutcomeShape` says.

`ServingProofs`, for any finite set of clients, any vocabulary and stop sequences,
any errors and departures:

* `InductiveInvariant` (where a request is, what its thread does and what is in its
  streamer agree; requests in progress are within the cap), and `OneGeneration`,
  from an injection of the threads of clients who stay into the requests in
  progress.
* `WholeAnswers`, from `AnswerInv`: at every moment there is a number `g` such that
  the client was given the first `g` tokens of the text and the streamer (on vLLM
  the text beyond `prev_len`) holds the rest. For vLLM that is all it says; for
  Hugging Face also where the text ends, in terms of `Encode`, whatever it is. The visible parts of the pieces are
  the visible part of the whole (`VisibleTogether`) because the token that ends a
  sequence can only be the last of a text (`TextEnds`), so a piece is cut short
  only at the end. `EndsWhereWanted` turns the stop test, made on the text so far,
  into what `AnswersWhole` asks of the finished text.
* `RequestsNeverStick`: `NoneWaitsInVain`. A request that counts against the cap can
  always go on by itself or by its own thread; what makes it true is that a thread
  that is over has left its stop signal in the streamer (`SignalWaits`, from
  `AnswerInv`). The exception is spelled out: an hf thread that raised leaves its
  reader waiting. So what is in the queue waits only for requests that can go on.

`JobPreparationProofs`, about what a job has before its first step. Its dataset, for
any commands, data and number of commands: `CacheInvariant` (what a directory holds
while a command works on it, at rest, and after each kind of interruption),
`CacheTypes`, `LoadsAreGiven`, `LoadsAreWhole`, `TokenizedOnce`. Its model, for any
models and configurations:

* `SetupInvariant`: the properties speak of the last stage, the invariant of every
  one. Until the cast all adapters are float32 and train, which is why casting what
  trains casts them all (`Dtypes`); what was adapted stays what has an adapter
  (`Adapters`); and a parameter belongs to the innermost of the modules sharded so
  far that are around it, because inner modules are sharded first (`Owned`,
  `Claimed`). `Sharded` is one call of `fully_shard`; that the module it chooses is
  the only one follows from names: two modules around a third are one inside the
  other (`PrefixesCompare`).
* `DtypesAgree`, `ExpertsAlone`, `NoRouterTrains`, `ProjectionsReached`: the four
  properties. Each of the last three needs of the models what the code takes for
  granted, and `ModelSetup` states: no expert inside an expert and no layer inside a
  layer, be it found or named in the configuration (`NestingAssumption`); a
  router has its place or a known name (`RouterAssumption`, without which the conclusion
  is false); the layers have the linear modules of the first, by their last names,
  and only routers are called so (`LikenessAssumption`: introspection looks at the
  first layer alone).

The assumptions are the named `ASSUME`s of the modules: finite sets, positive
durations with the window shorter than the epoch, capacities of at least one,
distinct ranks of addresses, scores that are floats themselves, at least one rank,
an end signal that is no token, a dummy that is no parameter.
TLC evaluates them in every run.

Every invariant and action property of the runs is proved. Only model-checked is
liveness (`Propagation`, `Republishes`, `RoundsEnd`, `SavesEnd`, `JobEnds`,
`AllServed`), because the prover has no rules for fairness over these actions. Of
three of them the half that is about states is proved for every instance: no save
(`SavesNeverStick`), no job (`JobNeverSticks`) and no request (`RequestsNeverStick`)
comes, but for the exceptions named above, to a state from which it cannot go on. `ENABLED` is out of the prover's reach
too, so the three say "can take a step" by the guards of the actions, written out
(`CanGoOn`, `CanHandle`, `CanDispatch`); that what can go on does so in the end, and
that this comes to an end, is what only the runs show.

Where a step has a pragma (`SMTT(30)`, `ZenonT(60)`), it only allows a prover more
time than it usually needs, so that the proofs are checked on a slow machine too.

## 6. Not modelled, and what could come next

* The engines of several nodes over the lattice: `TrustEngine` of each node
  composed with what `LatticeNode` stages. Both are checked with an environment
  that is free to do what the other one does; as long as every delta is empty or a
  dummy, the two together would show nothing more.
* The list of peers of the mesh (`active_peers`), which only the HTTP API reads,
  and the star network, which nothing constructs.
* The vLLM cache patch (`inference/vllm_turboquant.py`) and the codebooks: what the
  patch does depends on vLLM's own control flow, which is not in the repository.
* Optimizers, precision, sampling filters, formats, statistics and dashboards: pure
  functions and observation, which no decision of the program reads.
* Ray's start-up and health checks, the gateway in front of the replicas, and the
  scripts around the system.
