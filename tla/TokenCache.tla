----------------------------- MODULE TokenCache -----------------------------
(***************************************************************************)
(* The tokenized dataset of Bhaskera: bhaskera-tokenize (launcher/         *)
(* tokenize.py), which renders and tokenizes the splits of a dataset into  *)
(* one directory of Parquet files per cache key (data/tokenize.py), and    *)
(* the training job that loads such a directory.                           *)
(*                                                                         *)
(* One command runs at a time; it may die at any moment, and what it has   *)
(* on disk stays.  Ray Data is external: it writes the files of a dataset  *)
(* one by one, in any order, under names no other call of write_parquet    *)
(* uses.  A row is the number of words and of chat turns it has.           *)
(***************************************************************************)
EXTENDS Naturals, Sequences, FiniteSets

CONSTANTS Commands,  \* configurations and arguments of a command, see Choice
          Paths,     \* what data.train_path and val_path may be
          NoPath,    \* a path that is not set
          Hub,       \* the dataset that is not local
          Source,    \* the rows there are at a path, and on the hub
          SeqLen,    \* data.seq_len
          BatchSize, \* data.tokenize_batch_size
          MaxRuns    \* bound: commands started

Row == [words : Nat, turns : Nat]
Formats == {"none", "chatml", "alpaca"}
Sources == Paths \cup {Hub}
(* paths are data.train_path and data.val_path, or what --train-path and    *)
(* --val-path put in their place.                                           *)
Choice == [dataset : {"local", "hub"}, split : {"", "none", "train", "val", "both"},
           format : Formats, overwrite : BOOLEAN,
           paths : [{"train", "val"} -> Paths \cup {NoPath}]]

ASSUME CacheAssumption ==
    /\ Commands \subseteq Choice
    /\ Source \in [Sources -> Seq(Row)]
    /\ SeqLen \in Nat \ {0} /\ BatchSize \in Nat \ {0} /\ MaxRuns \in Nat

VARIABLES pc,       \* where the command is
          choice,   \* its configuration and arguments
          splits,   \* splits it has still to do, the present one first
          runs,     \* commands started so far
          files,    \* Parquet files in a cache directory
          meta,     \* its metadata.json: "none", "torn" or "whole"
          reported, \* directories persist_tokenized has returned, each with
                    \* what it was returned for, unless a command has begun
                    \* to remove it since
          given,    \* history: the paths that commands gave for the same
                    \* dataset, split and format since the last removal
          cut, rest,\* history: directories in which a removal, or a write,
                    \* was interrupted and that were not removed since
          loaded    \* what the last training job has loaded
history == <<given, cut, rest>>
cacheVars == <<pc, choice, splits, runs, files, meta, reported, history, loaded>>
disk == <<files, meta>>
-----------------------------------------------------------------------------
(* The cache key: the persisted name of the dataset and split, and the      *)
(* format, which are hashed (with model and length, here constant).  The    *)
(* path that the rows are read from is not part of it.                      *)
Splits == {"", "train", "val"}
Key == [dataset : {"local", "hub"}, split : Splits, format : Formats]
(* Faulty variant: the name lacks the split.                                *)
KeyOfNoSplit(c, s) == [dataset |-> c.dataset, split |-> "", format |-> c.format]
KeyOf(c, s) == [dataset |-> c.dataset, split |-> s, format |-> c.format]

(* _resolve_splits: only the local dataset has splits. *)
SplitsOf(c) ==
    CASE c.split = "none" \/ c.dataset # "local" -> <<"">>
      [] c.split = "both" -> <<"train", "val">>
      [] c.split = "val"  -> <<"val">>
      [] OTHER            -> <<"train">>

(* call_raw_builder and _path_for_split: no split means the training data.  *)
DataOf(s) == IF s = "val" THEN "val" ELSE "train"
MadeFrom(c, s) == IF c.dataset = "local" THEN c.paths[DataOf(s)] ELSE Hub
Builds(c, s) == MadeFrom(c, s) # NoPath

(* Renderers: a chat without turns is the empty string, the prose template  *)
(* of alpaca (three words here) never is.                                   *)
Rendered(row, format) == CASE format = "none"   -> row.words
                           [] format = "chatml" -> IF row.turns = 0 THEN 0
                                                   ELSE row.turns + row.words
                           [] format = "alpaca" -> row.words + 3

(* TokenizerActor: rows are cut at SeqLen and padded; a label counts only   *)
(* where there is a token.  Empty rows are left out, and a batch in which   *)
(* nothing is left becomes one row without tokens (row 0).                  *)
Cut(n) == IF n > SeqLen THEN SeqLen ELSE n
Tokenized(batch) ==
    LET kept == {i \in DOMAIN batch : batch[i] > 0}
    IN  IF kept = {} THEN {[row |-> 0, labels |-> 0]}
        ELSE {[row |-> i, labels |-> Cut(batch[i])] : i \in kept}

(* What the rows of a file are: those of a source, in a format. *)
Data == [source : Sources, format : Formats]
DataFor(c, s) == [source |-> MadeFrom(c, s), format |-> c.format]
RowsOf(d) == Source[d.source]
Batches(d) == (Len(RowsOf(d)) + BatchSize - 1) \div BatchSize
Batch(d, b) == LET first == (b - 1) * BatchSize
                   size == {i \in 1 .. BatchSize : first + i <= Len(RowsOf(d))}
               IN  [i \in size |-> Rendered(RowsOf(d)[first + i], d.format)]

(* A file: the command that wrote it, what its rows are, and the batch.     *)
File == [run : Nat, data : Data, batch : Nat]
Wanted(n, c, s) == {[run |-> n, data |-> DataFor(c, s), batch |-> b] :
                      b \in 1 .. Batches(DataFor(c, s))}
-----------------------------------------------------------------------------
CacheInit ==
    /\ pc = "idle"
    /\ choice \in Commands
    /\ splits = <<>>
    /\ runs = 0
    /\ files = [k \in Key |-> {}]
    /\ meta = [k \in Key |-> "none"]
    /\ reported = {} /\ cut = {} /\ rest = {}
    /\ given = [k \in Key |-> {}]
    /\ loaded = [files |-> {}, format |-> "none", given |-> {}, doubtful |-> FALSE]

Now == KeyOf(choice, Head(splits))
(* What is asked for, its path aside; and the path is given.                *)
Asked == [dataset |-> choice.dataset, split |-> Head(splits), format |-> choice.format]
Give == given' = [given EXCEPT ![Asked] = @ \cup {MadeFrom(choice, Head(splits))}]
Mine == Wanted(runs, choice, Head(splits))

Start(c) ==
    /\ pc = "idle" /\ runs < MaxRuns
    /\ choice' = c
    /\ runs' = runs + 1
    /\ splits' = SplitsOf(c)
    /\ pc' = "look"
    /\ UNCHANGED <<disk, reported, history, loaded>>

(* _verify_cache: readable metadata of this key, and a Parquet file.        *)
Verified(k) == meta[k] = "whole" /\ files[k] # {}

(* persist_tokenized returns and the next split is due.                     *)
Returns(k) ==
    /\ reported' = reported \cup {[key |-> k, asked |-> Asked]}
    /\ splits' = Tail(splits)
    /\ pc' = IF Len(splits) = 1 THEN "idle" ELSE "look"

Hit ==
    /\ pc = "look"
    /\ Builds(choice, Head(splits))
    /\ Verified(Now) /\ ~choice.overwrite
    /\ Returns(Now) /\ Give
    /\ UNCHANGED <<choice, runs, disk, cut, rest, loaded>>

(* Faulty variant: an overwrite that leaves the old files where they are.   *)
BeginRemovalNot ==
    /\ pc = "look"
    /\ Builds(choice, Head(splits))
    /\ choice.overwrite
    /\ reported' = {p \in reported : p.key # Now} /\ Give
    /\ pc' = "write"
    /\ UNCHANGED <<choice, splits, runs, disk, cut, rest, loaded>>

(* overwrite_cache: shutil.rmtree, entry by entry in the order of the       *)
(* directory.                                                               *)
BeginRemoval ==
    /\ pc = "look"
    /\ Builds(choice, Head(splits))
    /\ choice.overwrite
    /\ reported' = {p \in reported : p.key # Now} /\ Give
    /\ pc' = "remove"
    /\ UNCHANGED <<choice, splits, runs, disk, cut, rest, loaded>>

RemoveEntry ==
    /\ pc = "remove"
    /\ \/ \E f \in files[Now] : /\ files' = [files EXCEPT ![Now] = @ \ {f}]
                                /\ UNCHANGED meta
       \/ /\ meta[Now] # "none"
          /\ meta' = [meta EXCEPT ![Now] = "none"]
          /\ UNCHANGED files
    /\ UNCHANGED <<pc, choice, splits, runs, reported, history, loaded>>

Removed ==
    /\ pc = "remove"
    /\ files[Now] = {} /\ meta[Now] = "none"
    /\ cut' = cut \ {Now} /\ rest' = rest \ {Now}
    /\ given' = [given EXCEPT ![Asked] = {MadeFrom(choice, Head(splits))}]
    /\ pc' = "write"
    /\ UNCHANGED <<choice, splits, runs, disk, reported, loaded>>

(* No cache: what the directory holds stays, the files are written beside.  *)
Miss ==
    /\ pc = "look"
    /\ Builds(choice, Head(splits))
    /\ ~Verified(Now) /\ ~choice.overwrite
    /\ Give
    /\ pc' = "write"
    /\ UNCHANGED <<choice, splits, runs, disk, reported, cut, rest, loaded>>

WriteFile ==
    /\ pc = "write"
    /\ \E f \in Mine \ files[Now] : files' = [files EXCEPT ![Now] = @ \cup {f}]
    /\ UNCHANGED <<pc, choice, splits, runs, meta, reported, history, loaded>>

(* Faulty variant: the metadata is written while files are still missing.   *)
OpenMetadataEarly ==
    /\ pc = "write"
    /\ meta' = [meta EXCEPT ![Now] = "torn"]
    /\ pc' = "meta"
    /\ UNCHANGED <<choice, splits, runs, files, reported, history, loaded>>

(* _write_metadata: the file is opened, which empties it, and then written. *)
OpenMetadata ==
    /\ pc = "write"
    /\ Mine \subseteq files[Now]
    /\ meta' = [meta EXCEPT ![Now] = "torn"]
    /\ pc' = "meta"
    /\ UNCHANGED <<choice, splits, runs, files, reported, history, loaded>>

WriteMetadata ==
    /\ pc = "meta"
    /\ meta' = [meta EXCEPT ![Now] = "whole"]
    /\ Returns(Now)
    /\ UNCHANGED <<choice, runs, files, history, loaded>>

(* The command fails (a split without a path, a row that cannot be          *)
(* rendered, a full disk) or is killed.  Nothing is cleaned up.             *)
Die ==
    /\ pc # "idle"
    /\ cut' = IF pc = "remove" THEN cut \cup {Now} ELSE cut
    /\ rest' = IF pc \in {"write", "meta"} THEN rest \cup {Now} ELSE rest
    /\ splits' = <<>>
    /\ pc' = "idle"
    /\ UNCHANGED <<choice, runs, disk, reported, given, loaded>>

(* A job with data.tokenized_path set to a path a command has printed:      *)
(* load_tokenized reads every Parquet file there and looks at nothing else. *)
Load(p) ==
    /\ files[p.key] # {}
    /\ loaded' = [files |-> files[p.key], format |-> p.asked.format,
                  given |-> given[p.asked], doubtful |-> p.key \in cut]
    /\ UNCHANGED <<pc, choice, splits, runs, disk, reported, history>>

CacheOver == pc = "idle" /\ runs = MaxRuns /\ UNCHANGED cacheVars
CacheStep == \/ Hit \/ BeginRemoval \/ RemoveEntry \/ Removed \/ Miss
             \/ WriteFile \/ OpenMetadata \/ WriteMetadata
CacheNext == \/ \E c \in Commands : Start(c)
             \/ CacheStep \/ Die
             \/ \E p \in reported : Load(p)
             \/ CacheOver

CacheSpec == CacheInit /\ [][CacheNext]_cacheVars
-----------------------------------------------------------------------------
CacheTypeOK ==
    /\ pc \in {"idle", "look", "remove", "write", "meta"}
    /\ choice \in Commands
    /\ splits \in Seq(Splits) /\ (pc # "idle" => Len(splits) > 0)
    /\ runs \in 0 .. MaxRuns
    /\ files \in [Key -> SUBSET File]
    /\ meta \in [Key -> {"none", "torn", "whole"}]
    /\ reported \subseteq [key : Key, asked : Key]
    /\ given \in [Key -> SUBSET Sources]
    /\ cut \subseteq Key /\ rest \subseteq Key

(* Where the rows of a job may come from.  The path is not in the key       *)
(* (tokenize.py:43), so that a job may get the rows of another path than    *)
(* the last one given, or of two; but only of paths that were given for     *)
(* this dataset, split and format since the directory was last removed      *)
(* (--overwrite), and never another split's, or ones in another format.     *)
LoadsOnlyGiven ==
    \A f \in loaded.files : f.data.format = loaded.format /\ f.data.source \in loaded.given

(* A training job that loads a directory a command has printed gets every   *)
(* row with words of a path given for it (of the path, if it was always the *)
(* same), whatever commands died before, unless one died while it removed   *)
(* this very directory: metadata.json is the last thing written, and it is  *)
(* gone, or unreadable, until the files of one command are complete.        *)
Rows(F) == UNION {{[data |-> f.data, batch |-> f.batch, row |-> r.row] :
                     r \in Tokenized(Batch(f.data, f.batch))} : f \in F}
AllRows(F, d) ==
    \A b \in 1 .. Batches(d) : \A i \in DOMAIN Batch(d, b) :
        Batch(d, b)[i] > 0 => [data |-> d, batch |-> b, row |-> i] \in Rows(F)
LoadsWhole ==
    loaded.files # {} /\ ~loaded.doubtful =>
        \E s \in loaded.given :
            AllRows(loaded.files, [source |-> s, format |-> loaded.format])

(* tokenize.py:168: the dataset is tokenized once.  A verified cache holds  *)
(* the files of one command only, unless a write in it was interrupted:     *)
(* the next command writes its own files beside what it finds.              *)
CacheOnce ==
    \A k \in Key \ (cut \cup rest) :
        Verified(k) /\ ~(pc = "remove" /\ k = Now) =>
            \A f, g \in files[k] : f.run = g.run
=============================================================================
