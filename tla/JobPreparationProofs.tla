------------------------ MODULE JobPreparationProofs ------------------------
(***************************************************************************)
(* Proofs about what a training job has before its first step: its dataset *)
(* (TokenCache), for all choices, data, batch sizes and numbers of         *)
(* commands, and its model (ModelSetup), for all models and configurations.*)
(***************************************************************************)
EXTENDS TokenCache, ModelSetup, SequenceTheorems, WellFoundedInduction, TLAPS
-----------------------------------------------------------------------------
(* The tokenized dataset. *)

FileOf(n, d, b) == [run |-> n, data |-> d, batch |-> b]
Complete(F, d) == \E n \in Nat : \A b \in 1 .. Batches(d) : FileOf(n, d, b) \in F
Whole(F, S, format) == \E s \in S : Complete(F, [source |-> s, format |-> format])
Foreign(f, S, format) == f.data.format # format \/ f.data.source \notin S
At(S, k) == pc \in S /\ k = Now

(* A directory is reported for what its key says, holds rows of the paths   *)
(* given for that, and the command at work has given its own.               *)
Sourced ==
    /\ \A p \in reported : p.key = p.asked
    /\ \A k \in Key : \A f \in files[k] : ~Foreign(f, given[k], k.format)
    /\ pc \in {"remove", "write", "meta"} => MadeFrom(choice, Head(splits)) \in given[Now]

(* A directory with readable metadata, and one that was reported, has all   *)
(* files of some command, unless a removal in it was interrupted.           *)
Reported(k) == \E p \in reported : p.key = k
Wholeness ==
    /\ \A k \in Key \ cut : /\ Reported(k) \/ meta[k] = "whole"
                            /\ ~At({"remove"}, k)
                            => Whole(files[k], given[k], k.format)
    /\ pc = "remove" => ~Reported(Now)
    /\ pc = "meta" => Mine \subseteq files[Now]

(* A directory in which nothing was interrupted: at rest it is empty or has *)
(* readable metadata and the files of one command; at work it has files of  *)
(* the command at work.                                                     *)
OneRun(F) == \A f, g \in F : f.run = g.run
Tidiness ==
    \A k \in Key \ (cut \cup rest) :
        /\ ~At({"remove", "write", "meta"}, k) =>
              /\ files[k] = {} \/ meta[k] = "whole"
              /\ OneRun(files[k])
        /\ At({"write", "meta"}, k) => files[k] \subseteq Mine

(* What the last job has loaded. *)
Loading ==
    /\ \A f \in loaded.files : ~Foreign(f, loaded.given, loaded.format)
    /\ loaded.files # {} /\ ~loaded.doubtful =>
          Whole(loaded.files, loaded.given, loaded.format)

CacheInv == CacheTypeOK /\ Sourced /\ Wholeness /\ Tidiness /\ Loading
-----------------------------------------------------------------------------
(* The key a command works on is a key. *)
LEMMA NowInKey ==
    ASSUME CacheTypeOK, pc # "idle"
    PROVE  Now \in Key /\ Head(splits) \in Splits
<1>1. Head(splits) \in Splits
  BY HeadTailProperties, EmptySeq DEF CacheTypeOK
<1>2. choice \in Choice
  BY CacheAssumption DEF CacheTypeOK
<1> QED
  BY <1>1, <1>2 DEF Now, KeyOf, Key, Choice, Splits

LEMMA AskedIsNow == Asked = Now
  BY DEF Asked, Now, KeyOf

(* The files a command writes are those of its path and format. *)
Making == DataFor(choice, Head(splits))
LEMMA MineIs == Mine = {FileOf(runs, Making, b) : b \in 1 .. Batches(Making)}
  BY DEF Mine, Wanted, Making, FileOf
LEMMA MakingIs ==
    ASSUME CacheTypeOK, pc # "idle"
    PROVE  /\ Making = [source |-> MadeFrom(choice, Head(splits)), format |-> Now.format]
           /\ Now.format \in Formats
           /\ Builds(choice, Head(splits)) => MadeFrom(choice, Head(splits)) \in Sources
<1>1. choice \in Choice /\ Head(splits) \in Splits
  BY NowInKey, CacheAssumption DEF CacheTypeOK
<1>2. choice.paths \in [{"train", "val"} -> Paths \cup {NoPath}] /\ choice.format \in Formats
  BY <1>1 DEF Choice
<1> QED
  BY <1>2 DEF Making, DataFor, Now, KeyOf, Builds, MadeFrom, DataOf, Sources

(* Giving a path adds it to what was given for the key. *)
LEMMA Gives ==
    ASSUME CacheTypeOK, pc # "idle", Give, Builds(choice, Head(splits))
    PROVE  /\ given' \in [Key -> SUBSET Sources]
           /\ MadeFrom(choice, Head(splits)) \in given'[Now]
           /\ \A k \in Key : given[k] \subseteq given'[k]
  BY NowInKey, AskedIsNow, MakingIs DEF Give, CacheTypeOK

(* A step that leaves the work of the command on its key as it is.          *)
AtRest == UNCHANGED <<choice, splits, runs>>
LEMMA SameWork == AtRest => Now' = Now /\ Mine' = Mine
  BY DEF AtRest, Now, Mine

(* The splits of a command. *)
LEMMA SplitsTyped ==
    ASSUME NEW c PROVE SplitsOf(c) \in Seq(Splits) /\ Len(SplitsOf(c)) > 0
<1> DEFINE Good(q) == q \in Seq(Splits) /\ Len(q) > 0
<1>1. Good(<<"">>)
  BY DEF Splits
<1>2. Good(<<"val">>)
  BY DEF Splits
<1>3. Good(<<"train">>)
  BY DEF Splits
<1>4. Good(<<"train", "val">>)
  BY DEF Splits
<1> HIDE DEF Good
<1>5. Good(SplitsOf(c))
  BY <1>1, <1>2, <1>3, <1>4 DEF SplitsOf
<1> QED
  BY <1>5 DEF Good

(* persist_tokenized returns: what is left of the splits. *)
LEMMA ReturnsTyped ==
    ASSUME CacheTypeOK, pc # "idle", NEW k \in Key, Returns(k)
    PROVE  /\ splits' \in Seq(Splits)
           /\ pc' \in {"idle", "look"} /\ (pc' # "idle" => Len(splits') > 0)
           /\ reported' = reported \cup {[key |-> k, asked |-> Now]}
           /\ reported' \subseteq [key : Key, asked : Key]
<1>1. splits \in Seq(Splits) /\ Len(splits) \in Nat /\ Len(splits) > 0
  BY DEF CacheTypeOK
<1>2. Tail(splits) \in Seq(Splits) /\ Len(Tail(splits)) = Len(splits) - 1
  BY <1>1, HeadTailProperties, EmptySeq
<1> QED
  BY <1>1, <1>2, AskedIsNow, NowInKey DEF Returns, CacheTypeOK

-----------------------------------------------------------------------------
LEMMA InitInv == CacheInit => CacheInv
<1> SUFFICES ASSUME CacheInit PROVE CacheInv
  OBVIOUS
<1>1. CacheTypeOK
  <2>1. splits \in Seq(Splits) /\ pc \in {"idle", "look", "remove", "write", "meta"}
    BY EmptySeq DEF CacheInit
  <2>2. runs \in 0 .. MaxRuns
    <3>1. MaxRuns \in Nat
      BY CacheAssumption
    <3>2. runs = 0
      BY DEF CacheInit
    <3> QED
      BY <3>1, <3>2
  <2>3. files \in [Key -> SUBSET File]
    BY DEF CacheInit
  <2>4. meta \in [Key -> {"none", "torn", "whole"}]
    BY DEF CacheInit
  <2> QED
    BY <2>1, <2>2, <2>3, <2>4 DEF CacheInit, CacheTypeOK
<1>2. Sourced
  BY DEF CacheInit, Sourced
<1>3. Wholeness
  BY DEF CacheInit, Wholeness, Reported
<1>4. Tidiness
  BY DEF CacheInit, Tidiness, At, OneRun
<1>5. Loading
  BY DEF CacheInit, Loading
<1> QED
  BY <1>1, <1>2, <1>3, <1>4, <1>5 DEF CacheInv

(* Types. *)
LEMMA TypedStep == CacheInv /\ [CacheNext]_cacheVars => CacheTypeOK'
<1> SUFFICES ASSUME CacheInv, [CacheNext]_cacheVars PROVE CacheTypeOK'
  OBVIOUS
<1>0. CacheTypeOK
  BY DEF CacheInv
<1>1. ASSUME NEW c \in Commands, Start(c) PROVE CacheTypeOK'
  BY <1>0, <1>1, SplitsTyped, CacheAssumption DEF Start, CacheTypeOK, disk, history
<1>2. CASE Hit
  BY <1>0, <1>2, NowInKey, ReturnsTyped, Gives DEF Hit, CacheTypeOK, disk
<1>3. CASE BeginRemoval
  BY <1>0, <1>3, Gives DEF BeginRemoval, CacheTypeOK, disk
<1>4. CASE RemoveEntry
  BY <1>0, <1>4 DEF RemoveEntry, CacheTypeOK, history
<1>5. CASE Removed
  <2>1. Now \in Key /\ MadeFrom(choice, Head(splits)) \in Sources
    BY <1>0, <1>5, NowInKey DEF Removed, CacheInv, Sourced, CacheTypeOK
  <2> QED
    BY <1>0, <1>5, <2>1, AskedIsNow DEF Removed, CacheTypeOK, disk
<1>6. CASE Miss
  BY <1>0, <1>6, Gives DEF Miss, CacheTypeOK, disk
<1>7. CASE WriteFile
  <2>1. Now \in Key
    BY <1>0, <1>7, NowInKey DEF WriteFile
  <2>2. Mine \subseteq File
    <3>1. Making \in Data
      BY <1>0, <1>7, <2>1, MakingIs DEF WriteFile, CacheInv, Sourced, CacheTypeOK, Data
    <3> QED
      BY <1>0, <3>1, MineIs DEF FileOf, File, CacheTypeOK
  <2> QED
    BY <1>0, <1>7, <2>1, <2>2 DEF WriteFile, CacheTypeOK, history
<1>8. CASE OpenMetadata
  BY <1>0, <1>8 DEF OpenMetadata, CacheTypeOK, history
<1>9. CASE WriteMetadata
  BY <1>0, <1>9, NowInKey, ReturnsTyped DEF WriteMetadata, CacheTypeOK, history
<1>10. CASE Die
  BY <1>0, <1>10, NowInKey, EmptySeq DEF Die, CacheTypeOK, disk
<1>11. ASSUME NEW p \in reported, Load(p) PROVE CacheTypeOK'
  BY <1>0, <1>11 DEF Load, CacheTypeOK, disk, history
<1>12. CASE UNCHANGED cacheVars
  BY <1>0, <1>12 DEF CacheTypeOK, cacheVars, disk, history
<1> QED
  BY <1>1, <1>2, <1>3, <1>4, <1>5, <1>6, <1>7, <1>8, <1>9, <1>10, <1>11, <1>12
     DEF CacheNext, CacheStep, CacheOver

(* What is in a directory, and what it is reported for. *)
LEMMA SourcedStep == CacheInv /\ [CacheNext]_cacheVars => Sourced'
<1> SUFFICES ASSUME CacheInv, [CacheNext]_cacheVars PROVE Sourced'
  OBVIOUS
<1>0. CacheTypeOK /\ Sourced
  BY DEF CacheInv
<1>1. ASSUME NEW c \in Commands, Start(c) PROVE Sourced'
  BY <1>0, <1>1 DEF Start, Sourced, Foreign, disk, history
<1>2. CASE Hit
  <2>1. Now \in Key /\ pc # "idle" /\ UNCHANGED files
    BY <1>0, <1>2, NowInKey DEF Hit, disk
  <2>2. pc' \in {"idle", "look"} /\ reported' = reported \cup {[key |-> Now, asked |-> Now]}
    BY <1>0, <1>2, <2>1, ReturnsTyped DEF Hit
  <2>3. \A k \in Key : given[k] \subseteq given'[k]
    BY <1>0, <1>2, <2>1, Gives DEF Hit
  <2> QED
    BY <1>0, <2>1, <2>2, <2>3 DEF Sourced, Foreign
<1>3. CASE BeginRemoval \/ Miss
  <2>1. Now' = Now /\ UNCHANGED <<files, choice, splits>> /\ reported' \subseteq reported
    BY <1>3, SameWork DEF BeginRemoval, Miss, AtRest, disk
  <2>2. /\ MadeFrom(choice, Head(splits)) \in given'[Now]
        /\ \A k \in Key : given[k] \subseteq given'[k]
    BY <1>0, <1>3, Gives DEF BeginRemoval, Miss
  <2> QED
    BY <1>0, <2>1, <2>2 DEF Sourced, Foreign
<1>4. CASE RemoveEntry
  <2>1. /\ Now' = Now /\ UNCHANGED <<pc, given, reported, choice, splits>>
        /\ \A k \in Key : files'[k] \subseteq files[k]
    BY <1>0, <1>4, SameWork DEF RemoveEntry, AtRest, CacheTypeOK, history
  <2> QED
    BY <1>0, <2>1 DEF Sourced
<1>5. CASE Removed
  <2>1. /\ Now' = Now /\ Now \in Key /\ files[Now] = {}
        /\ UNCHANGED <<files, reported, choice, splits>>
        /\ given' = [given EXCEPT ![Now] = {MadeFrom(choice, Head(splits))}]
    BY <1>0, <1>5, SameWork, NowInKey, AskedIsNow DEF Removed, AtRest, disk
  <2> QED
    BY <1>0, <2>1 DEF Sourced, CacheTypeOK
<1>6. CASE WriteFile
  <2>1. PICK f \in Mine \ files[Now] : files' = [files EXCEPT ![Now] = @ \cup {f}]
    BY <1>6 DEF WriteFile
  <2>2. Now \in Key /\ Now' = Now /\ UNCHANGED <<pc, given, reported, choice, splits>>
    BY <1>0, <1>6, NowInKey, SameWork DEF WriteFile, AtRest, history
  <2>3. ~Foreign(f, given[Now], Now.format)
    BY <1>0, <1>6, <2>1, MineIs, MakingIs DEF WriteFile, Sourced, FileOf, Foreign
  <2> QED
    BY <1>0, <2>1, <2>2, <2>3 DEF Sourced, CacheTypeOK
<1>7. CASE OpenMetadata
  BY <1>0, <1>7, SameWork DEF OpenMetadata, AtRest, Sourced, history
<1>8. CASE WriteMetadata
  <2>1. Now \in Key /\ pc # "idle" /\ UNCHANGED <<files, given>>
    BY <1>0, <1>8, NowInKey DEF WriteMetadata, history
  <2>2. pc' \in {"idle", "look"} /\ reported' = reported \cup {[key |-> Now, asked |-> Now]}
    BY <1>0, <1>8, <2>1, ReturnsTyped DEF WriteMetadata
  <2> QED
    BY <1>0, <2>1, <2>2 DEF Sourced
<1>9. CASE Die
  BY <1>0, <1>9 DEF Die, Sourced, disk
<1>10. CASE (\E p \in reported : Load(p)) \/ UNCHANGED cacheVars
  BY <1>0, <1>10, SameWork DEF Load, cacheVars, AtRest, Sourced, disk, history
<1> QED
  BY <1>1, <1>2, <1>3, <1>4, <1>5, <1>6, <1>7, <1>8, <1>9, <1>10
     DEF CacheNext, CacheStep, CacheOver

(* More files do not make a directory less complete, and a command that has *)
(* written all of its files has made one complete.                          *)
LEMMA Monotone ==
    ASSUME NEW F, NEW G, F \subseteq G, NEW S, NEW T, S \subseteq T, NEW format,
           Whole(F, S, format)
    PROVE  Whole(G, T, format)
  BY DEF Complete, Whole
LEMMA MineComplete ==
    ASSUME CacheTypeOK, Sourced, pc = "meta", NEW F, Mine \subseteq F
    PROVE  Whole(F, given[Now], Now.format)
<1>1. Complete(F, Making)
  BY MineIs DEF Complete, CacheTypeOK
<1> QED
  BY <1>1, MakingIs DEF Sourced, Whole

LEMMA WholenessStep == CacheInv /\ [CacheNext]_cacheVars => Wholeness'
<1> SUFFICES ASSUME CacheInv, [CacheNext]_cacheVars PROVE Wholeness'
  OBVIOUS
<1>0. CacheTypeOK /\ Sourced /\ Wholeness
  BY DEF CacheInv
<1>1. ASSUME NEW c \in Commands, Start(c) PROVE Wholeness'
  BY <1>0, <1>1 DEF Start, Wholeness, Reported, At, disk, history
<1>2. CASE Hit
  <2>1. Now \in Key /\ pc = "look" /\ meta[Now] = "whole"
    BY <1>0, <1>2, NowInKey DEF Hit, Verified
  <2>2. /\ pc' \in {"idle", "look"}
        /\ \A k \in Key : Reported(k)' => Reported(k) \/ k = Now
    BY <1>0, <1>2, <2>1, ReturnsTyped DEF Hit, Reported
  <2>3. UNCHANGED <<files, meta, cut>> /\ \A k \in Key : given[k] \subseteq given'[k]
    BY <1>0, <1>2, <2>1, Gives DEF Hit, disk
  <2>4. \A k \in Key : Whole(files[k], given[k], k.format) => Whole(files[k], given'[k], k.format)
    BY <2>3, Monotone
  <2> QED
    BY <1>0, <2>1, <2>2, <2>3, <2>4 DEF Wholeness, At, Whole
<1>3. CASE BeginRemoval \/ Miss
  <2>1. /\ Now' = Now /\ pc = "look" /\ Mine' = Mine
        /\ \/ pc' = "remove" /\ ~Reported(Now)'
           \/ pc' = "write"
        /\ \A k \in Key : Reported(k)' => Reported(k)
    BY <1>3, SameWork DEF BeginRemoval, Miss, AtRest, Reported
  <2>2. UNCHANGED <<files, meta, cut>> /\ \A k \in Key : given[k] \subseteq given'[k]
    BY <1>0, <1>3, Gives DEF BeginRemoval, Miss, disk
  <2>3. \A k \in Key : Whole(files[k], given[k], k.format) => Whole(files[k], given'[k], k.format)
    BY <2>2, Monotone
  <2> QED
    BY <1>0, <2>1, <2>2, <2>3 DEF Wholeness, At, Whole
<1>4. CASE RemoveEntry
  <2>1. /\ Now' = Now /\ pc = "remove" /\ UNCHANGED <<pc, reported, given, cut>> /\ Now \in Key
        /\ \A k \in Key \ {Now} : files'[k] = files[k] /\ meta'[k] = meta[k]
    BY <1>0, <1>4, SameWork, NowInKey DEF RemoveEntry, AtRest, CacheTypeOK, history
  <2> QED
    BY <1>0, <2>1 DEF Wholeness, At, Whole, Reported
<1>5. CASE Removed
  <2>1. /\ Now' = Now /\ pc = "remove" /\ pc' = "write" /\ cut' = cut \ {Now}
        /\ meta[Now] = "none" /\ UNCHANGED <<files, meta, reported>>
        /\ \A k \in Key \ {Now} : given'[k] = given[k]
    BY <1>0, <1>5, SameWork, AskedIsNow DEF Removed, AtRest, disk, CacheTypeOK
  <2> QED
    BY <1>0, <2>1 DEF Wholeness, At, Whole, Reported
<1>7. CASE WriteFile
  <2>1. /\ Now' = Now /\ pc = "write" /\ UNCHANGED <<pc, meta, reported, given, cut>>
        /\ \A k \in Key : files[k] \subseteq files'[k]
    BY <1>0, <1>7, SameWork DEF WriteFile, AtRest, CacheTypeOK, history
  <2>2. \A k \in Key : Whole(files[k], given[k], k.format) => Whole(files'[k], given[k], k.format)
    BY <2>1, Monotone
  <2> QED
    BY <1>0, <2>1, <2>2 DEF Wholeness, At, Whole, Reported
<1>8. CASE OpenMetadata
  <2>1. /\ Now' = Now /\ Mine' = Mine /\ pc = "write" /\ pc' = "meta"
        /\ Mine \subseteq files[Now] /\ UNCHANGED <<files, reported, given, cut>>
        /\ \A k \in Key : meta'[k] = "whole" => meta[k] = "whole"
    BY <1>0, <1>8, SameWork DEF OpenMetadata, AtRest, CacheTypeOK, history
  <2> QED
    BY <1>0, <2>1 DEF Wholeness, At, Whole, Reported
<1>9. CASE WriteMetadata
  <2>1. Now \in Key /\ pc = "meta" /\ Whole(files[Now], given[Now], Now.format)
    BY <1>0, <1>9, NowInKey, MineComplete DEF WriteMetadata, Wholeness
  <2>2. /\ pc' \in {"idle", "look"}
        /\ \A k \in Key : Reported(k)' => Reported(k) \/ k = Now
    BY <1>0, <1>9, <2>1, ReturnsTyped DEF WriteMetadata, Reported
  <2>3. /\ UNCHANGED <<files, given, cut>>
        /\ \A k \in Key \ {Now} : meta'[k] = meta[k]
    BY <1>0, <1>9 DEF WriteMetadata, CacheTypeOK, history
  <2> QED
    BY <1>0, <2>1, <2>2, <2>3 DEF Wholeness, At, Whole
<1>10. CASE Die
  <2>1. /\ pc' = "idle" /\ UNCHANGED <<files, meta, reported, given>>
        /\ cut' = IF pc = "remove" THEN cut \cup {Now} ELSE cut
    BY <1>10 DEF Die, disk
  <2> QED
    BY <1>0, <2>1 DEF Wholeness, At, Whole, Reported
<1>11. CASE (\E p \in reported : Load(p)) \/ UNCHANGED cacheVars
  <2>1. /\ Now' = Now /\ Mine' = Mine
        /\ UNCHANGED <<pc, files, meta, reported, given, cut>>
    BY <1>11, SameWork DEF Load, cacheVars, AtRest, disk, history
  <2> QED
    BY <1>0, <2>1 DEF Wholeness, At, Whole, Reported
<1> QED
  BY <1>1, <1>2, <1>3, <1>4, <1>5, <1>7, <1>8, <1>9, <1>10, <1>11
     DEF CacheNext, CacheStep, CacheOver

LEMMA TidinessStep == CacheInv /\ [CacheNext]_cacheVars => Tidiness'
<1> SUFFICES ASSUME CacheInv, [CacheNext]_cacheVars PROVE Tidiness'
  OBVIOUS
<1>0. CacheTypeOK /\ Tidiness
  BY DEF CacheInv
<1>1. ASSUME NEW c \in Commands, Start(c) PROVE Tidiness'
  BY <1>0, <1>1 DEF Start, Tidiness, At, OneRun, disk, history
<1>2. CASE Hit
  <2>1. pc = "look" /\ pc' \in {"idle", "look"}
    BY <1>0, <1>2, NowInKey, ReturnsTyped DEF Hit
  <2> QED
    BY <1>0, <1>2, <2>1 DEF Hit, Tidiness, At, OneRun, disk, history
<1>3. CASE BeginRemoval
  BY <1>0, <1>3, SameWork DEF BeginRemoval, AtRest, Tidiness, At, OneRun, disk, history
<1>4. CASE RemoveEntry
  <2>1. /\ Now' = Now /\ pc = "remove" /\ UNCHANGED <<pc, cut, rest>>
        /\ \A k \in Key \ {Now} : files'[k] = files[k] /\ meta'[k] = meta[k]
    BY <1>0, <1>4, SameWork DEF RemoveEntry, AtRest, CacheTypeOK, history
  <2> QED
    BY <1>0, <2>1 DEF Tidiness, At, OneRun
<1>5. CASE Removed
  <2>1. /\ Now' = Now /\ pc = "remove" /\ pc' = "write" /\ UNCHANGED <<files, meta>>
        /\ cut' = cut \ {Now} /\ rest' = rest \ {Now} /\ files[Now] = {}
    BY <1>5, SameWork DEF Removed, AtRest, disk
  <2> QED
    BY <1>0, <2>1 DEF Tidiness, At, OneRun
<1>6. CASE Miss
  <2>1. /\ Now' = Now /\ Mine' = Mine /\ pc = "look" /\ pc' = "write"
        /\ meta[Now] # "whole" \/ files[Now] = {}
        /\ UNCHANGED <<files, meta, cut, rest>>
    BY <1>6, SameWork DEF Miss, Verified, AtRest, disk
  <2> QED
    BY <1>0, <2>1 DEF Tidiness, At, OneRun
<1>7. CASE WriteFile
  <2>1. /\ Now' = Now /\ Mine' = Mine /\ pc = "write" /\ UNCHANGED <<pc, meta, cut, rest>>
        /\ files'[Now] \subseteq files[Now] \cup Mine
        /\ \A k \in Key \ {Now} : files'[k] = files[k]
    <3>1. Now \in Key
      BY <1>0, <1>7, NowInKey DEF WriteFile
    <3> QED
      BY <1>0, <1>7, <3>1, SameWork DEF WriteFile, AtRest, CacheTypeOK, history
  <2> QED
    BY <1>0, <2>1 DEF Tidiness, At, OneRun
<1>8. CASE OpenMetadata
  <2>1. /\ Now' = Now /\ Mine' = Mine /\ pc = "write" /\ pc' = "meta"
        /\ UNCHANGED <<files, cut, rest>>
        /\ \A k \in Key \ {Now} : meta'[k] = meta[k]
    BY <1>0, <1>8, SameWork DEF OpenMetadata, AtRest, CacheTypeOK, history
  <2> QED
    BY <1>0, <2>1 DEF Tidiness, At, OneRun
<1>9. CASE WriteMetadata
  <2>1. Now \in Key /\ pc = "meta" /\ pc' \in {"idle", "look"}
    BY <1>0, <1>9, NowInKey, ReturnsTyped DEF WriteMetadata
  <2>2. /\ UNCHANGED <<files, cut, rest>> /\ meta'[Now] = "whole"
        /\ \A k \in Key \ {Now} : meta'[k] = meta[k]
    BY <1>0, <1>9, <2>1 DEF WriteMetadata, CacheTypeOK, history
  <2>3. Now \notin cut \cup rest => OneRun(files[Now])
    BY <1>0, <2>1, MineIs DEF Tidiness, At, OneRun, FileOf
  <2> QED
    BY <1>0, <2>1, <2>2, <2>3 DEF Tidiness, At, OneRun
<1>10. CASE Die
  <2>1. /\ pc' = "idle" /\ UNCHANGED <<files, meta>>
        /\ cut' = IF pc = "remove" THEN cut \cup {Now} ELSE cut
        /\ rest' = IF pc \in {"write", "meta"} THEN rest \cup {Now} ELSE rest
    BY <1>10 DEF Die, disk
  <2> QED
    BY <1>0, <2>1 DEF Tidiness, At, OneRun
<1>11. ASSUME NEW p \in reported, Load(p) PROVE Tidiness'
  BY <1>0, <1>11, SameWork DEF Load, AtRest, Tidiness, At, OneRun, disk, history
<1>12. CASE UNCHANGED cacheVars
  BY <1>0, <1>12, SameWork DEF cacheVars, AtRest, Tidiness, At, OneRun, disk, history
<1> QED
  BY <1>1, <1>2, <1>3, <1>4, <1>5, <1>6, <1>7, <1>8, <1>9, <1>10, <1>11, <1>12
     DEF CacheNext, CacheStep, CacheOver

LEMMA LoadingStep == CacheInv /\ [CacheNext]_cacheVars => Loading'
<1> SUFFICES ASSUME CacheInv, [CacheNext]_cacheVars PROVE Loading'
  OBVIOUS
<1>0. CacheTypeOK /\ Sourced /\ Wholeness /\ Loading
  BY DEF CacheInv
<1>1. ASSUME NEW p \in reported, Load(p) PROVE Loading'
  <2> DEFINE k == p.key
  <2>1. k \in Key /\ p.asked = k /\ Reported(k)
    BY <1>0 DEF CacheTypeOK, Sourced, Reported
  <2>2. loaded' = [files |-> files[k], format |-> k.format, given |-> given[k],
                   doubtful |-> k \in cut]
    BY <1>1, <2>1 DEF Load
  <2>3. k \notin cut => Whole(files[k], given[k], k.format)
    BY <1>0, <2>1 DEF Wholeness, At
  <2>4. \A f \in files[k] : ~Foreign(f, given[k], k.format)
    BY <1>0, <2>1 DEF Sourced
  <2> HIDE DEF k
  <2> QED
    BY <2>2, <2>3, <2>4 DEF Loading
<1>2. CASE UNCHANGED loaded
  BY <1>0, <1>2 DEF Loading
<1> QED
  BY <1>1, <1>2 DEF CacheNext, CacheStep, CacheOver, Start, Hit, BeginRemoval,
     RemoveEntry, Removed, Miss, WriteFile, OpenMetadata, WriteMetadata, Die, cacheVars
-----------------------------------------------------------------------------
(* For any choices, data and number of commands: what each cache directory  *)
(* holds while a command works on it, at rest, and after an interruption.   *)
THEOREM CacheInvariant == CacheSpec => []CacheInv
<1>1. CacheInv /\ [CacheNext]_cacheVars => CacheInv'
  BY TypedStep, SourcedStep, WholenessStep, TidinessStep, LoadingStep DEF CacheInv
<1> QED
  BY InitInv, <1>1, PTL DEF CacheSpec

(* Every variable keeps its type. *)
THEOREM CacheTypes == CacheSpec => []CacheTypeOK
<1>1. CacheInv => CacheTypeOK
  BY DEF CacheInv
<1> QED
  BY CacheInvariant, <1>1, PTL

(* A job gets rows of paths only that were given for its dataset, split and *)
(* format since the directory was last removed: for any choices of paths,   *)
(* which the key leaves out (_cache_version_hash).                          *)
THEOREM LoadsAreGiven == CacheSpec => []LoadsOnlyGiven
<1>1. CacheInv => LoadsOnlyGiven
  BY DEF CacheInv, Loading, Foreign, LoadsOnlyGiven
<1> QED
  BY CacheInvariant, <1>1, PTL

(* A job that loads a reported directory gets every row that has words of a *)
(* path given for it (persist_tokenized writes the metadata last).          *)
THEOREM LoadsAreWhole == CacheSpec => []LoadsWhole
<1>1. ASSUME NEW F, NEW d, Complete(F, d) PROVE AllRows(F, d)
  <2> SUFFICES ASSUME NEW b \in 1 .. Batches(d), NEW i \in DOMAIN Batch(d, b), Batch(d, b)[i] > 0
               PROVE  [data |-> d, batch |-> b, row |-> i] \in Rows(F)
    BY DEF AllRows
  <2>1. PICK n \in Nat : FileOf(n, d, b) \in F
    BY <1>1 DEF Complete
  <2> DEFINE f == FileOf(n, d, b)
             r == [row |-> i, labels |-> Cut(Batch(d, b)[i])]
  <2>2. f.data = d /\ f.batch = b
    BY DEF FileOf
  <2>3. r \in Tokenized(Batch(d, b)) /\ r.row = i
    BY DEF Tokenized
  <2> HIDE DEF f, r
  <2>4. [data |-> f.data, batch |-> f.batch, row |-> r.row] \in
            {[data |-> f.data, batch |-> f.batch, row |-> q.row] :
               q \in Tokenized(Batch(f.data, f.batch))}
    BY <2>2, <2>3
  <2> QED
    BY <2>1, <2>2, <2>3, <2>4, ZenonT(60) DEF Rows, f
<1>2. CacheInv => LoadsWhole
  BY <1>1 DEF CacheInv, Loading, Whole, LoadsWhole
<1> QED
  BY CacheInvariant, <1>2, PTL

(* A directory in which nothing was interrupted holds the files of one      *)
(* command (persist_tokenized).                                             *)
THEOREM TokenizedOnce == CacheSpec => []CacheOnce
<1>1. CacheInv => CacheOnce
  <2> SUFFICES ASSUME CacheInv, NEW k \in Key \ (cut \cup rest), Verified(k),
                      ~(pc = "remove" /\ k = Now)
               PROVE  \A f, g \in files[k] : f.run = g.run
    BY DEF CacheOnce
  <2>1. CASE At({"write", "meta"}, k)
    BY <2>1, MineIs DEF CacheInv, Tidiness, FileOf
  <2>2. CASE ~At({"write", "meta"}, k)
    BY <2>2 DEF CacheInv, Tidiness, At, OneRun
  <2> QED
    BY <2>1, <2>2
<1> QED
  BY CacheInvariant, <1>1, PTL
-----------------------------------------------------------------------------
(* The model: names of its modules. *)
Names == Seq(STRING)

LEMMA PrefixElements ==
    ASSUME NEW a \in Names, NEW b \in Names, IsPrefix(a, b)
    PROVE  /\ Len(a) <= Len(b)
           /\ \A i \in 1 .. Len(a) : a[i] = b[i]
           /\ ToSet(a) \subseteq ToSet(b)
<1>1. /\ Len(a) \in Nat /\ Len(b) \in Nat /\ Len(a) <= Len(b)
      /\ SubSeq(a, 1, Len(a)) = SubSeq(b, 1, Len(a))
    BY DEF IsPrefix, Names
<1>2. ASSUME NEW i \in 1 .. Len(a) PROVE a[i] = b[i]
    BY <1>1, <1>2 DEF Names
<1>3. ToSet(a) \subseteq ToSet(b)
    <2> SUFFICES ASSUME NEW i \in DOMAIN a PROVE a[i] \in ToSet(b)
        BY DEF ToSet
    <2>1. i \in 1 .. Len(a) /\ i \in DOMAIN b
        BY <1>1 DEF Names
    <2> QED
        BY <1>2, <2>1 DEF ToSet
<1> QED
    BY <1>1, <1>2, <1>3

LEMMA IsPrefixByElements ==
    ASSUME NEW a \in Names, NEW b \in Names, Len(a) <= Len(b),
           \A i \in 1 .. Len(a) : a[i] = b[i]
    PROVE  IsPrefix(a, b)
<1>1. Len(a) \in Nat /\ Len(b) \in Nat
    BY DEF Names
<1>2. SubSeq(a, 1, Len(a)) = SubSeq(b, 1, Len(a))
    BY <1>1 DEF Names
<1> QED
    BY <1>2 DEF IsPrefix

\* Of two modules around a third, one is around the other.
LEMMA PrefixesCompare ==
    ASSUME NEW a \in Names, NEW b \in Names, NEW c \in Names,
           IsPrefix(a, c), IsPrefix(b, c)
    PROVE  IsPrefix(a, b) \/ IsPrefix(b, a)
<1>1. /\ Len(a) \in Nat /\ Len(b) \in Nat
      /\ \A i \in 1 .. Len(a) : a[i] = c[i]
      /\ \A i \in 1 .. Len(b) : b[i] = c[i]
    BY PrefixElements DEF Names
<1>2. CASE Len(a) <= Len(b)
    <2>1. \A i \in 1 .. Len(a) : a[i] = b[i]
        BY <1>1, <1>2
    <2> QED
        BY <1>2, <2>1, IsPrefixByElements
<1>3. CASE Len(b) <= Len(a)
    <2>1. \A i \in 1 .. Len(b) : b[i] = a[i]
        BY <1>1, <1>3
    <2> QED
        BY <1>3, <2>1, IsPrefixByElements
<1> QED
    BY <1>1, <1>2, <1>3

LEMMA EverythingInRoot ==
    ASSUME NEW a \in Names
    PROVE  IsPrefix(<<>>, a)
<1>1. Len(<<>>) = 0 /\ <<>> \in Names /\ Len(a) \in Nat
    BY DEF Names
<1> QED
    BY <1>1, IsPrefixByElements

\* A module is inside at most one of modules that are apart.
LEMMA InsideOne ==
    ASSUME NEW S, \A n \in S : n.name \in Names, Apart(S),
           NEW a \in Names, NEW m \in S, NEW n \in S, Inside(a, m), Inside(a, n)
    PROVE  m = n
<1>1. IsPrefix(m.name, n.name) \/ IsPrefix(n.name, m.name)
    BY PrefixesCompare DEF Inside
<1> QED
    BY <1>1 DEF Apart, Inside
-----------------------------------------------------------------------------
(* The invariant of the set-up. *)
Stages == {"load", "introspect", "lora", "cast", "freeze", "experts", "layers",
           "root", "done"}
Introspected == stage \notin {"load", "introspect", "failed"}
Fsdp == config.strategy = "fsdp"

Dtype == {"bfloat16", "float32", "int4"}
Param == [at : Names, part : {"base", "lora"}, dtype : Dtype, trainable : BOOLEAN]
ProfileDtype == IF config.dtype = "auto" THEN model.dtype ELSE config.dtype

Kept ==
    /\ model \in Models /\ config \in Configs
    /\ stage \in Stages \cup {"failed"}
    /\ params \subseteq Param
    /\ Introspected =>
          profile = [isMoe |-> model.moe \/ Experts(model) # {},
                     experts |-> Experts(model), routers |-> Routers(model),
                     layers |-> DecoderLayers(model), targets |-> LoraTargets(model),
                     dtype |-> ProfileDtype]

(* Adapters are float32 and train until they are cast; what is cast is what *)
(* trains, so nothing may have been frozen before.                          *)
Base(p) == p.part = "base" /\ p.dtype = LoadDtype
Adapter(p) == config.lora /\ p.part = "lora" /\ p.dtype = "float32" /\ p.trainable
Dtypes ==
    /\ Fsdp /\ stage \notin {"load", "failed"} => ~config.quantized
    /\ stage \in {"introspect", "lora"} => \A p \in params : Base(p)
    /\ stage = "cast" => \A p \in params : \/ Base(p) /\ (config.lora => ~p.trainable)
                                           \/ Adapter(p)
    /\ stage \in {"freeze", "experts", "layers", "root", "done"} =>
          IF Fsdp THEN \A p \in params : p.dtype = profile.dtype
          ELSE \A p \in params : p.part = "lora" => p.dtype = "float32"

(* What has an adapter is what was adapted. *)
Adapters ==
    Introspected /\ stage # "lora" /\ config.lora =>
        /\ \A n \in Adapted : \E p \in params : p.at = n.name /\ p.part = "lora"
        /\ \A p \in params : p.part = "lora" => \E n \in Adapted : p.at = n.name

Frozen ==
    stage \in {"experts", "layers", "root", "done"}
    /\ config.lora /\ profile.isMoe /\ config.freezeRouter =>
        \A p \in params : RouterParam(p) => ~p.trainable

(* A parameter belongs to the innermost module that was sharded around it,  *)
(* because inner modules are sharded first.                                 *)
Alone == IF profile.isMoe /\ config.shardExperts THEN profile.experts ELSE {}
Owned ==
    \A at \in DOMAIN unit :
        /\ \A n \in Alone : Inside(at, n) => unit[at] = n.name
        /\ (\A n \in Alone : ~Inside(at, n)) =>
              \A n \in Layers : Inside(at, n) => unit[at] = n.name
Claimed(S) == \A p \in params : (\E n \in S : Inside(p.at, n)) => p.at \in DOMAIN unit
Units ==
    /\ stage \in {"load", "introspect", "lora", "cast", "freeze", "experts"} => unit = << >>
    /\ Fsdp =>
         /\ stage \in {"layers", "root", "done"} => Owned /\ Claimed(Alone)
         /\ stage = "layers" => \A at \in DOMAIN unit : \E n \in Alone : Inside(at, n)
         /\ stage \in {"root", "done"} => Claimed(Layers)
         /\ stage = "done" => \A p \in params : p.at \in DOMAIN unit

SetupInv == Kept /\ Dtypes /\ Adapters /\ Frozen /\ Units
-----------------------------------------------------------------------------
LEMMA NextStage ==
    ASSUME Advance
    PROVE  /\ stage = "load" => stage' = "introspect"
           /\ stage = "introspect" => stage' = "lora"
           /\ stage = "lora" => stage' = "cast"
           /\ stage = "cast" => stage' = "freeze"
           /\ stage = "freeze" => stage' = "experts"
           /\ stage = "experts" => stage' = "layers"
           /\ stage = "layers" => stage' = "root"
           /\ stage = "root" => stage' = "done"
<1> DEFINE at == CHOOSE i \in DOMAIN Order : Order[i] = stage
<1>1. DOMAIN Order = 1 .. 9
    BY DEF Order
<1>2. ASSUME NEW i \in 1 .. 9, Order[i] = stage PROVE at \in 1 .. 9 /\ Order[at] = stage
    BY <1>1, <1>2
<1>3. stage' = Order[1 + at]
    BY DEF Advance
<1> HIDE DEF at
<1>4. \A i, j \in 1 .. 9 : Order[i] = Order[j] => i = j
    BY DEF Order
<1>5. \A i \in 1 .. 9 : Order[i] = stage => at = i
    BY <1>2, <1>4
<1> QED
    BY <1>3, <1>5 DEF Order

LEMMA ModuleNames ==
    ASSUME NEW t \in Models
    PROVE  /\ \A n \in Modules(t) : n \in Module /\ n.name \in Names
           /\ Experts(t) \subseteq Modules(t) /\ DecoderLayers(t) \subseteq Modules(t)
           /\ Routers(t) \subseteq Modules(t) /\ t.routers \subseteq Names
           /\ t.dtype \in {"bfloat16", "float32"}
<1>1. t \in ModelType
    BY SetupAssumption
<1>2. /\ t.modules \in Seq(Module) /\ t.routers \in SUBSET Seq(STRING)
      /\ t.dtype \in {"bfloat16", "float32"}
    <2> DEFINE A == Seq(Module)
               B == SUBSET Seq(STRING)
    <2>1. t \in [modules : A, moe : BOOLEAN, layers : Nat,
                 dtype : {"bfloat16", "float32"}, routers : B]
        BY <1>1 DEF ModelType
    <2> HIDE DEF A, B
    <2>2. t.modules \in A /\ t.routers \in B /\ t.dtype \in {"bfloat16", "float32"}
        BY <2>1
    <2> QED
        BY <2>2 DEF A, B
<1>3. \A n \in Modules(t) : n \in Module
    BY <1>2 DEF Modules, ToSet
<1>4. \A n \in Modules(t) : n.name \in Names
    BY <1>3 DEF Module, Names
<1>5. /\ Experts(t) \subseteq Modules(t) /\ DecoderLayers(t) \subseteq Modules(t)
      /\ Routers(t) \subseteq Modules(t)
    <2>1. \A n : ChildrenOf(t, n) \subseteq Modules(t)
        BY DEF ChildrenOf
    <2>2. Experts(t) \subseteq Modules(t)
        <3>1. \A S : UNION {ChildrenOf(t, n) : n \in S} \subseteq Modules(t)
            BY <2>1
        <3>2. Shared(t) \subseteq Modules(t)
            BY DEF Shared
        <3>3. Routed(t) \subseteq Modules(t)
            BY <3>1 DEF Routed
        <3> DEFINE lists == UNION {ChildrenOf(t, n) : n \in SharedLists(t)}
        <3>4. lists \subseteq Modules(t)
            BY <3>1
        <3>5. Experts(t) = Routed(t) \cup lists \cup (Shared(t) \ SharedLists(t))
            BY DEF Experts
        <3> HIDE DEF lists
        <3> QED
            BY <3>2, <3>3, <3>4, <3>5
    <2>3. DecoderLayers(t) \subseteq Modules(t)
        <3> DEFINE layer == CHOOSE k \in ChildrenOf(t, First(t, Candidates(t))) : TRUE
        <3>1. DecoderLayers(t) = IF Candidates(t) = {} THEN {}
                                 ELSE {n \in Modules(t) : n.cls = layer.cls}
            BY DEF DecoderLayers, OfClass
        <3> HIDE DEF layer
        <3> QED
            BY <3>1
    <2>4. Routers(t) \subseteq Modules(t)
        BY DEF Routers
    <2> QED
        BY <2>2, <2>3, <2>4
<1> QED
    BY <1>2, <1>3, <1>4, <1>5 DEF Names

LEMMA ConfigTypes ==
    ASSUME NEW c \in Configs
    PROVE  /\ c.strategy \in {"fsdp", "ddp"} /\ c.dtype \in {"auto", "bfloat16", "float32"}
           /\ c.quantized \in BOOLEAN /\ c.lora \in BOOLEAN
<1> DEFINE A == SUBSET STRING
<1>1. c \in [strategy : {"fsdp", "ddp"}, dtype : {"auto", "bfloat16", "float32"},
             quantized : BOOLEAN, lora : BOOLEAN, targets : A,
             includeExperts : BOOLEAN, freezeRouter : BOOLEAN,
             shardExperts : BOOLEAN, layerCls : A]
    BY SetupAssumption DEF Config
<1> HIDE DEF A
<1> QED
    BY <1>1

\* What FullyShard leaves, for modules that are apart.
LEMMA Sharded ==
    ASSUME NEW S, \A n \in S : n.name \in Names, Apart(S), params \subseteq Param, FullyShard(S)
    PROVE  /\ DOMAIN unit \subseteq DOMAIN unit'
           /\ \A at \in DOMAIN unit : unit'[at] = unit[at]
           /\ \A p \in params : (\E n \in S : Inside(p.at, n)) => p.at \in DOMAIN unit'
           /\ \A at \in DOMAIN unit' \ DOMAIN unit :
                 /\ \E p \in params : at = p.at
                 /\ \E n \in S : Inside(at, n)
                 /\ \A n \in S : Inside(at, n) => unit'[at] = n.name
<1> DEFINE new == {p \in params : p.at \notin DOMAIN unit /\ \E n \in S : Inside(p.at, n)}
           of(at) == (CHOOSE n \in S : Inside(at, n)).name
<1>1. unit' = [at \in DOMAIN unit \cup {p.at : p \in new} |->
                 IF at \in DOMAIN unit THEN unit[at] ELSE of(at)]
    BY DEF FullyShard
<1>2. ASSUME NEW at \in DOMAIN unit' \ DOMAIN unit
      PROVE  /\ \E p \in params : at = p.at
             /\ \E n \in S : Inside(at, n)
             /\ \A n \in S : Inside(at, n) => unit'[at] = n.name
    <2>1. PICK p \in new : at = p.at
        BY <1>1, <1>2
    <2>2. p \in params /\ at \in Names /\ \E n \in S : Inside(at, n)
        BY <2>1 DEF Param
    <2>3. unit'[at] = of(at)
        BY <1>1, <1>2
    <2> DEFINE m == CHOOSE n \in S : Inside(at, n)
    <2>4. m \in S /\ Inside(at, m)
        BY <2>2
    <2>5. of(at) = m.name
        OBVIOUS
    <2> HIDE DEF m, of
    <2>6. \A n \in S : Inside(at, n) => n = m
        BY <2>2, <2>4, InsideOne
    <2> QED
        BY <2>1, <2>2, <2>3, <2>5, <2>6
<1> QED
    BY <1>1, <1>2

LEMMA LoadKeeps == SetupInv /\ LoadModel => SetupInv'
<1> SUFFICES ASSUME SetupInv, LoadModel PROVE SetupInv'
    OBVIOUS
<1>1. /\ stage = "load" /\ model \in Models /\ config \in Configs
      /\ UNCHANGED <<model, config, profile, unit>> /\ unit = << >>
    BY DEF LoadModel, SetupInv, Kept, Units
<1>2. CASE stage' = "failed" /\ UNCHANGED params
    BY <1>1, <1>2 DEF SetupInv, Kept, Dtypes, Adapters, Frozen, Units, Introspected
<1>3. CASE /\ ~(config.quantized /\ Fsdp)
           /\ params' = {[at |-> n.name, part |-> "base", dtype |-> LoadDtype,
                          trainable |-> TRUE] :
                            n \in {k \in Modules(model) : k.kind \in {"linear", "leaf"}}}
           /\ Advance
    <2>1. stage' = "introspect"
        BY <1>1, <1>3, NextStage
    <2>2. LoadDtype \in Dtype /\ LoadDtype' = LoadDtype
        BY <1>1, ModuleNames, ConfigTypes DEF LoadDtype, Dtype
    <2>3. \A p \in params' : p \in Param /\ p.part = "base" /\ p.dtype = LoadDtype
        <3> DEFINE of(n) == [at |-> n.name, part |-> "base", dtype |-> LoadDtype,
                             trainable |-> TRUE]
        <3>1. ASSUME NEW n \in Modules(model)
              PROVE  of(n) \in Param /\ of(n).part = "base" /\ of(n).dtype = LoadDtype
            <4>1. n.name \in Names
                BY <1>1, <3>1, ModuleNames
            <4> QED
                BY <2>2, <4>1 DEF Param
        <3>2. \A p \in params' : \E n \in Modules(model) : p = of(n)
            BY <1>3
        <3> QED
            BY <3>1, <3>2
    <2>4. Kept'
        BY <1>1, <2>1, <2>3 DEF Kept, Stages, Introspected
    <2>5. Dtypes'
        BY <1>1, <1>3, <2>1, <2>2, <2>3 DEF Dtypes, Base, Fsdp
    <2>6. Adapters' /\ Frozen' /\ Units'
        BY <1>1, <2>1 DEF Adapters, Introspected, Frozen, Units
    <2> QED
        BY <2>4, <2>5, <2>6 DEF SetupInv
<1> QED
    BY <1>2, <1>3 DEF LoadModel, Fsdp

LEMMA IntrospectKeeps == SetupInv /\ Introspect => SetupInv'
<1> SUFFICES ASSUME SetupInv, Introspect PROVE SetupInv'
    OBVIOUS
<1>1. /\ stage = "introspect" /\ stage' = "lora"
      /\ UNCHANGED <<model, config, params, unit>> /\ unit = << >>
    BY NextStage DEF Introspect, SetupInv, Units
<1>2. Kept'
    BY <1>1 DEF SetupInv, Kept, Introspect, Stages, Introspected, ProfileDtype
<1>3. Dtypes'
    BY <1>1 DEF SetupInv, Dtypes, Base, LoadDtype, Fsdp
<1>4. Adapters' /\ Frozen' /\ Units'
    BY <1>1 DEF Adapters, Frozen, Units
<1> QED
    BY <1>2, <1>3, <1>4 DEF SetupInv

LEMMA LoraKeeps == SetupInv /\ ApplyLora => SetupInv'
<1> SUFFICES ASSUME SetupInv, ApplyLora PROVE SetupInv'
    OBVIOUS
<1> DEFINE HasAdapters ==
             config.lora =>
               /\ \A n \in Adapted : \E p \in params' : p.at = n.name /\ p.part = "lora"
               /\ \A p \in params' : p.part = "lora" => \E n \in Adapted : p.at = n.name
<1>1. /\ stage = "lora" /\ model \in Models /\ config \in Configs
      /\ UNCHANGED <<model, config, profile, unit>> /\ unit = << >>
      /\ params \subseteq Param /\ \A p \in params : Base(p)
    BY DEF ApplyLora, SetupInv, Kept, Dtypes, Units
<1>2. CASE stage' = "failed" /\ UNCHANGED params
    BY <1>1, <1>2 DEF SetupInv, Kept, Dtypes, Adapters, Frozen, Units, Introspected
<1>3. ASSUME Advance, HasAdapters,
             \A p \in params' : /\ p \in Param
                                /\ \/ Base(p) /\ (config.lora => ~p.trainable)
                                   \/ Adapter(p)
      PROVE  SetupInv'
    <2>1. stage' = "cast"
        BY <1>1, <1>3, NextStage
    <2>2. Kept'
        BY <1>1, <1>3, <2>1 DEF SetupInv, Kept, Stages, Introspected, ProfileDtype
    <2>3. Dtypes'
        BY <1>1, <1>3, <2>1 DEF SetupInv, Dtypes, Base, Adapter, LoadDtype, Fsdp
    <2>4. Frozen' /\ Units'
        BY <1>1, <2>1 DEF Frozen, Units
    <2>5. Adapters'
        <3>1. Adapted' = Adapted
            BY <1>1 DEF Adapted, Targets, AutoTargets, ExpertLinears, Sample
        <3> QED
            BY <1>1, <1>3, <3>1 DEF Adapters
    <2> QED
        BY <2>2, <2>3, <2>4, <2>5 DEF SetupInv
<1>4. CASE ~config.lora /\ Advance /\ UNCHANGED params
    BY <1>1, <1>3, <1>4
<1>5. CASE /\ config.lora /\ Advance
           /\ params' = {[p EXCEPT !.trainable = FALSE] : p \in params} \cup
                        {[at |-> n.name, part |-> "lora", dtype |-> "float32",
                          trainable |-> TRUE] : n \in Adapted}
    <2>1. ASSUME NEW q \in params
          PROVE  LET p == [q EXCEPT !.trainable = FALSE]
                 IN  p \in Param /\ Base(p) /\ ~p.trainable
        BY <1>1, <2>1 DEF Param, Base
    <2>2. ASSUME NEW n \in Adapted
          PROVE  LET p == [at |-> n.name, part |-> "lora", dtype |-> "float32",
                           trainable |-> TRUE]
                 IN  p \in Param /\ Adapter(p)
        BY <1>1, <1>5, <2>2, ModuleNames DEF Param, Dtype, Adapter, Adapted
    <2>3. \A p \in params' : /\ p \in Param
                             /\ \/ Base(p) /\ (config.lora => ~p.trainable)
                                \/ Adapter(p)
        BY <1>5, <2>1, <2>2
    <2>4. HasAdapters
        <3> DEFINE new(n) == [at |-> n.name, part |-> "lora", dtype |-> "float32",
                              trainable |-> TRUE]
                   held(q) == [q EXCEPT !.trainable = FALSE]
        <3>1. \A n : new(n).at = n.name /\ new(n).part = "lora"
            OBVIOUS
        <3>2. \A q \in params : held(q).part = "base"
            BY <2>1 DEF Base
        <3> HIDE DEF new, held
        <3>3. params' = {held(q) : q \in params} \cup {new(n) : n \in Adapted}
            BY <1>5 DEF new, held
        <3>4. \A n \in Adapted : \E p \in params' : p.at = n.name /\ p.part = "lora"
            BY <3>1, <3>3
        <3>5. \A p \in params' : p.part = "lora" => \E n \in Adapted : p.at = n.name
            BY <3>1, <3>2, <3>3
        <3> QED
            BY <3>4, <3>5
    <2> QED
        BY <1>3, <1>5, <2>3, <2>4
<1> QED
    BY <1>2, <1>4, <1>5 DEF ApplyLora

\* Steps that keep of every parameter where it is and what it is of.
LEMMA AdaptersStay ==
    ASSUME SetupInv, Introspected, stage # "lora", Introspected', stage' # "lora",
           UNCHANGED <<model, config, profile>>,
           \A q \in params : \E p \in params' : p.at = q.at /\ p.part = q.part,
           \A p \in params' : \E q \in params : p.at = q.at /\ p.part = q.part
    PROVE  Adapters'
<1>1. Adapted' = Adapted
    BY DEF Adapted, Targets, AutoTargets, ExpertLinears, Sample
<1>2. ASSUME config.lora
      PROVE  /\ \A n \in Adapted : \E p \in params : p.at = n.name /\ p.part = "lora"
             /\ \A p \in params : p.part = "lora" => \E n \in Adapted : p.at = n.name
    BY <1>2 DEF SetupInv, Adapters
<1>3. ASSUME config.lora
      PROVE  /\ \A n \in Adapted : \E p \in params' : p.at = n.name /\ p.part = "lora"
             /\ \A p \in params' : p.part = "lora" => \E n \in Adapted : p.at = n.name
    BY <1>2, <1>3
<1> QED
    BY <1>1, <1>3 DEF Adapters

LEMMA CastKeeps == SetupInv /\ CastAdapters => SetupInv'
<1> SUFFICES ASSUME SetupInv, CastAdapters PROVE SetupInv'
    OBVIOUS
<1>1. /\ stage = "cast" /\ stage' = "freeze" /\ model \in Models /\ config \in Configs
      /\ UNCHANGED <<model, config, profile, unit>> /\ unit = << >>
      /\ params \subseteq Param
      /\ \A p \in params : (Base(p) /\ (config.lora => ~p.trainable)) \/ Adapter(p)
      /\ profile.dtype = ProfileDtype
    BY NextStage DEF CastAdapters, SetupInv, Kept, Dtypes, Units, Introspected
<1>2. ProfileDtype \in Dtype /\ (Fsdp => LoadDtype = ProfileDtype)
    BY <1>1, ModuleNames, ConfigTypes DEF SetupInv, Dtypes, LoadDtype, Dtype, ProfileDtype
<1>3. CASE config.lora /\ Fsdp
    <2>1. params' = {IF p.trainable THEN [p EXCEPT !.dtype = profile.dtype] ELSE p : p \in params}
        BY <1>3 DEF CastAdapters, Fsdp
    <2>2. ASSUME NEW q \in params
          PROVE  LET p == IF q.trainable THEN [q EXCEPT !.dtype = profile.dtype] ELSE q
                 IN  /\ p \in Param /\ p.dtype = profile.dtype
                     /\ p.at = q.at /\ p.part = q.part
        BY <1>1, <1>2, <1>3, <2>2 DEF Param, Base, Adapter
    <2>3. \A p \in params' : p \in Param /\ p.dtype = profile.dtype
        BY <2>1, <2>2
    <2>4. Kept'
        BY <1>1, <2>3 DEF SetupInv, Kept, Stages, Introspected, ProfileDtype
    <2>5. Dtypes'
        BY <1>1, <1>3, <2>3 DEF SetupInv, Dtypes, Fsdp
    <2>6. Adapters'
        <3>1. /\ \A q \in params : \E p \in params' : p.at = q.at /\ p.part = q.part
              /\ \A p \in params' : \E q \in params : p.at = q.at /\ p.part = q.part
            BY <2>1, <2>2
        <3> QED
            BY <1>1, <3>1, AdaptersStay DEF Introspected
    <2> QED
        BY <1>1, <2>4, <2>5, <2>6 DEF SetupInv, Frozen, Units
<1>4. CASE ~(config.lora /\ Fsdp)
    <2>1. UNCHANGED params
        BY <1>4 DEF CastAdapters, Fsdp
    <2>2. Kept'
        BY <1>1, <2>1 DEF SetupInv, Kept, Stages, Introspected, ProfileDtype
    <2>3. Dtypes'
        BY <1>1, <1>2, <1>4, <2>1 DEF SetupInv, Dtypes, Base, Adapter, Fsdp
    <2>4. Adapters'
        BY <1>1, <2>1, AdaptersStay DEF Introspected
    <2> QED
        BY <1>1, <2>2, <2>3, <2>4 DEF SetupInv, Frozen, Units
<1> QED
    BY <1>3, <1>4

LEMMA FreezeKeeps == SetupInv /\ FreezeRouters => SetupInv'
<1> SUFFICES ASSUME SetupInv, FreezeRouters PROVE SetupInv'
    OBVIOUS
<1>1. /\ stage = "freeze" /\ stage' = "experts" /\ model \in Models /\ config \in Configs
      /\ UNCHANGED <<model, config, profile, unit>> /\ unit = << >>
      /\ params \subseteq Param
    BY NextStage DEF FreezeRouters, SetupInv, Kept, Units
<1> DEFINE freezes == config.lora /\ profile.isMoe /\ config.freezeRouter
           frozen(p) == IF freezes /\ RouterParam(p) THEN [p EXCEPT !.trainable = FALSE] ELSE p
<1>2. params' = {frozen(p) : p \in params}
    BY DEF FreezeRouters
<1>3. ASSUME NEW q \in params
      PROVE  /\ frozen(q) \in Param /\ frozen(q).at = q.at /\ frozen(q).part = q.part
             /\ frozen(q).dtype = q.dtype
             /\ freezes /\ RouterParam(q) => ~frozen(q).trainable
    BY <1>1, <1>3 DEF Param
<1> HIDE DEF frozen
<1>4. Kept'
    BY <1>1, <1>2, <1>3 DEF SetupInv, Kept, Stages, Introspected, ProfileDtype
<1>5. Dtypes'
    BY <1>1, <1>2, <1>3 DEF SetupInv, Dtypes, Fsdp
<1>6. Frozen'
    <2> SUFFICES ASSUME freezes, NEW p \in params', RouterParam(p)' PROVE ~p.trainable
        BY <1>1 DEF Frozen
    <2>1. PICK q \in params : p = frozen(q)
        BY <1>2
    <2>2. p.at = q.at /\ (freezes /\ RouterParam(q) => ~p.trainable)
        BY <1>3, <2>1
    <2>3. RouterParam(q)
        BY <1>1, <2>2 DEF RouterParam, InRouter
    <2> QED
        BY <2>2, <2>3
<1>7. Units'
    BY <1>1 DEF Units
<1>8. Adapters'
    <2>1. /\ \A q \in params : \E p \in params' : p.at = q.at /\ p.part = q.part
          /\ \A p \in params' : \E q \in params : p.at = q.at /\ p.part = q.part
        BY <1>2, <1>3
    <2> QED
        BY <1>1, <2>1, AdaptersStay DEF Introspected
<1> QED
    BY <1>4, <1>5, <1>6, <1>7, <1>8 DEF SetupInv

\* The first of some modules is one of them.
LEMMA FirstIsIn ==
    ASSUME NEW t \in Models, NEW S \in SUBSET Modules(t), S # {}
    PROVE  First(t, S) \in S
<1>1. t \in ModelType
    BY SetupAssumption
<1>2. t.modules \in Seq(Module)
    <2> DEFINE A == Seq(Module)
               B == SUBSET Seq(STRING)
    <2>1. t \in [modules : A, moe : BOOLEAN, layers : Nat,
                 dtype : {"bfloat16", "float32"}, routers : B]
        BY <1>1 DEF ModelType
    <2> HIDE DEF A, B
    <2>2. t.modules \in A
        BY <2>1
    <2> QED
        BY <2>2 DEF A
<1> DEFINE at == {k \in DOMAIN t.modules : t.modules[k] \in S}
<1>3. at \subseteq Nat /\ at # {}
    BY <1>2 DEF Modules, ToSet
<1>4. PICK i \in at : \A j \in at : ~(<<j, i>> \in OpToRel(<, Nat))
    <2>1. IsWellFoundedOn(OpToRel(<, Nat), Nat)
        BY NatLessThanWellFounded
    <2> HIDE DEF at
    <2> QED
        BY <1>3, <2>1, WFMin
<1>5. /\ i \in DOMAIN t.modules /\ t.modules[i] \in S
      /\ \A j \in 1 .. i - 1 : t.modules[j] \notin S
    <2>1. \A j \in at : ~(j < i)
        BY <1>3, <1>4 DEF OpToRel
    <2> QED
        BY <1>2, <2>1
<1> QED
    BY <1>5 DEF First

\* A step that shards, or leaves, modules changes nothing of the parameters.
LEMMA ShardingKeeps ==
    ASSUME SetupInv, stage \in {"experts", "layers", "root"},
           stage' \in {"layers", "root", "done"},
           UNCHANGED <<model, config, profile, params>>
    PROVE  Kept' /\ Dtypes' /\ Adapters' /\ Frozen'
<1>1. Kept'
    BY DEF SetupInv, Kept, Stages, Introspected, ProfileDtype
<1>2. Dtypes'
    BY DEF SetupInv, Dtypes, Fsdp
<1>3. Frozen'
    BY DEF SetupInv, Frozen, RouterParam, InRouter
<1>4. Adapters'
    BY AdaptersStay DEF Introspected
<1> QED
    BY <1>1, <1>2, <1>3, <1>4

LEMMA WhatIsSharded ==
    ASSUME SetupInv, Introspected
    PROVE  /\ \A n \in profile.experts : n.name \in Names
           /\ \A n \in Layers : n.name \in Names
           /\ Apart(profile.experts) /\ Apart(Layers)
           /\ profile.experts # {} => profile.isMoe
<1>1. /\ model \in Models /\ profile.experts = Experts(model)
      /\ profile.layers = DecoderLayers(model)
      /\ profile.isMoe = (model.moe \/ Experts(model) # {})
    BY DEF SetupInv, Kept
<1>2. Apart(Experts(model)) /\ Apart(DecoderLayers(model))
    BY <1>1, NestingAssumption
<1>3. (\A n \in Layers : n.name \in Names) /\ Apart(Layers)
    <2>1. CASE Named = {}
        BY <1>1, <1>2, <2>1, ModuleNames DEF Layers
    <2>2. CASE Named # {}
        <3> DEFINE c == First(model, Named).cls
        <3>1. Layers = OfClass(model, c)
            BY <2>2 DEF Layers
        <3>2. c \in config.layerCls
            <4>1. Named \subseteq Modules(model)
                BY DEF Named
            <4>2. First(model, Named) \in Named
                BY <1>1, <2>2, <4>1, FirstIsIn
            <4> QED
                BY <4>2 DEF Named
        <3>3. config \in Configs
            BY DEF SetupInv, Kept
        <3> HIDE DEF c
        <3>4. c \in UNION {f.layerCls : f \in Configs}
            BY <3>2, <3>3
        <3>5. Apart(OfClass(model, c))
            BY <1>1, <3>4, NestingAssumption
        <3> QED
            BY <1>1, <3>1, <3>5, ModuleNames DEF OfClass
    <2> QED
        BY <2>1, <2>2
<1> QED
    BY <1>1, <1>2, <1>3, ModuleNames

LEMMA ExpertsKeep == SetupInv /\ ShardExperts => SetupInv'
<1> SUFFICES ASSUME SetupInv, ShardExperts PROVE SetupInv'
    OBVIOUS
<1>1. /\ stage = "experts" /\ stage' = "layers" /\ unit = << >> /\ DOMAIN unit = {}
      /\ UNCHANGED <<model, config, profile, params>> /\ params \subseteq Param
    BY NextStage DEF ShardExperts, SetupInv, Units, Kept
<1>2. Kept' /\ Dtypes' /\ Adapters' /\ Frozen'
    BY <1>1, ShardingKeeps
<1>3. Units'
    <2> SUFFICES ASSUME Fsdp
                 PROVE  /\ Owned' /\ Claimed(Alone)'
                        /\ \A at \in DOMAIN unit' : \E n \in Alone : Inside(at, n)
        BY <1>1 DEF Units, Fsdp, Alone
    <2>1. FullyShard(Alone)
        <3>1. CASE profile.isMoe /\ config.shardExperts
            BY <3>1 DEF ShardExperts, Fsdp, Alone
        <3>2. CASE ~(profile.isMoe /\ config.shardExperts)
            <4>1. UNCHANGED unit /\ Alone = {}
                BY <3>2 DEF ShardExperts, Alone
            <4> QED
                BY <1>1, <4>1 DEF FullyShard
        <3> QED
            BY <3>1, <3>2
    <2>2. (\A n \in Alone : n.name \in Names) /\ Apart(Alone)
        BY <1>1, WhatIsSharded DEF Introspected, Alone, Apart
    <2>3. /\ \A p \in params : (\E n \in Alone : Inside(p.at, n)) => p.at \in DOMAIN unit'
          /\ \A at \in DOMAIN unit' :
                /\ \E n \in Alone : Inside(at, n)
                /\ \A n \in Alone : Inside(at, n) => unit'[at] = n.name
        BY <1>1, <2>1, <2>2, Sharded
    <2> QED
        BY <1>1, <2>3 DEF Owned, Claimed, Alone
<1> QED
    BY <1>2, <1>3 DEF SetupInv

LEMMA LayersKeep == SetupInv /\ ShardLayers => SetupInv'
<1> SUFFICES ASSUME SetupInv, ShardLayers PROVE SetupInv'
    OBVIOUS
<1>1. /\ stage = "layers" /\ stage' = "root"
      /\ UNCHANGED <<model, config, profile, params>> /\ params \subseteq Param
    BY NextStage DEF ShardLayers, SetupInv, Kept
<1>2. Kept' /\ Dtypes' /\ Adapters' /\ Frozen'
    BY <1>1, ShardingKeeps
<1>3. Units'
    <2> SUFFICES ASSUME Fsdp
                 PROVE  Owned' /\ Claimed(Alone)' /\ Claimed(Layers)'
        BY <1>1 DEF Units, Fsdp
    <2>1. /\ Owned /\ Claimed(Alone) /\ Alone' = Alone /\ Layers' = Layers
          /\ \A at \in DOMAIN unit : \E n \in Alone : Inside(at, n)
        BY <1>1 DEF SetupInv, Units, Alone, Layers, Named
    <2>2. FullyShard(Layers)
        BY DEF ShardLayers, Fsdp
    <2>3. (\A n \in Layers : n.name \in Names) /\ Apart(Layers)
        BY <1>1, WhatIsSharded DEF Introspected
    <2>4. /\ DOMAIN unit \subseteq DOMAIN unit'
          /\ \A at \in DOMAIN unit : unit'[at] = unit[at]
          /\ \A p \in params : (\E n \in Layers : Inside(p.at, n)) => p.at \in DOMAIN unit'
          /\ \A at \in DOMAIN unit' \ DOMAIN unit :
                /\ \E p \in params : at = p.at
                /\ \A n \in Layers : Inside(at, n) => unit'[at] = n.name
        BY <1>1, <2>2, <2>3, Sharded
    <2>5. \A at \in DOMAIN unit' \ DOMAIN unit : \A n \in Alone : ~Inside(at, n)
        BY <2>1, <2>4 DEF Claimed
    <2>6. Owned'
        BY <1>1, <2>1, <2>4, <2>5 DEF Owned
    <2>7. Claimed(Alone)' /\ Claimed(Layers)'
        BY <1>1, <2>1, <2>4 DEF Claimed
    <2> QED
        BY <2>6, <2>7
<1> QED
    BY <1>2, <1>3 DEF SetupInv

LEMMA RootKeeps == SetupInv /\ ShardRoot => SetupInv'
<1> SUFFICES ASSUME SetupInv, ShardRoot PROVE SetupInv'
    OBVIOUS
<1>1. /\ stage = "root" /\ stage' = "done"
      /\ UNCHANGED <<model, config, profile, params>> /\ params \subseteq Param
    BY NextStage DEF ShardRoot, SetupInv, Kept
<1>2. Kept' /\ Dtypes' /\ Adapters' /\ Frozen'
    BY <1>1, ShardingKeeps
<1>3. Units'
    <2> SUFFICES ASSUME Fsdp
                 PROVE  /\ Owned' /\ Claimed(Alone)' /\ Claimed(Layers)'
                        /\ \A p \in params : p.at \in DOMAIN unit'
        BY <1>1 DEF Units, Fsdp
    <2>1. Owned /\ Claimed(Alone) /\ Claimed(Layers) /\ Alone' = Alone /\ Layers' = Layers
        BY <1>1 DEF SetupInv, Units, Alone, Layers, Named
    <2> DEFINE root == [name |-> <<>>, cls |-> "model", kind |-> "block"]
    <2>2. FullyShard({root})
        BY DEF ShardRoot, Fsdp
    <2>3. root.name \in Names /\ root.name = <<>>
        BY DEF Names
    <2> HIDE DEF root
    <2>4. (\A n \in {root} : n.name \in Names) /\ Apart({root})
        BY <2>3 DEF Apart
    <2>5. /\ DOMAIN unit \subseteq DOMAIN unit'
          /\ \A at \in DOMAIN unit : unit'[at] = unit[at]
          /\ \A p \in params : (\E n \in {root} : Inside(p.at, n)) => p.at \in DOMAIN unit'
          /\ \A at \in DOMAIN unit' \ DOMAIN unit : \E p \in params : at = p.at
        BY <1>1, <2>2, <2>4, Sharded
    <2>6. \A p \in params : p.at \in DOMAIN unit'
        <3> TAKE p \in params
        <3>1. Inside(p.at, root)
            BY <1>1, <2>3, EverythingInRoot DEF Inside, Param
        <3> QED
            BY <2>5, <3>1
    <2>7. \A at \in DOMAIN unit' \ DOMAIN unit :
             /\ \A n \in Alone : ~Inside(at, n)
             /\ \A n \in Layers : ~Inside(at, n)
        BY <2>1, <2>5 DEF Claimed
    <2>8. Owned'
        BY <1>1, <2>1, <2>5, <2>7 DEF Owned
    <2> QED
        BY <1>1, <2>1, <2>6, <2>8 DEF Claimed
<1> QED
    BY <1>2, <1>3 DEF SetupInv

\* For all models and configurations: what build_model and wrap_model have
\* done to the parameters at each point, and the units so far.
THEOREM SetupInvariant == SetupSpec => []SetupInv
<1>1. SetupInit => SetupInv
    BY DEF SetupInit, SetupInv, Kept, Stages, Introspected, Dtypes, Adapters,
           Frozen, Units, Owned, Claimed
<1>2. SetupInv /\ [SetupNext]_setupVars => SetupInv'
    <2> SUFFICES ASSUME SetupInv, [SetupNext]_setupVars PROVE SetupInv'
        OBVIOUS
    <2>1. CASE LoadModel
        BY <2>1, LoadKeeps
    <2>2. CASE Introspect
        BY <2>2, IntrospectKeeps
    <2>3. CASE ApplyLora
        BY <2>3, LoraKeeps
    <2>4. CASE CastAdapters
        BY <2>4, CastKeeps
    <2>5. CASE FreezeRouters
        BY <2>5, FreezeKeeps
    <2>6. CASE ShardExperts
        BY <2>6, ExpertsKeep
    <2>7. CASE ShardLayers
        BY <2>7, LayersKeep
    <2>8. CASE ShardRoot
        BY <2>8, RootKeeps
    <2>9. CASE UNCHANGED setupVars
        <3>1. Kept' /\ Dtypes'
            BY <2>9 DEF setupVars, SetupInv, Kept, Introspected, ProfileDtype, Dtypes,
                         Base, Adapter, LoadDtype, Fsdp
        <3>2. Frozen' /\ Units'
            BY <2>9, ZenonT(60)
            DEF setupVars, SetupInv, Frozen, RouterParam, InRouter, Units, Owned,
                Claimed, Alone, Layers, Named, Fsdp
        <3>3. Adapters'
            BY <2>9 DEF setupVars, SetupInv, Adapters, Introspected, Adapted, Targets,
                         AutoTargets, ExpertLinears, Sample
        <3> QED
            BY <3>1, <3>2, <3>3 DEF SetupInv
    <2>10. CASE SetUp
        BY <2>9, <2>10 DEF SetUp
    <2> QED
        BY <2>1, <2>2, <2>3, <2>4, <2>5, <2>6, <2>7, <2>8, <2>9, <2>10 DEF SetupNext
<1> QED
    BY <1>1, <1>2, PTL DEF SetupSpec

\* Under FSDP2 all parameters have the dtype of the base, and so those of a
\* unit; under DDP the adapters that train are still float32 (lora.py:9-14).
THEOREM DtypesAgree == SetupSpec => []DtypesFit
<1>1. SetupInv => DtypesFit
    BY DEF SetupInv, Dtypes, DtypesFit, Done, Fsdp
<1> QED
    BY <1>1, SetupInvariant, PTL

\* The parameters of an expert are a unit of their own, and those of a layer
\* that are in no expert are one (fsdp.py:8).
THEOREM ExpertsAlone == SetupSpec => []ExpertsGatheredAlone
<1>1. SetupInv => ExpertsGatheredAlone
    <2> SUFFICES ASSUME SetupInv, Done, Fsdp, config.shardExperts, NEW p \in params
                 PROVE  LET mine == {n \in profile.experts : Inside(p.at, n)}
                        IN  /\ p.at \in DOMAIN unit
                            /\ \A n \in mine : unit[p.at] = n.name
                            /\ mine = {} => \A n \in Layers :
                                               Inside(p.at, n) => unit[p.at] = n.name
        BY DEF ExpertsGatheredAlone, Fsdp
    <2>1. Alone = profile.experts
        BY WhatIsSharded DEF Done, Introspected, Alone
    <2>2. Owned /\ p.at \in DOMAIN unit
        BY DEF SetupInv, Units, Done
    <2> QED
        BY <2>1, <2>2 DEF Owned
<1> QED
    BY <1>1, SetupInvariant, PTL

\* No router of a mixture of experts trains under LoRA, be it found by its
\* place or by its name alone, and be its name among the targets or not
\* (lora.py:138).
THEOREM NoRouterTrains == SetupSpec => []RoutersFrozen
<1>1. SetupInv => RoutersFrozen
    <2> SUFFICES ASSUME SetupInv, Done, config.lora, config.freezeRouter, profile.isMoe,
                        NEW p \in params, NEW r \in model.routers, IsPrefix(r, p.at)
                 PROVE  ~p.trainable
        BY DEF RoutersFrozen
    <2>1. /\ model \in Models /\ p.at \in Names /\ r \in Names
          /\ profile.routers = Routers(model)
        BY ModuleNames DEF SetupInv, Kept, Param, Done, Introspected
    <2>2. ToSet(r) \subseteq ToSet(p.at)
        BY <2>1, PrefixElements
    <2>3. (\E n \in Routers(model) : n.name = r) \/ ToSet(r) \cap RouterKeywords # {}
        BY <2>1, RouterAssumption
    <2>4. RouterParam(p)
        BY <2>1, <2>2, <2>3 DEF RouterParam, InRouter, Inside
    <2> QED
        BY <2>4 DEF SetupInv, Frozen, Done
<1> QED
    BY <1>1, SetupInvariant, PTL

\* With targets: auto every projection of the decoder layers gets an adapter
\* and, where the experts are found, no router does, although only the first
\* layer is looked at (introspect.py:28).
THEOREM ProjectionsReached == SetupSpec => []AutoReachesProjections
<1>1. SetupInv => AutoReachesProjections
    <2> SUFFICES ASSUME SetupInv, Done, config.lora, AutoTargets, profile.layers # {},
                        NEW n \in Modules(model), n.kind = "linear",
                        NEW l \in profile.layers, Inside(n.name, l)
                 PROVE  IF n.name \in model.routers
                        THEN profile.experts # {} =>
                                ~\E p \in params : p.at = n.name /\ p.part = "lora"
                        ELSE \E p \in params : p.at = n.name /\ p.part = "lora"
        BY DEF AutoReachesProjections
    <2>1. /\ model \in Models /\ profile.experts = Experts(model)
          /\ profile.layers = DecoderLayers(model) /\ profile.targets = LoraTargets(model)
        BY DEF SetupInv, Kept, Done, Introspected
    <2>2. /\ \A k \in Adapted : \E p \in params : p.at = k.name /\ p.part = "lora"
          /\ \A p \in params : p.part = "lora" => \E k \in Adapted : p.at = k.name
        BY DEF SetupInv, Adapters, Done, Introspected
    <2>3. profile.targets = {Leaf(k) : k \in {m \in Modules(model) :
                               /\ m.kind = "linear"
                               /\ Inside(m.name, First(model, DecoderLayers(model)))}}
                              \ {Leaf(r) : r \in Routers(model)}
        BY <2>1 DEF LoraTargets
    <2>4. \A r \in Routers(model) : Leaf(r) \in LooksLikeRouter
        BY DEF Routers
    <2>5. Targets = IF profile.targets = {} THEN PeftDefaults ELSE profile.targets
        BY DEF Targets
    <2>6. CASE n.name \in model.routers
        <3> SUFFICES ASSUME profile.experts # {},
                            NEW p \in params, p.at = n.name, p.part = "lora"
                     PROVE  FALSE
            BY <2>6
        <3>1. PICK r \in Routers(model) : Leaf(r) = Leaf(n)
            BY <2>1, <2>6, LikenessAssumption
        <3>2. PICK k \in Adapted : k.name = n.name
            BY <2>2
        <3>3. Leaf(n) \in Targets
            BY <3>2 DEF Adapted, Leaf
        <3>4. Leaf(n) \notin profile.targets
            BY <2>3, <3>1
        <3>5. Leaf(n) \notin PeftDefaults
            BY <2>4, <3>1 DEF PeftDefaults, LooksLikeRouter
        <3> QED
            BY <2>5, <3>3, <3>4, <3>5
    <2>7. CASE n.name \notin model.routers
        <3>1. /\ Leaf(n) \notin LooksLikeRouter
              /\ \E k \in Modules(model) : /\ k.kind = "linear" /\ Leaf(k) = Leaf(n)
                                           /\ Inside(k.name, First(model, DecoderLayers(model)))
            BY <2>1, <2>7, LikenessAssumption
        <3>2. Leaf(n) \in profile.targets
            BY <2>3, <2>4, <3>1
        <3>3. n \in Adapted
            BY <2>5, <3>2 DEF Adapted
        <3> QED
            BY <2>2, <2>7, <3>3
    <2> QED
        BY <2>6, <2>7
<1> QED
    BY <1>1, SetupInvariant, PTL
=============================================================================
