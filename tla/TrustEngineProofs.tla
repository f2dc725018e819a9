--------------------------- MODULE TrustEngineProofs ---------------------------
(* Theorems about TrustEngine, for every set of nodes, every range of trust  *)
(* that holds the fixpoint of the decay, and every number of runs.           *)
EXTENDS TrustEngine, FiniteSetTheorems, TLAPS

-------------------------------------------------------------------------------
(* Trust. *)

\* The decay takes away at least what the strongest similarity can add.
LEMMA RevisedInRange ==
  ASSUME NEW a \in -Largest..Largest, NEW s \in -1..1, NEW p \in Pull
  PROVE  Revised(a, s, p) \in -Largest..Largest
<1>1. p \in 0..25 /\ Largest \in Nat /\ Largest >= 1225
  BY TrustAssumption
<1>2. s * p \in -25..25
  <2>1. CASE s = -1  BY <1>1, <2>1
  <2>2. CASE s = 0   BY <1>1, <2>2
  <2>3. CASE s = 1   BY <1>1, <2>3
  <2> QED  BY <2>1, <2>2, <2>3
<1> DEFINE x == a + s * p
<1>3. x \in Int /\ x >= -(Largest + 25) /\ x <= Largest + 25
  <2> DEFINE sp == s * p
  <2>1. sp \in -25..25  BY <1>2
  <2> HIDE DEF sp
  <2>2. a + sp \in Int /\ a + sp >= -(Largest + 25) /\ a + sp <= Largest + 25
    BY <1>1, <2>1
  <2> QED  BY <2>2 DEF sp
<1> HIDE DEF x
<1>4. x - (x \div 50) \in -Largest..Largest
  BY <1>1, <1>3
<1> QED  BY <1>4 DEF Revised, x

\* The revision is monotone: agreement adds, disagreement takes away, and the
\* decay with its rounding keeps the order.
LEMMA RevisedMonotone ==
  ASSUME NEW a \in Int, NEW b \in Int, a >= b,
         NEW s \in -1..1, NEW t \in -1..1, s >= 0, t <= 0,
         NEW p \in Pull, NEW q \in Pull
  PROVE  Revised(a, s, p) >= Revised(b, t, q)
<1>1. p \in 0..25 /\ q \in 0..25
  BY TrustAssumption
<1>2. s * p \in Int /\ s * p >= 0
  <2>1. s = 0 \/ s = 1  OBVIOUS
  <2> QED  BY <1>1, <2>1
<1>3. t * q \in Int /\ t * q <= 0
  <2>1. t = 0 \/ t = -1  OBVIOUS
  <2> QED  BY <1>1, <2>1
<1> DEFINE x == a + s * p
           y == b + t * q
<1>4. x \in Int /\ y \in Int /\ x >= y
  <2> DEFINE sp == s * p
             tq == t * q
  <2>1. sp \in Int /\ sp >= 0 /\ tq \in Int /\ tq <= 0  BY <1>2, <1>3
  <2> HIDE DEF sp, tq
  <2>2. a + sp \in Int /\ b + tq \in Int /\ a + sp >= b + tq  BY <2>1
  <2> QED  BY <2>2 DEF sp, tq
<1> HIDE DEF x, y
<1>5. x - (x \div 50) >= y - (y \div 50)
  BY <1>4
<1> QED  BY <1>5 DEF Revised, x, y

-------------------------------------------------------------------------------
(* Types. *)

LEMMA ZeroTrust == NoTrust \in Trust /\ NoTrust \in [Node -> -1..1]
<1> QED  BY TrustAssumption DEF NoTrust, Trust

LEMMA InitType == Init => TypeOK
<1> SUFFICES ASSUME Init PROVE TypeOK
  OBVIOUS
<1>1. Fresh \in [is : Presence, known : SUBSET Node, alpha : Trust]
  BY ZeroTrust DEF Fresh, Presence
<1>2. NoTrust \in [Node -> Nat] /\ NoneHeard \in [Node -> SUBSET Keys]
  BY DEF NoTrust, NoneHeard
<1> QED
  BY <1>1, <1>2, ZeroTrust, RunsAssumption
  DEF Init, TypeOK, States, Presence, NoCkpt, NoCache, NoLora, Rows, Run

LEMMA LoadedType ==
  ASSUME TypeOK
  PROVE  Loaded.known \in SUBSET Node /\ Loaded.alpha \in Trust
<1> QED  BY ZeroTrust DEF TypeOK, Loaded, Fresh

\* Nothing is asked for, so nothing is read.
LEMMA DeltaIsEmptyOrDummy ==
  ASSUME NEW checkpointed \in BOOLEAN
  PROVE  DeltaFrom(checkpointed) \in {{}, Dummy} /\ DeltaFrom(checkpointed) \in SUBSET Keys
<1> QED  BY DEF DeltaFrom, DcpLoad, AskedFor, Keys

LEMMA ExitType ==
  ASSUME TypeOK, Exit, aborts' \in 0..MaxAborts, published' \in SUBSET Run,
         learned' \in SUBSET Run
  PROVE  TypeOK'
<1>1. NoneHeard \in [Node -> SUBSET Keys]
  BY DEF NoneHeard
<1> QED
  BY <1>1, ZeroTrust, RunsAssumption
  DEF TypeOK, Exit, States, disk, Run, Presence

\* The steps of training, which only touch the cache, the checkpoint and delta_i.
LEMMA TrainingType ==
  ASSUME TypeOK,
         Prepare \/ Tokenize \/ TokenizeEnds \/ Truncate \/ Train \/ TrainSaves
         \/ TrainSavesNothing \/ TrainFails \/ ExtractDelta
  PROVE  TypeOK'
<1> USE DEF TypeOK, Goto, States, memory, disk, history, Rows
<1>1. CASE Prepare  BY <1>1, RunsAssumption DEF Prepare, NoCache
<1>2. CASE Tokenize  BY <1>2 DEF Tokenize
<1>3. CASE TokenizeEnds  BY <1>3 DEF TokenizeEnds
<1>4. CASE Truncate  BY <1>4, RunsAssumption, SMTT(30) DEF Truncate
<1>5. CASE Train
  <2>1. BaseModel \in Seq(Run)  BY DEF BaseModel
  <2> QED  BY <1>5, <2>1, RunsAssumption DEF Train
<1>6. CASE TrainSaves  BY <1>6 DEF TrainSaves
<1>7. CASE TrainSavesNothing  BY <1>7 DEF TrainSavesNothing
<1>8. CASE TrainFails  BY <1>8 DEF TrainFails
<1>9. CASE ExtractDelta
  BY <1>9, DeltaIsEmptyOrDummy DEF ExtractDelta
<1> QED  BY <1>1, <1>2, <1>3, <1>4, <1>5, <1>6, <1>7, <1>8, <1>9

\* The steps on the base and on the aggregate.
LEMMA BaseType ==
  ASSUME TypeOK, Numbered, Fetch \/ FetchEnds \/ Aggregate \/ Apply \/ SaveAggregate
  PROVE  TypeOK'
<1> USE DEF TypeOK, Goto, States, memory, history, Presence
<1>1. CASE Fetch  BY <1>1 DEF Fetch
<1>2. CASE FetchEnds  BY <1>2 DEF FetchEnds
<1>3. CASE Aggregate  BY <1>3 DEF Aggregate
<1>4. CASE Apply
  <2>1. run \in Run  BY <1>4, RunsAssumption DEF Apply, Numbered, Run
  <2> QED  BY <1>4, <2>1, SMTT(30) DEF Apply
<1>5. CASE SaveAggregate
  <2>1. Aggregated \in SUBSET Keys
    BY DEF Aggregated
  <2> QED  BY <1>5, <2>1 DEF SaveAggregate
<1> QED  BY <1>1, <1>2, <1>3, <1>4, <1>5

LEMMA CollectType ==
  ASSUME TypeOK, NEW peers \in SUBSET (args \ {Me}), Collect(peers)
  PROVE  TypeOK'
<1>1. PICK d \in [peers -> PeerDelta] :
        heard' = [n \in Node |-> IF n \in peers THEN d[n]
                                 ELSE IF n = Me THEN delta ELSE {}]
  BY DEF Collect
<1>2. \A n \in peers : d[n] \in SUBSET Keys
  BY <1>1, DeltaIsEmptyOrDummy DEF PeerDelta
<1>3. heard' \in [Node -> SUBSET Keys]
  BY <1>1, <1>2 DEF TypeOK
<1> QED
  BY <1>3, MeAssumption DEF Collect, TypeOK, Goto, States, disk, history

LEMMA LoadType ==
  ASSUME TypeOK, LoadState
  PROVE  TypeOK'
<1>1. PICK draw \in [Unmet -> Drawn] :
        alpha' = [n \in Node |-> IF n \in Unmet THEN draw[n] ELSE Loaded.alpha[n]]
  BY DEF LoadState
<1>2. alpha' \in Trust
  BY <1>1, LoadedType, TrustAssumption, ZenonT(60) DEF Trust
<1>3. drawn' \in [Node -> Nat]
  BY DEF LoadState, TypeOK
<1> QED
  BY <1>2, <1>3, LoadedType DEF LoadState, TypeOK, Goto, States, disk

\* The steps on trust; here the range of alpha is at stake.
LEMMA TrustType ==
  ASSUME TypeOK, Compare \/ ReviseTrust \/ OpenState \/ DumpState
  PROVE  TypeOK'
<1> USE DEF TypeOK, Goto, States, disk, history
<1>1. CASE Compare
  BY <1>1 DEF Compare
<1>2. CASE ReviseTrust
  <2>1. PICK pull \in [args -> Pull] :
          alpha' = [n \in Node |-> IF n \in args THEN Revised(alpha[n], sim[n], pull[n])
                                   ELSE alpha[n]]
    BY <1>2 DEF ReviseTrust
  <2>2. \A n \in args : Revised(alpha[n], sim[n], pull[n]) \in -Largest..Largest
    BY RevisedInRange DEF Trust
  <2>3. alpha' \in Trust  BY <2>1, <2>2 DEF Trust
  <2> QED  BY <1>2, <2>3 DEF ReviseTrust
<1>3. CASE OpenState
  BY <1>3, ZeroTrust DEF OpenState, Fresh, Presence, memory
<1>4. CASE DumpState  BY <1>4 DEF DumpState, Presence, memory
<1> QED  BY <1>1, <1>2, <1>3, <1>4

\* The ways a run ends.
LEMMA EndType ==
  ASSUME TypeOK, Numbered, PrintResult \/ Raise \/ Abort
  PROVE  TypeOK'
<1>1. CASE PrintResult
  <2>1. run \in Run
    <3>1. run \in 0..MaxRuns /\ run # 0
      BY <1>1 DEF PrintResult, TypeOK, Numbered
    <3> QED
      BY <3>1, RunsAssumption DEF Run
  <2>2. /\ aborts' \in 0..MaxAborts
        /\ published' \in SUBSET Run /\ learned' \in SUBSET Run
    <3>1. aborts \in 0..MaxAborts /\ published \in SUBSET Run /\ learned \in SUBSET Run
      BY DEF TypeOK
    <3> QED
      BY <1>1, <2>1, <3>1 DEF PrintResult
  <2>3. Exit
    BY <1>1 DEF PrintResult
  <2> QED
    BY <2>2, <2>3, ExitType
<1>2. CASE Raise  BY <1>2, ExitType DEF Raise, TypeOK
<1>3. CASE Abort
  <2>1. aborts \in 0..MaxAborts /\ published \in SUBSET Run /\ learned \in SUBSET Run
    BY DEF TypeOK
  <2>2. /\ aborts < MaxAborts /\ aborts' = aborts + 1
        /\ published' = published /\ learned' = learned
        /\ Exit
    BY <1>3 DEF Abort
  <2>3. aborts' \in 0..MaxAborts
    BY <2>1, <2>2, RunsAssumption
  <2> QED
    BY <2>1, <2>2, <2>3, ExitType
<1> QED  BY <1>1, <1>2, <1>3

LEMMA TypeStep ==
  ASSUME TypeOK, Numbered, [Next]_vars
  PROVE  TypeOK'
<1>1. CASE StartSome
  <2>1. PICK peers \in SUBSET (Node \ {Me}) : StartRun(peers)
    BY <1>1 DEF StartSome
  <2> QED
    BY <2>1, MeAssumption, RunsAssumption
    DEF StartRun, TypeOK, Goto, States, disk, history
<1>2. CASE UNCHANGED vars  BY <1>2 DEF vars, memory, disk, history, TypeOK
<1> QED
  BY <1>1, <1>2, TrainingType, BaseType, CollectType, LoadType, TrustType, EndType
  DEF Next, Step

-------------------------------------------------------------------------------
(* The inductive invariant. *)

\* The steps inside a run, but for the one that reads the state file.
Inside ==
  \/ Fetch \/ FetchEnds
  \/ Prepare \/ Tokenize \/ TokenizeEnds \/ Truncate
  \/ Train \/ TrainSaves \/ TrainSavesNothing \/ TrainFails \/ ExtractDelta
  \/ (\E peers \in SUBSET (args \ {Me}) : Collect(peers))
  \/ Aggregate \/ Apply \/ SaveAggregate
  \/ Compare \/ ReviseTrust \/ OpenState \/ DumpState

Ends == PrintResult \/ Raise \/ Abort

LEMMA NextCases ==
  [Next]_vars <=> StartSome \/ LoadState \/ Inside \/ Ends \/ UNCHANGED vars
<1> QED  BY DEF Next, Step, Inside, Ends

BeforeLoad == {"idle", "fetch", "fetching", "load"}

LEMMA InsideKeeps ==
  ASSUME Inside
  PROVE  /\ pc # "idle" /\ pc' # "idle" /\ pc # "print"
         /\ UNCHANGED <<run, published, known, drawn>>
         /\ pc \in BeforeLoad <=> pc' \in BeforeLoad
         /\ pc \in BeforeLoad => saved' = saved
         /\ pc' = "print" => saved' = [is |-> "whole", known |-> known, alpha |-> alpha]
<1> USE DEF Goto, memory, disk, history, BeforeLoad
<1>1. CASE Fetch \/ FetchEnds \/ Prepare \/ Tokenize \/ TokenizeEnds \/ Truncate
  BY <1>1 DEF Fetch, FetchEnds, Prepare, Tokenize, TokenizeEnds, Truncate
<1>2. CASE Train \/ TrainSaves \/ TrainSavesNothing \/ TrainFails \/ ExtractDelta
  BY <1>2 DEF Train, TrainSaves, TrainSavesNothing, TrainFails, ExtractDelta
<1>3. CASE \E peers \in SUBSET (args \ {Me}) : Collect(peers)
  BY <1>3 DEF Collect
<1>4. CASE Aggregate \/ Apply \/ SaveAggregate
  BY <1>4 DEF Aggregate, Apply, SaveAggregate
<1>5. CASE Compare \/ ReviseTrust \/ OpenState \/ DumpState
  BY <1>5 DEF Compare, ReviseTrust, OpenState, DumpState
<1> QED  BY <1>1, <1>2, <1>3, <1>4, <1>5 DEF Inside

LEMMA NumberedStep ==
  ASSUME TypeOK, Numbered, [Next]_vars
  PROVE  Numbered'
<1>0. run \in Nat  BY RunsAssumption DEF TypeOK
<1>1. CASE StartSome
  <2>1. pc = "idle" /\ pc' # "idle" /\ run' = run + 1 /\ published' = published
    BY <1>1 DEF StartSome, StartRun, Goto, history
  <2> QED  BY <1>0, <2>1 DEF Numbered, EndedRuns
<1>2. CASE LoadState \/ Inside
  <2>1. pc # "idle" /\ pc' # "idle" /\ UNCHANGED <<run, published>>
    BY <1>2, InsideKeeps DEF LoadState, Goto
  <2> QED  BY <2>1 DEF Numbered, EndedRuns
<1>3. CASE Ends
  <2>1. /\ pc # "idle" /\ pc' = "idle" /\ run' = run
        /\ published' \subseteq published \cup {run}
    BY <1>3 DEF Ends, PrintResult, Raise, Abort, Exit
  <2>2. EndedRuns = 1..(run - 1) /\ EndedRuns' = 1..run /\ run # 0
    BY <2>1 DEF Numbered, EndedRuns
  <2>3. EndedRuns' = EndedRuns \cup {run}
    BY <1>0, <2>2
  <2> QED  BY <2>1, <2>3 DEF Numbered
<1>4. CASE UNCHANGED vars
  BY <1>4 DEF vars, history, Numbered, EndedRuns
<1> QED  BY <1>1, <1>2, <1>3, <1>4, NextCases

LEMMA TokensStep ==
  ASSUME TypeOK, TokensOfRun, [Next]_vars
  PROVE  TokensOfRun'
<1> USE DEF TypeOK, TokensOfRun, CacheWhole, Goto, memory, disk
<1>1. CASE StartSome  BY <1>1 DEF StartSome, StartRun
<1>2. CASE Prepare \/ Tokenize \/ TokenizeEnds \/ Truncate
  BY <1>2 DEF Prepare, Tokenize, TokenizeEnds, Truncate
<1>3. CASE Fetch \/ FetchEnds \/ LoadState \/ Aggregate \/ Apply \/ SaveAggregate
  BY <1>3 DEF Fetch, FetchEnds, LoadState, Aggregate, Apply, SaveAggregate
<1>4. CASE Train \/ TrainSaves \/ TrainSavesNothing \/ TrainFails \/ ExtractDelta
  BY <1>4 DEF Train, TrainSaves, TrainSavesNothing, TrainFails, ExtractDelta, Trainable
<1>5. CASE \E peers \in SUBSET (args \ {Me}) : Collect(peers)
  BY <1>5 DEF Collect
<1>6. CASE Compare \/ ReviseTrust \/ OpenState \/ DumpState
  BY <1>6 DEF Compare, ReviseTrust, OpenState, DumpState
<1>7. CASE Ends
  BY <1>7 DEF Ends, PrintResult, Raise, Abort, Exit
<1>8. CASE UNCHANGED vars  BY <1>8 DEF vars
<1> QED
  BY <1>1, <1>2, <1>3, <1>4, <1>5, <1>6, <1>7, <1>8, NextCases DEF Inside

\* An empty delta and a dummy are like no other one.
LEMMA NothingLearnedStep ==
  ASSUME TypeOK, NothingLearned, [Next]_vars
  PROVE  NothingLearned'
<1> USE DEF NothingLearned, memory, disk
<1>1. CASE ExtractDelta
  BY <1>1, DeltaIsEmptyOrDummy DEF ExtractDelta
<1>2. CASE Compare
  <2>1. \A n \in Node \ {Me} : Similarities(n) = {0}
    BY DEF Similarities
  <2>2. sim' \in [Node -> -1..1] /\ \A n \in Node : sim'[n] \in Similarities(n)
    BY <1>2 DEF Compare
  <2>3. delta' = delta
    BY <1>2 DEF Compare
  <2> QED  BY <2>1, <2>2, <2>3
<1>3. CASE Ends
  <2>1. delta' = {} /\ sim' = NoTrust
    BY <1>3 DEF Ends, PrintResult, Raise, Abort, Exit
  <2> QED  BY <2>1 DEF NoTrust
<1>4. CASE UNCHANGED <<delta, sim>>
  BY <1>4
<1>5. UNCHANGED <<delta, sim>> \/ ExtractDelta \/ Compare \/ Ends
  <2>1. CASE StartSome \/ LoadState
    BY <2>1 DEF StartSome, StartRun, LoadState
  <2>2. CASE Fetch \/ FetchEnds \/ Prepare \/ Tokenize \/ TokenizeEnds \/ Truncate
    BY <2>2 DEF Fetch, FetchEnds, Prepare, Tokenize, TokenizeEnds, Truncate
  <2>3. CASE Train \/ TrainSaves \/ TrainSavesNothing \/ TrainFails
    BY <2>3 DEF Train, TrainSaves, TrainSavesNothing, TrainFails
  <2>4. CASE \E peers \in SUBSET (args \ {Me}) : Collect(peers)
    BY <2>4 DEF Collect
  <2>5. CASE Aggregate \/ Apply \/ SaveAggregate
    BY <2>5 DEF Aggregate, Apply, SaveAggregate
  <2>6. CASE ReviseTrust \/ OpenState \/ DumpState
    BY <2>6 DEF ReviseTrust, OpenState, DumpState
  <2>7. CASE UNCHANGED vars  BY <2>7 DEF vars
  <2> QED  BY <2>1, <2>2, <2>3, <2>4, <2>5, <2>6, <2>7, NextCases DEF Inside
<1> QED  BY <1>1, <1>2, <1>3, <1>4, <1>5

LEMMA UnfinishedFinite ==
  ASSUME TypeOK
  PROVE  IsFiniteSet(Unfinished) /\ Cardinality(Unfinished) \in Nat
<1>1. run \in Nat  BY RunsAssumption DEF TypeOK
<1>2. IsFiniteSet(EndedRuns)
  BY <1>1, FS_Interval DEF EndedRuns
<1> QED  BY <1>2, FS_Subset, FS_CardinalityType DEF Unfinished

\* A draw makes a node known, and a run that loses what is known is unfinished.
LEMMA DrawsStep ==
  ASSUME TypeOK, TypeOK', Numbered, DrawsAccounted, [Next]_vars
  PROVE  DrawsAccounted'
<1> DEFINE Had(n) == IF n \in Remembered THEN 1 ELSE 0
<1>0. /\ run \in Nat /\ \A n \in Node : drawn[n] \in Nat
      /\ Cardinality(Unfinished) \in Nat
      /\ \A n \in Node : drawn[n] <= Had(n) + Cardinality(Unfinished)
  BY RunsAssumption, UnfinishedFinite, SMTT(30) DEF TypeOK, DrawsAccounted
<1>1. CASE StartSome
  <2>1. /\ pc = "idle" /\ pc' \in {"fetch", "load"} /\ run' = run + 1
        /\ UNCHANGED <<published, drawn, saved>>
    BY <1>1 DEF StartSome, StartRun, Goto, history, disk
  <2>2. EndedRuns' = EndedRuns
    BY <1>0, <2>1 DEF EndedRuns
  <2>3. Unfinished' = Unfinished /\ Remembered' = Remembered
    BY <2>1, <2>2 DEF Unfinished, Remembered, Loaded
  <2> QED  BY <2>1, <2>3 DEF DrawsAccounted
<1>2. CASE LoadState
  <2>1. /\ pc = "load" /\ pc' = "prepare" /\ UNCHANGED <<run, published>>
        /\ known' = Loaded.known \cup args
        /\ drawn' = [n \in Node |-> IF n \in Unmet THEN drawn[n] + 1 ELSE drawn[n]]
    BY <1>2 DEF LoadState, Goto
  <2>2. Unfinished' = Unfinished
    BY <2>1 DEF Unfinished, EndedRuns
  <2>3. Remembered = Loaded.known /\ Remembered' = Loaded.known \cup args
    BY <2>1 DEF Remembered
  <2>4. ASSUME NEW n \in Node
        PROVE  drawn'[n] <= (IF n \in Remembered' THEN 1 ELSE 0) + Cardinality(Unfinished)
    <3>1. CASE n \in Unmet
      <4>1. n \notin Remembered /\ n \in Remembered' /\ drawn'[n] = drawn[n] + 1
        BY <2>1, <2>3, <3>1 DEF Unmet
      <4> QED  BY <1>0, <4>1
    <3>2. CASE n \notin Unmet
      <4>1. drawn'[n] = drawn[n] /\ (n \in Remembered => n \in Remembered')
        BY <2>1, <2>3, <3>2
      <4> QED  BY <1>0, <4>1
    <3> QED  BY <3>1, <3>2
  <2> QED  BY <2>1, <2>2, <2>4 DEF DrawsAccounted
<1>3. CASE Inside
  <2>1. Unfinished' = Unfinished
    BY <1>3, InsideKeeps DEF Unfinished, EndedRuns
  <2>2. Remembered' = Remembered
    BY <1>3, InsideKeeps DEF Remembered, Loaded, BeforeLoad
  <2> QED  BY <1>3, <2>1, <2>2, InsideKeeps DEF DrawsAccounted
<1>4. CASE Ends
  <2>1. pc # "idle" /\ pc' = "idle" /\ UNCHANGED <<run, drawn, saved>>
    BY <1>4 DEF Ends, PrintResult, Raise, Abort, Exit, disk
  <2>2. /\ EndedRuns' = EndedRuns \cup {run} /\ run \notin EndedRuns
        /\ run \notin published
    <3>1. EndedRuns = 1..(run - 1) /\ EndedRuns' = 1..run /\ run # 0
      BY <2>1 DEF EndedRuns, Numbered
    <3>2. EndedRuns' = EndedRuns \cup {run} /\ run \notin EndedRuns
      BY <1>0, <3>1
    <3> QED  BY <3>2 DEF Numbered
  <2>3. CASE PrintResult
    <3>1. Unfinished' = Unfinished
      BY <2>2, <2>3 DEF PrintResult, Unfinished
    <3>2. Remembered = known /\ Remembered' = saved.known /\ saved.known = known
      BY <2>1, <2>3 DEF PrintResult, Remembered, Loaded, DrawsAccounted
    <3>3. Remembered' = Remembered
      BY <3>2
    <3> QED  BY <2>1, <3>1, <3>3 DEF DrawsAccounted
  <2>4. CASE Raise \/ Abort
    <3>1. Unfinished' = Unfinished \cup {run} /\ run \notin Unfinished
      BY <2>2, <2>4 DEF Raise, Abort, Unfinished
    <3>2. Cardinality(Unfinished') = Cardinality(Unfinished) + 1
      BY <3>1, UnfinishedFinite, FS_AddElement
    <3>3. ASSUME NEW n \in Node
          PROVE  drawn'[n] <= (IF n \in Remembered' THEN 1 ELSE 0)
                              + Cardinality(Unfinished')
      BY <1>0, <2>1, <3>2
    <3> QED  BY <2>1, <3>3 DEF DrawsAccounted
  <2> QED  BY <1>4, <2>3, <2>4 DEF Ends
<1>5. CASE UNCHANGED vars
  <2>1. Unfinished' = Unfinished /\ Remembered' = Remembered
    BY <1>5 DEF vars, history, memory, disk, Unfinished, EndedRuns, Remembered, Loaded
  <2> QED
    BY <1>5, <2>1 DEF vars, history, memory, disk, DrawsAccounted
<1> QED  BY <1>1, <1>2, <1>3, <1>4, <1>5, NextCases

LEMMA InitIInv == Init => IInv
<1> SUFFICES ASSUME Init PROVE IInv
  OBVIOUS
<1>1. TypeOK  BY InitType
<1>2. Numbered /\ TokensOfRun
  BY DEF Init, Numbered, TokensOfRun, CacheWhole
<1>3. NothingLearned  BY DEF Init, NothingLearned, NoTrust
<1>4. DrawsAccounted
  <2>1. Cardinality(Unfinished) \in Nat  BY <1>1, UnfinishedFinite
  <2>2. pc = "idle" /\ \A n \in Node : drawn[n] = 0
    BY DEF Init, NoTrust
  <2> QED  BY <2>1, <2>2 DEF DrawsAccounted
<1> QED  BY <1>1, <1>2, <1>3, <1>4 DEF IInv

\* In every reachable state, however many runs were cut off and wherever: the
\* conjuncts of IInv, which say what the files and the memory of a run hold at
\* each point of it.
THEOREM InductiveInvariant == Spec => []IInv
<1>1. Init => IInv  BY InitIInv
<1>2. IInv /\ [Next]_vars => IInv'
  BY TypeStep, NumberedStep, TokensStep, NothingLearnedStep, DrawsStep DEF IInv
<1> QED  BY <1>1, <1>2, PTL DEF Spec

-------------------------------------------------------------------------------
(* What follows from it. *)

\* Every variable keeps its type, and trust its range (ml_engine.py 742-749).
THEOREM TypeCorrect == Spec => []TypeOK
<1>1. IInv => TypeOK  BY DEF IInv
<1> QED  BY <1>1, InductiveInvariant, PTL

\* Training reads the tokens of its own run, all of them or the first 80 rows
\* (ml_engine.py 138-144, 376-431).
THEOREM FreshTokens == Spec => []CacheWhole
<1>1. IInv => CacheWhole
  BY DEF IInv, TokensOfRun
<1> QED  BY <1>1, InductiveInvariant, PTL

\* Trust in a node is made up at random once, and at most once more for every run
\* without a result, whichever nodes the runs were given (ml_engine.py 348-366).
THEOREM DrawsBounded == Spec => []DrawnOncePerLoss
<1>1. IInv => DrawnOncePerLoss
  <2> SUFFICES ASSUME IInv, NEW n \in Node
               PROVE  drawn[n] <= 1 + Cardinality(Unfinished)
    BY DEF DrawnOncePerLoss
  <2>1. Cardinality(Unfinished) \in Nat /\ drawn[n] \in Nat
    BY UnfinishedFinite DEF IInv, TypeOK
  <2>2. drawn[n] <= (IF n \in Remembered THEN 1 ELSE 0) + Cardinality(Unfinished)
    BY DEF IInv, DrawsAccounted
  <2> QED  BY <2>1, <2>2
<1> QED  BY <1>1, InductiveInvariant, PTL

LEMMA TrustStepRevises ==
  ASSUME Next, pc = "trust", pc' = "open"
  PROVE  ReviseTrust
<1>1. ~StartSome /\ ~Abort /\ ~PrintResult /\ ~Raise /\ ~Apply /\ ~SaveAggregate
  BY DEF StartSome, StartRun, Abort, PrintResult, Raise, Apply, SaveAggregate, Goto, Exit
<1> QED
  BY <1>1
  DEF Next, Step, Fetch, FetchEnds, LoadState, Prepare, Tokenize, TokenizeEnds,
      Truncate, Train, TrainSaves, TrainSavesNothing, TrainFails, ExtractDelta,
      Collect, Aggregate, Compare, OpenState, DumpState, Goto

\* Without evidence a revision is the decay alone.
LEMMA RevisedFades ==
  ASSUME NEW a \in Int, NEW p \in Pull
  PROVE  LET b == Revised(a, 0, p)
         IN  (a <= b /\ b <= 0) \/ (0 <= b /\ b <= a)
<1>1. p \in Int /\ 0 * p = 0  BY TrustAssumption
<1>2. a + 0 * p = a  BY <1>1
<1>3. LET b == a - (a \div 50) IN (a <= b /\ b <= 0) \/ (0 <= b /\ b <= a)
  OBVIOUS
<1> QED  BY <1>2, <1>3 DEF Revised

\* No run, of any node, moves the trust in a peer but towards zero: nothing that is
\* trained is ever in a delta (ml_engine.py 534-535, 718-749).
THEOREM PeersFade == Spec => TrustOnlyFades
<1> DEFINE Fades ==
      pc = "trust" /\ pc' = "open" =>
        \A n \in args \ {Me} : \/ alpha[n] <= alpha'[n] /\ alpha'[n] <= 0
                               \/ 0 <= alpha'[n] /\ alpha'[n] <= alpha[n]
<1>1. IInv /\ [Next]_vars => [Fades]_vars
  <2> SUFFICES ASSUME IInv, Next, pc = "trust", pc' = "open", NEW n \in args \ {Me}
               PROVE  \/ alpha[n] <= alpha'[n] /\ alpha'[n] <= 0
                      \/ 0 <= alpha'[n] /\ alpha'[n] <= alpha[n]
    OBVIOUS
  <2>1. ReviseTrust  BY TrustStepRevises
  <2>2. PICK pull \in [args -> Pull] :
          alpha' = [k \in Node |-> IF k \in args THEN Revised(alpha[k], sim[k], pull[k])
                                   ELSE alpha[k]]
    BY <2>1 DEF ReviseTrust
  <2>3. n \in Node /\ n \in args /\ n # Me
    BY DEF IInv, TypeOK
  <2>4. alpha[n] \in Int
    BY <2>3, TrustAssumption, SMTT(30) DEF IInv, TypeOK, Trust
  <2>5. sim[n] = 0
    BY <2>3 DEF IInv, NothingLearned
  <2>6. alpha'[n] = Revised(alpha[n], 0, pull[n]) /\ pull[n] \in Pull
    BY <2>2, <2>3, <2>5
  <2> QED  BY <2>4, <2>6, RevisedFades
<1> HIDE DEF Fades
<1>2. Spec => [][Fades]_vars
  BY <1>1, InductiveInvariant, PTL DEF Spec
<1> QED  BY <1>2 DEF TrustOnlyFades, Fades

\* No revision turns the order of two nodes against the evidence (ml_engine.py
\* 742-749).
THEOREM OrderKept == Spec => AlignedStaysAhead
<1> DEFINE Keeps ==
      pc = "trust" /\ pc' = "open" =>
        \A m, n \in args : alpha[m] >= alpha[n] /\ sim[m] >= 0 /\ sim[n] <= 0 =>
                           alpha'[m] >= alpha'[n]
<1>1. TypeOK /\ [Next]_vars => [Keeps]_vars
  <2> SUFFICES ASSUME TypeOK, Next, pc = "trust", pc' = "open",
                      NEW m \in args, NEW n \in args,
                      alpha[m] >= alpha[n], sim[m] >= 0, sim[n] <= 0
               PROVE  alpha'[m] >= alpha'[n]
    OBVIOUS
  <2>1. ReviseTrust  BY TrustStepRevises
  <2>2. PICK pull \in [args -> Pull] :
          alpha' = [k \in Node |-> IF k \in args THEN Revised(alpha[k], sim[k], pull[k])
                                   ELSE alpha[k]]
    BY <2>1 DEF ReviseTrust
  <2>3. m \in Node /\ n \in Node  BY DEF TypeOK
  <2>4. /\ alpha[m] \in Int /\ alpha[n] \in Int
        /\ sim[m] \in -1..1 /\ sim[n] \in -1..1
    BY <2>3, TrustAssumption, SMTT(30) DEF TypeOK, Trust
  <2>5. Revised(alpha[m], sim[m], pull[m]) >= Revised(alpha[n], sim[n], pull[n])
    BY <2>4, RevisedMonotone
  <2> QED  BY <2>2, <2>3, <2>5
<1> HIDE DEF Keeps
<1>2. Spec => [][Keeps]_vars
  BY <1>1, TypeCorrect, PTL DEF Spec
<1> QED  BY <1>2 DEF AlignedStaysAhead, Keeps

================================================================================
