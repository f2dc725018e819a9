--------------------------- MODULE CheckpointProofs ---------------------------
(* Theorems about Checkpoint, for every set of ranks, every bound and every  *)
(* choice of the two numbers of checkpoints to keep.                         *)
EXTENDS Checkpoint, FiniteSetTheorems, WellFoundedInduction, TLAPS

\* A non-empty set of steps has a highest one.
LEMMA HighestOfSteps ==
  ASSUME NEW S, S \subseteq Steps, S # {}
  PROVE  \E u \in S : \A x \in S : x <= u
<1> DEFINE Bounds == {n \in Nat : \A s \in S : s <= n}
<1>1. MaxStep \in Bounds  BY CheckpointBounds DEF Steps
<1>2. PICK n \in Bounds : \A m \in Bounds : ~(m < n)
  <2>1. IsWellFoundedOn(OpToRel(<, Nat), Nat)  BY NatLessThanWellFounded
  <2>2. \E n \in Bounds : \A m \in Bounds : ~(<<m, n>> \in OpToRel(<, Nat))
    <3>1. Bounds \subseteq Nat /\ Bounds # {}  BY <1>1
    <3> HIDE DEF Bounds
    <3> QED  BY <2>1, <3>1, WFMin
  <2> QED  BY <2>2 DEF OpToRel
<1>3. n \in S
  <2> SUFFICES ASSUME n \notin S PROVE FALSE
    OBVIOUS
  <2>1. PICK s \in S : TRUE  OBVIOUS
  <2>2. s \in Nat /\ s > 0  BY DEF Steps
  <2>3. \A x \in S : x \in Nat /\ x <= n /\ x # n  BY DEF Steps
  <2>4. n - 1 \in Bounds  BY <2>1, <2>2, <2>3
  <2> QED  BY <1>2, <2>4
<1> QED  BY <1>3

LEMMA MaxOfSteps ==
  ASSUME NEW S, S \subseteq Steps, S # {}
  PROVE  Max(S) \in S
<1>1. PICK u \in S : \A x \in S : x <= u  BY HighestOfSteps
<1>2. \A x \in S : u >= x  BY <1>1 DEF Steps
<1> QED  BY <1>2 DEF Max

\* Whatever is in the checkpoint directory, a run starts at step 0: the trainer
\* hands a checkpoint to a function that expects the directory of checkpoints.
THEOREM RunsStartFromZero == MaybeResume = 0
<1> DEFINE found == {s \in Steps : final[s] # {} \/ tmp[s] # {}}
<1>1. CASE found = {}  BY <1>1 DEF MaybeResume
<1>2. CASE found # {}
  <2>1. Max(found) \in Steps
    <3>1. found \subseteq Steps  OBVIOUS
    <3> HIDE DEF found
    <3> QED  BY <1>2, <3>1, MaxOfSteps
  <2>2. Max(found) # SaveDir  BY <2>1 DEF Steps, SaveDir
  <2>3. LoadCheckpoint(Max(found)) = 0  BY <2>2 DEF LoadCheckpoint, CandidatesIn
  <2> QED  BY <1>2, <2>3 DEF MaybeResume
<1> QED  BY <1>1, <1>2

-------------------------------------------------------------------------------
(* The inductive invariant. *)

LEMMA InitIInv == Init => IInv
<1> SUFFICES ASSUME Init PROVE IInv
  OBVIOUS
<1>1. TypeOK
  BY RankAssumption, CheckpointBounds DEF Init, TypeOK, States
<1>2. Together  BY DEF Init, Together, Outside
<1>3. RootAlone  BY DEF Init, RootAlone
<1>4. SameStep  BY DEF Init, SameStep
<1>5. Shards  BY RankAssumption DEF Init, Shards
<1>6. NoSentinelInTmp  BY DEF Init, NoSentinelInTmp, Complete
<1> QED  BY <1>1, <1>2, <1>3, <1>4, <1>5, <1>6 DEF IInv

LEMMA Phases ==
  ASSUME Together
  PROVE  \/ \A r \in Rank : pc[r] \in Outside
         \/ \A r \in Rank : pc[r] \in Opening
         \/ \A r \in Rank : pc[r] \in Writing
         \/ \A r \in Rank : pc[r] \in Closing
BY DEF Together

\* A rank that is in a save has a step to save, the same as all others in it.
LEMMA StepInSave ==
  ASSUME IInv
  PROVE  /\ \A r \in Rank : pc[r] # "train" => step[r] \in Steps
         /\ \A r, q \in Rank : pc[r] # "enter" /\ pc[q] # "enter" => step[r] = step[q]
         /\ \A r, q \in Rank : pc[r] \in Opening \cup Writing \cup Closing
                               => step[r] = step[q]
<1>1. \A r \in Rank : pc[r] # "train" => step[r] \in Steps
  BY CheckpointBounds DEF IInv, TypeOK, SameStep, Steps
<1>2. \A r, q \in Rank : pc[r] # "enter" /\ pc[q] # "enter" => step[r] = step[q]
  BY DEF IInv, SameStep
<1>3. \A r, q \in Rank : pc[r] \in Opening \cup Writing \cup Closing
                         => pc[r] # "enter" /\ pc[q] # "enter"
  BY Phases DEF IInv, Outside, Opening, Writing, Closing
<1> QED  BY <1>1, <1>2, <1>3

\* A step of one rank inside a phase keeps the ranks together.
LEMMA StaysTogether ==
  ASSUME Together, TypeOK, NEW r \in Rank, NEW to,
         NEW phase \in {Outside, Opening, Writing, Closing},
         pc[r] \in phase, to \in phase, pc' = [pc EXCEPT ![r] = to]
  PROVE  Together'
<1>1. \A q \in Rank : pc[q] \in phase
  BY Phases DEF Outside, Opening, Writing, Closing
<1>2. \A q \in Rank : pc'[q] \in phase  BY <1>1 DEF TypeOK
<1> QED  BY <1>2 DEF Together, Outside, Opening, Writing, Closing

LEMMA TrainEpochInv ==
  ASSUME IInv, NEW r \in Rank, TrainEpoch(r)
  PROVE  IInv'
<1> USE DEF IInv, TrainEpoch, Goto, disk
<1>1. TypeOK'
  BY CheckpointBounds DEF TypeOK, States, Steps
<1>2. Together'  BY StaysTogether DEF Outside
<1>3. RootAlone'  BY DEF RootAlone, TypeOK
<1>4. SameStep'
  <2>1. \A q \in Rank : step[q] \in Nat  BY CheckpointBounds DEF TypeOK
  <2>2. \A q \in Rank : /\ pc'[q] = IF q = r THEN "enter" ELSE pc[q]
                        /\ step'[q] = IF q = r THEN step[q] + 1 ELSE step[q]
    BY DEF TypeOK
  <2>3. pc[r] = "train"  OBVIOUS
  <2> QED  BY <2>1, <2>2, <2>3 DEF SameStep
<1>5. Shards'
  <2>1. \A q \in Rank : pc[q] \in Outside
    BY Phases DEF Outside, Opening, Writing, Closing
  <2>2. \A q \in Rank : pc'[q] \in Outside  BY <2>1 DEF TypeOK, Outside
  <2> QED  BY <2>2, RankAssumption DEF Shards, Outside
<1>6. NoSentinelInTmp'  BY DEF NoSentinelInTmp, Complete
<1> QED  BY <1>1, <1>2, <1>3, <1>4, <1>5, <1>6

LEMMA BarrierInv ==
  ASSUME IInv, Barrier
  PROVE  IInv'
<1> USE DEF IInv, disk
<1>1. \/ \A r \in Rank : pc[r] = "enter"
      \/ \A r \in Rank : pc[r] = "open"
      \/ \A r \in Rank : pc[r] = "written"
      \/ \A r \in Rank : pc[r] = "release"
  BY Phases DEF Barrier, Barriers, Outside, Opening, Writing, Closing
<1>2. \A r \in Rank : pc'[r] = After(r)  BY DEF Barrier
<1>3. pc' \in [Rank -> States]
  <2>1. pc' = [r \in Rank |-> After(r)]  BY DEF Barrier
  <2>2. \A r \in Rank : After(r) \in States  BY <1>1 DEF After, States
  <2> QED  BY <2>1, <2>2
<1>4. UNCHANGED <<step, tmp, final, victims, best, run>>  BY DEF Barrier
<1>5. TypeOK'  BY <1>3, <1>4 DEF TypeOK
<1>6. NoSentinelInTmp'  BY <1>4 DEF NoSentinelInTmp, Complete
<1>7. \A r, q \in Rank : step[r] = step[q] /\ step[r] # 0
  BY <1>1 DEF SameStep
<1>8. CASE \A r \in Rank : pc[r] = "enter"
  <2>1. \A r \in Rank : pc'[r] = "seek"  BY <1>2, <1>8 DEF After
  <2>2. Together'  BY <2>1 DEF Together, Opening
  <2>3. RootAlone'  BY <2>1 DEF RootAlone
  <2>4. SameStep'  BY <2>1, <1>4, <1>7 DEF SameStep
  <2>5. Shards'  BY <2>1, RankAssumption DEF Shards
  <2> QED  BY <1>5, <1>6, <2>2, <2>3, <2>4, <2>5
<1>9. CASE \A r \in Rank : pc[r] = "open"
  <2>1. \A r \in Rank : pc'[r] = "model"  BY <1>2, <1>9 DEF After
  <2>2. Together'  BY <2>1 DEF Together, Writing
  <2>3. RootAlone'  BY <2>1 DEF RootAlone
  <2>4. SameStep'  BY <2>1, <1>4, <1>7 DEF SameStep
  <2>5. Shards'  BY <2>1, RankAssumption DEF Shards
  <2> QED  BY <1>5, <1>6, <2>2, <2>3, <2>4, <2>5
<1>10. CASE \A r \in Rank : pc[r] = "written"
  <2>1. \A r \in Rank : pc'[r] = IF r = Root THEN "replace" ELSE "release"
    BY <1>2, <1>10 DEF After
  <2>2. Together'  BY <2>1 DEF Together, Closing
  <2>3. RootAlone'  BY <2>1 DEF RootAlone
  <2>4. SameStep'  BY <2>1, <1>4, <1>7 DEF SameStep
  <2>5. \A r \in Rank, k \in Part : File(k, r) \in tmp[step[Root]]
    BY <1>7, <1>10, RankAssumption DEF Shards, Part
  <2>6. Shards'  BY <2>1, <2>5, <1>4, RankAssumption DEF Shards, File
  <2> QED  BY <1>5, <1>6, <2>2, <2>3, <2>4, <2>6
<1>11. CASE \A r \in Rank : pc[r] = "release"
  <2>1. \A r \in Rank : pc'[r] = IF r = Root THEN "rank" ELSE "train"
    BY <1>2, <1>11 DEF After
  <2>2. Together'  BY <2>1 DEF Together, Outside
  <2>3. RootAlone'  BY <2>1 DEF RootAlone
  <2>4. SameStep'  BY <2>1, <1>4, <1>7 DEF SameStep
  <2>5. Shards'  BY <2>1, RankAssumption DEF Shards
  <2> QED  BY <1>5, <1>6, <2>2, <2>3, <2>4, <2>5
<1> QED  BY <1>1, <1>8, <1>9, <1>10, <1>11

\* A step of one rank that has entered and moves on inside the save.
LEMMA StaysInStep ==
  ASSUME IInv, NEW r \in Rank, NEW to, to # "enter",
         pc[r] \notin {"train", "enter"},
         pc' = [pc EXCEPT ![r] = to], UNCHANGED step
  PROVE  SameStep'
<1>1. \A q \in Rank : pc'[q] = IF q = r THEN to ELSE pc[q]  BY DEF IInv, TypeOK
<1> QED  BY <1>1 DEF IInv, SameStep

LEMMA StaysAlone ==
  ASSUME IInv, NEW r \in Rank, NEW to, pc' = [pc EXCEPT ![r] = to],
         \/ r = Root
         \/ to \notin {"mkdir", "replace", "meta", "complete", "prune", "pruning",
                       "rank", "trimming"}
  PROVE  RootAlone'
<1>1. \A q \in Rank : pc'[q] = IF q = r THEN to ELSE pc[q]  BY DEF IInv, TypeOK
<1> QED  BY <1>1 DEF IInv, RootAlone

\* As long as the ranks open the save, nothing is said of shards.
LEMMA NoShardsYet ==
  ASSUME TypeOK', \A r \in Rank : pc'[r] \in Opening \cup Outside
  PROVE  Shards'
BY RankAssumption DEF Shards, Opening, Outside

LEMMA OpeningInv ==
  ASSUME IInv, NEW r \in Rank, Seek(r) \/ Sweep(r) \/ SweepFails(r)
  PROVE  IInv'
<1>1. PICK to \in {"sweep", "mkdir", "open", "failed"} :
        /\ pc' = [pc EXCEPT ![r] = to]
        /\ to = "mkdir" => r = Root
  BY DEF Seek, Sweep, SweepFails, Goto, Sought
<1>2. /\ pc[r] \in {"seek", "sweep"}
      /\ UNCHANGED <<step, final, victims, best, run>>
      /\ \/ UNCHANGED tmp
         \/ tmp' = [tmp EXCEPT ![step[r]] = {}]
  BY DEF Seek, Sweep, SweepFails, Goto, disk
<1>3. TypeOK'
  <2>1. pc' \in [Rank -> States]  BY <1>1 DEF IInv, TypeOK, States
  <2>2. tmp' \in [Steps -> SUBSET FileName]  BY <1>2 DEF IInv, TypeOK
  <2> QED  BY <2>1, <2>2, <1>2 DEF IInv, TypeOK
<1>4. Together'  BY <1>1, <1>2, StaysTogether DEF IInv, Opening
<1>5. RootAlone'  BY <1>1, StaysAlone
<1>6. SameStep'  BY <1>1, <1>2, StaysInStep
<1>7. Shards'
  <2>1. \A q \in Rank : pc[q] \in Opening
    BY <1>2, Phases DEF IInv, Outside, Opening, Writing, Closing
  <2>2. \A q \in Rank : pc'[q] \in Opening  BY <1>1, <2>1 DEF IInv, TypeOK, Opening
  <2> QED  BY <2>2, <1>3, NoShardsYet
<1>8. NoSentinelInTmp'
  <2>1. \A s \in Steps : tmp'[s] = tmp[s] \/ tmp'[s] = {}  BY <1>2 DEF IInv, TypeOK
  <2> QED  BY <2>1 DEF IInv, NoSentinelInTmp, Complete
<1> QED  BY <1>3, <1>4, <1>5, <1>6, <1>7, <1>8 DEF IInv

LEMMA MakeTmpInv ==
  ASSUME IInv, MakeTmp
  PROVE  IInv'
<1>1. /\ pc[Root] = "mkdir"
      /\ pc' = [pc EXCEPT ![Root] = "open"]
      /\ tmp' = [tmp EXCEPT ![step[Root]] = @ \cup {Dot}]
      /\ UNCHANGED <<step, final, victims, best, run>>
  BY DEF MakeTmp, Goto
<1>2. Root \in Rank  BY RankAssumption
<1>3. TypeOK'
  <2>1. pc' \in [Rank -> States]  BY <1>1 DEF IInv, TypeOK, States
  <2>2. tmp' \in [Steps -> SUBSET FileName]  BY <1>1 DEF IInv, TypeOK, FileName
  <2> QED  BY <2>1, <2>2, <1>1 DEF IInv, TypeOK
<1>4. Together'  BY <1>1, <1>2, StaysTogether DEF IInv, Opening
<1>5. RootAlone'  BY <1>1, <1>2, StaysAlone
<1>6. SameStep'  BY <1>1, <1>2, StaysInStep
<1>7. Shards'
  <2>1. \A q \in Rank : pc[q] \in Opening
    BY <1>1, <1>2, Phases DEF IInv, Outside, Opening, Writing, Closing
  <2>2. \A q \in Rank : pc'[q] \in Opening  BY <1>1, <2>1 DEF IInv, TypeOK, Opening
  <2> QED  BY <2>2, <1>3, NoShardsYet
<1>8. NoSentinelInTmp'
  <2>1. \A s \in Steps : \A f \in tmp'[s] : f \in tmp[s] \/ f = Dot
    BY <1>1 DEF IInv, TypeOK
  <2>2. Dot[1] # "complete"  BY DEF Dot
  <2> QED  BY <2>1, <2>2 DEF IInv, NoSentinelInTmp, Complete
<1> QED  BY <1>3, <1>4, <1>5, <1>6, <1>7, <1>8 DEF IInv

LEMMA WriteShardInv ==
  ASSUME IInv, NEW r \in Rank, NEW k \in Part,
         NEW next \in {"optim", "written"},
         k = "model" <=> next = "optim",
         WriteShard(r, k, next)
  PROVE  IInv'
<1>1. /\ pc[r] = k
      /\ pc' = [pc EXCEPT ![r] = next]
      /\ tmp' = [tmp EXCEPT ![step[r]] =
                   {f \in @ : <<f[1], f[2]>> # <<k, r>>} \cup {Dot, File(k, r)}]
      /\ UNCHANGED <<step, final, victims, best, run>>
  BY DEF WriteShard, Goto
<1>2. k \in {"model", "optim"}  BY DEF Part
<1>3. step[r] \in Steps /\ \A q \in Rank : step[q] = step[r]
  BY <1>1, <1>2, StepInSave DEF Writing
<1>4. \A q \in Rank : pc[q] \in Writing
  BY <1>1, <1>2, Phases DEF IInv, Outside, Opening, Writing, Closing
<1>5. /\ \A s \in Steps \ {step[r]} : tmp'[s] = tmp[s]
      /\ tmp'[step[r]] = {f \in tmp[step[r]] : <<f[1], f[2]>> # <<k, r>>}
                         \cup {Dot, File(k, r)}
  BY <1>1, <1>3 DEF IInv, TypeOK
<1>6. TypeOK'
  <2>1. pc' \in [Rank -> States]  BY <1>1 DEF IInv, TypeOK, States
  <2>2. File(k, r) \in FileName /\ Dot \in FileName
    BY DEF IInv, TypeOK, FileName, File, Kind
  <2>3. tmp'[step[r]] \subseteq FileName  BY <1>3, <1>5, <2>2 DEF IInv, TypeOK
  <2>4. tmp' \in [Steps -> SUBSET FileName]  BY <1>1, <1>3, <2>3, <1>5 DEF IInv, TypeOK
  <2> QED  BY <2>1, <2>4, <1>1 DEF IInv, TypeOK
<1>7. Together'  BY <1>1, <1>2, StaysTogether DEF IInv, Writing
<1>8. RootAlone'  BY <1>1, StaysAlone
<1>9. SameStep'  BY <1>1, <1>2, StaysInStep
<1>10. Shards'
  <2>1. \A q \in Rank : pc'[q] = IF q = r THEN next ELSE pc[q]  BY <1>1 DEF IInv, TypeOK
  <2>2. \A q \in Rank, j \in Part :
          /\ <<j, q>> # <<k, r>> /\ File(j, q) \in tmp[step[r]]
          => File(j, q) \in tmp'[step[r]]
    BY <1>5 DEF File
  <2>3. File(k, r) \in tmp'[step[r]]  BY <1>5
  <2>4. \A q \in Rank, j \in Part : File(j, q)' = File(j, q)  BY <1>1 DEF File
  <2>5. "model" \in Part /\ "optim" \in Part  BY DEF Part
  <2>6. \A q \in Rank : pc'[q] \in {"optim", "written"} =>
          File("model", q) \in tmp'[step[r]]
    <3> SUFFICES ASSUME NEW q \in Rank, pc'[q] \in {"optim", "written"}
                 PROVE  File("model", q) \in tmp'[step[r]]
      OBVIOUS
    <3>1. CASE q = r /\ k = "model"  BY <3>1, <2>3
    <3>2. CASE q = r /\ k = "optim"
      BY <3>2, <1>1, <1>3, <2>2, <2>5 DEF IInv, Shards
    <3>3. CASE q # r
      BY <3>3, <1>3, <2>1, <2>2, <2>5 DEF IInv, Shards
    <3> QED  BY <3>1, <3>2, <3>3, <1>2
  <2>7. \A q \in Rank : pc'[q] = "written" => File("optim", q) \in tmp'[step[r]]
    <3> SUFFICES ASSUME NEW q \in Rank, pc'[q] = "written"
                 PROVE  File("optim", q) \in tmp'[step[r]]
      OBVIOUS
    <3>1. CASE q = r  BY <3>1, <2>1, <2>3, <1>2
    <3>2. CASE q # r  BY <3>2, <1>3, <2>1, <2>2, <2>5 DEF IInv, Shards
    <3> QED  BY <3>1, <3>2
  <2>8. pc'[Root] \notin {"replace", "meta", "complete"}
    BY <1>4, <2>1, RankAssumption DEF Writing
  <2>9. \A q \in Rank : step'[q] = step[r]  BY <1>1, <1>3
  <2> QED  BY <2>4, <2>5, <2>6, <2>7, <2>8, <2>9 DEF Shards
<1>11. NoSentinelInTmp'
  <2>1. Dot[1] # "complete" /\ File(k, r)[1] # "complete"  BY <1>2 DEF Dot, File
  <2>2. \A s \in Steps : \A f \in tmp'[s] : f \in tmp[s] \/ f \in {Dot, File(k, r)}
    BY <1>5
  <2> QED  BY <2>1, <2>2 DEF IInv, NoSentinelInTmp, Complete
<1> QED  BY <1>6, <1>7, <1>8, <1>9, <1>10, <1>11 DEF IInv

\* Removing files from step_<s> leaves the others where they are.
LEMMA RemoveFromShrinks ==
  ASSUME TypeOK, NEW s \in Steps, RemoveFrom(s)
  PROVE  /\ final' \in [Steps -> SUBSET FileName]
         /\ \A u \in Steps : final'[u] \subseteq final[u]
<1>1. PICK D : D \subseteq final[s] /\ final' = [final EXCEPT ![s] = D]
  <2>1. CASE \E k \in Kind : final' = [final EXCEPT ![s] = {f \in @ : f[1] # k}]
    <3>1. PICK k \in Kind : final' = [final EXCEPT ![s] = {f \in @ : f[1] # k}]
      BY <2>1
    <3>2. {f \in final[s] : f[1] # k} \subseteq final[s]  OBVIOUS
    <3> QED  BY <3>1, <3>2
  <2>2. CASE final' = [final EXCEPT ![s] = {}]  BY <2>2
  <2> QED  BY <2>1, <2>2 DEF RemoveFrom
<1>2. \A u \in Steps : final'[u] = IF u = s THEN D ELSE final[u]
  BY <1>1 DEF TypeOK
<1>3. final[s] \subseteq FileName  BY DEF TypeOK
<1>4. final' \in [Steps -> SUBSET FileName]  BY <1>1, <1>3 DEF TypeOK
<1> QED  BY <1>1, <1>2, <1>4

\* What a step of rank 0 has to keep after the shards are written.
RootMove(to) ==
  /\ \/ pc[Root] \in Closing /\ to \in Closing
     \/ pc[Root] \in {"rank", "trimming"} /\ to \in Outside \ {"enter"}
  /\ pc' = [pc EXCEPT ![Root] = to]
  /\ UNCHANGED <<step, run>>
  /\ tmp' \in [Steps -> SUBSET FileName]
  /\ \A s \in Steps : tmp'[s] \subseteq tmp[s]
  /\ final' \in [Steps -> SUBSET FileName]
  /\ victims' \subseteq Steps
  /\ best' \subseteq [loss : Loss, step : Steps]
  /\ to = "replace" => UNCHANGED tmp /\ pc[Root] = "replace"
  /\ to \in {"meta", "complete"} =>
       \A r \in Rank, k \in Part : File(k, r) \in final'[step[Root]]
  /\ to = "complete" => File("meta", Root) \in final'[step[Root]]

LEMMA RootStepInv ==
  ASSUME IInv, NEW to, RootMove(to)
  PROVE  IInv'
<1> USE DEF RootMove
<1> DEFINE phase == IF to \in Closing THEN Closing ELSE Outside
<1>0. /\ phase \in {Closing, Outside} /\ pc[Root] \in phase /\ to \in phase
      /\ to # "enter" /\ pc[Root] \notin {"train", "enter"}
  BY DEF Closing, Outside
<1> HIDE DEF phase
<1>1. Root \in Rank  BY RankAssumption
<1>2. pc' \in [Rank -> States]
  BY <1>0 DEF IInv, TypeOK, Closing, Outside, States
<1>3. TypeOK'  BY <1>2 DEF IInv, TypeOK
<1>4. Together'  BY <1>0, <1>1, StaysTogether DEF IInv
<1>5. RootAlone'  BY <1>1, StaysAlone
<1>6. SameStep'  BY <1>0, <1>1, StaysInStep
<1>7. \A q \in Rank : pc'[q] \in phase
  <2>1. \A q \in Rank : pc[q] \in phase
    BY <1>0, <1>1, Phases DEF IInv, Outside, Opening, Writing, Closing
  <2> QED  BY <1>0, <2>1 DEF IInv, TypeOK
<1>8. \A q \in Rank : \A k : File(k, q)' = File(k, q)  BY DEF File
<1>9. pc'[Root] = to  BY <1>1 DEF IInv, TypeOK
<1>10. Shards'
  <2>1. \A q \in Rank : pc'[q] \notin {"optim", "written"}
    BY <1>0, <1>7 DEF Closing, Outside
  <2>2. pc'[Root] = "replace" => \A r \in Rank, k \in Part : File(k, r)' \in tmp'[step'[Root]]
    BY <1>8, <1>9 DEF IInv, Shards
  <2>3. pc'[Root] \in {"meta", "complete"} =>
          \A r \in Rank, k \in Part : File(k, r)' \in final'[step'[Root]]
    BY <1>8, <1>9
  <2>4. pc'[Root] = "complete" => File("meta", Root)' \in final'[step'[Root]]
    BY <1>1, <1>8, <1>9
  <2> QED  BY <2>1, <2>2, <2>3, <2>4 DEF Shards
<1>11. NoSentinelInTmp'  BY DEF IInv, NoSentinelInTmp, Complete
<1> QED  BY <1>3, <1>4, <1>5, <1>6, <1>10, <1>11 DEF IInv

LEMMA SelfEqual ==
  ASSUME TypeOK, NEW r \in Rank
  PROVE  pc = [pc EXCEPT ![r] = pc[r]]
BY DEF TypeOK

LEMMA ReplaceInv ==
  ASSUME IInv, Replace
  PROVE  IInv'
<1>1. /\ pc[Root] = "replace" /\ RemoveFrom(step[Root])
      /\ UNCHANGED <<pc, step, tmp, victims, best, run>>
  BY DEF Replace, ranks
<1>2. step[Root] \in Steps  BY <1>1, StepInSave, RankAssumption
<1>3. final' \in [Steps -> SUBSET FileName]
  BY <1>1, <1>2, RemoveFromShrinks DEF IInv
<1>4. pc' = [pc EXCEPT ![Root] = "replace"]
  BY <1>1, SelfEqual, RankAssumption DEF IInv
<1>5. RootMove("replace")
  BY <1>1, <1>3, <1>4 DEF RootMove, Closing, IInv, TypeOK
<1> QED  BY <1>5, RootStepInv

LEMMA RenameInv ==
  ASSUME IInv, Rename
  PROVE  IInv'
<1>1. /\ pc[Root] = "replace"
      /\ pc' = [pc EXCEPT ![Root] = "meta"]
      /\ final' = [final EXCEPT ![step[Root]] = tmp[step[Root]]]
      /\ tmp' = [tmp EXCEPT ![step[Root]] = {}]
      /\ UNCHANGED <<step, victims, best, run>>
  BY DEF Rename, Goto
<1>2. step[Root] \in Steps  BY <1>1, StepInSave, RankAssumption
<1>3. /\ tmp' \in [Steps -> SUBSET FileName]
      /\ final' \in [Steps -> SUBSET FileName]
      /\ \A s \in Steps : tmp'[s] \subseteq tmp[s]
  BY <1>1, <1>2 DEF IInv, TypeOK
<1>4. \A r \in Rank, k \in Part : File(k, r) \in final'[step[Root]]
  BY <1>1, <1>2 DEF IInv, TypeOK, Shards
<1>5. RootMove("meta")
  BY <1>1, <1>3, <1>4 DEF RootMove, Closing, IInv, TypeOK
<1> QED  BY <1>5, RootStepInv

LEMMA WriteFileInv ==
  ASSUME IInv, WriteFile("meta", "complete") \/ WriteFile("complete", "prune")
  PROVE  IInv'
<1> SUFFICES ASSUME NEW k, NEW next,
                    \/ k = "meta" /\ next = "complete"
                    \/ k = "complete" /\ next = "prune",
                    WriteFile(k, next)
             PROVE  IInv'
  OBVIOUS
<1>1. /\ pc[Root] = k
      /\ pc' = [pc EXCEPT ![Root] = next]
      /\ final' = [final EXCEPT ![step[Root]] = @ \cup {File(k, Root)}]
      /\ UNCHANGED <<step, tmp, victims, best, run>>
  BY DEF WriteFile, Goto
<1>2. step[Root] \in Steps  BY <1>1, StepInSave, RankAssumption
<1>3. File(k, Root) \in FileName
  BY RankAssumption DEF IInv, TypeOK, FileName, File, Kind
<1>4. final' \in [Steps -> SUBSET FileName]
  BY <1>1, <1>2, <1>3 DEF IInv, TypeOK
<1>5. final'[step[Root]] = final[step[Root]] \cup {File(k, Root)}
  BY <1>1, <1>2 DEF IInv, TypeOK
<1>6. next = "complete" =>
        /\ \A r \in Rank, j \in Part : File(j, r) \in final'[step[Root]]
        /\ File("meta", Root) \in final'[step[Root]]
  BY <1>1, <1>5 DEF IInv, Shards
<1>7. RootMove(next)
  BY <1>1, <1>4, <1>6 DEF RootMove, Closing, IInv, TypeOK
<1> QED  BY <1>7, RootStepInv

LEMMA PruneInv ==
  ASSUME IInv, ListOldest \/ RankByLoss \/ VictimsRemoved
  PROVE  IInv'
<1>1. Root \in Rank  BY RankAssumption
<1>2. CASE ListOldest
  <2>1. /\ pc[Root] = "prune" /\ pc' = [pc EXCEPT ![Root] = "pruning"]
        /\ victims' = Oldest /\ UNCHANGED <<step, tmp, final, best, run>>
    BY <1>2 DEF ListOldest, Goto, disk
  <2>2. Oldest \subseteq Steps  BY DEF Oldest, Completed
  <2>3. RootMove("pruning")
    BY <2>1, <2>2 DEF RootMove, Closing, IInv, TypeOK
  <2> QED  BY <2>3, RootStepInv
<1>3. CASE RankByLoss
  <2>1. /\ pc[Root] = "rank" /\ pc' = [pc EXCEPT ![Root] = "trimming"]
        /\ UNCHANGED <<step, tmp, final, run>>
    BY <1>3 DEF RankByLoss, Goto, disk
  <2>2. step[Root] \in Steps  BY <1>1, <2>1, StepInSave
  <2>3. PICK l \in Loss :
          LET list == best \cup {[loss |-> l, step |-> step[Root]]}
          IN  /\ best' = Kept(list)
              /\ victims' = {e.step : e \in list \ Kept(list)}
    BY <1>3 DEF RankByLoss
  <2> DEFINE list == best \cup {[loss |-> l, step |-> step[Root]]}
  <2>4. list \subseteq [loss : Loss, step : Steps]  BY <2>2 DEF IInv, TypeOK
  <2>5. best' \subseteq list /\ victims' = {e.step : e \in list \ Kept(list)}
    BY <2>3 DEF Kept
  <2>6. best' \subseteq [loss : Loss, step : Steps] /\ victims' \subseteq Steps
    BY <2>4, <2>5
  <2>7. RootMove("trimming")
    BY <2>1, <2>6 DEF RootMove, Outside, IInv, TypeOK
  <2> QED  BY <2>7, RootStepInv
<1>4. CASE VictimsRemoved
  <2>1. /\ \/ pc[Root] = "pruning" /\ pc' = [pc EXCEPT ![Root] = "release"]
           \/ pc[Root] = "trimming" /\ pc' = [pc EXCEPT ![Root] = "train"]
        /\ UNCHANGED <<step, tmp, final, victims, best, run>>
    BY <1>4 DEF VictimsRemoved, Goto, disk
  <2>2. RootMove("release") \/ RootMove("train")
    BY <2>1 DEF RootMove, Closing, Outside, IInv, TypeOK
  <2> QED  BY <2>2, RootStepInv
<1> QED  BY <1>2, <1>3, <1>4

LEMMA RemoveVictimInv ==
  ASSUME IInv, RemoveVictim
  PROVE  IInv'
<1>1. /\ pc[Root] \in {"pruning", "trimming"}
      /\ UNCHANGED <<pc, step, tmp, best, run>>
  BY DEF RemoveVictim, ranks
<1>2. final' \in [Steps -> SUBSET FileName] /\ victims' \subseteq Steps
  <2>1. victims \subseteq Steps  BY DEF IInv, TypeOK
  <2>2. PICK s \in victims :
          \/ RemoveFrom(s) /\ UNCHANGED victims
          \/ victims' = victims \ {s} /\ UNCHANGED final
    BY DEF RemoveVictim
  <2>3. CASE RemoveFrom(s) /\ UNCHANGED victims
    BY <2>1, <2>3, RemoveFromShrinks DEF IInv
  <2>4. CASE victims' = victims \ {s} /\ UNCHANGED final
    BY <2>1, <2>4 DEF IInv, TypeOK
  <2> QED  BY <2>2, <2>3, <2>4
<1>3. pc' = [pc EXCEPT ![Root] = pc[Root]]
  BY <1>1, SelfEqual, RankAssumption DEF IInv
<1>4. RootMove(pc[Root])
  BY <1>1, <1>2, <1>3 DEF RootMove, Closing, Outside, IInv, TypeOK
<1> QED  BY <1>4, RootStepInv

LEMMA RestartInv ==
  ASSUME IInv, Restart
  PROVE  IInv'
<1>1. /\ pc' = [r \in Rank |-> "train"] /\ step' = [r \in Rank |-> MaybeResume]
      /\ victims' = {} /\ best' = {} /\ run' = run + 1
      /\ UNCHANGED <<tmp, final>>
  BY DEF Restart, disk
<1>2. step' = [r \in Rank |-> 0]  BY <1>1, RunsStartFromZero
<1>3. TypeOK'  BY <1>1, <1>2, CheckpointBounds DEF IInv, TypeOK, States
<1>4. Together'  BY <1>1 DEF Together, Outside
<1>5. RootAlone'  BY <1>1 DEF RootAlone
<1>6. SameStep'  BY <1>1, <1>2 DEF SameStep
<1>7. Shards'  BY <1>1, RankAssumption DEF Shards
<1>8. NoSentinelInTmp'  BY <1>1 DEF IInv, NoSentinelInTmp, Complete
<1> QED  BY <1>3, <1>4, <1>5, <1>6, <1>7, <1>8 DEF IInv

LEMMA StutterInv ==
  ASSUME IInv, UNCHANGED vars
  PROVE  IInv'
BY DEF IInv, vars, ranks, disk, TypeOK, Together, RootAlone, SameStep, Shards, File,
       NoSentinelInTmp, Complete

LEMMA NextIInv ==
  ASSUME IInv, [Next]_vars
  PROVE  IInv'
<1>1. CASE Barrier  BY <1>1, BarrierInv
<1>2. CASE RootStep
  BY <1>2, MakeTmpInv, ReplaceInv, RenameInv, WriteFileInv, PruneInv, RemoveVictimInv
     DEF RootStep
<1>3. CASE Restart  BY <1>3, RestartInv
<1>4. ASSUME NEW r \in Rank, RankStep(r) PROVE IInv'
  <2>1. CASE TrainEpoch(r)  BY <2>1, TrainEpochInv
  <2>2. CASE Seek(r) \/ Sweep(r) \/ SweepFails(r)  BY <2>2, OpeningInv
  <2>3. CASE WriteShard(r, "model", "optim")  BY <2>3, WriteShardInv DEF Part
  <2>4. CASE WriteShard(r, "optim", "written")  BY <2>4, WriteShardInv DEF Part
  <2> QED  BY <1>4, <2>1, <2>2, <2>3, <2>4 DEF RankStep
<1>5. CASE UNCHANGED vars  BY <1>5, StutterInv
<1> QED  BY <1>1, <1>2, <1>3, <1>4, <1>5 DEF Next

\* The invariant: the ranks are between the same two barriers, save the same
\* step, and the shards are where rank 0 will take them from.
THEOREM InductiveInvariant == Spec => []IInv
<1>1. Init => IInv  BY InitIInv
<1>2. IInv /\ [Next]_vars => IInv'  BY NextIInv
<1> QED  BY <1>1, <1>2, PTL DEF Spec

THEOREM TypeCorrect == Spec => []TypeOK
<1>1. IInv => TypeOK  BY DEF IInv
<1> QED  BY <1>1, InductiveInvariant, PTL

Commit(s) == ~Complete(final[s]) /\ Complete(final'[s])

\* Nothing but the writing of a sentinel completes a directory.
LEMMA CommitOnlyBySentinel ==
  ASSUME IInv, [Next]_vars, NEW s \in Steps, Commit(s)
  PROVE  WriteFile("complete", "prune") /\ s = step[Root]
<1>1. final'[s] # final[s]  BY DEF Commit, Complete
<1>2. Root \in Rank  BY RankAssumption
<1>3. ~(final'[s] \subseteq final[s])  BY DEF Commit, Complete
<1>4. RootStep
  <2>1. ~UNCHANGED final  BY <1>1
  <2> QED
    BY <2>1 DEF Next, vars, disk, Barrier, Restart, RankStep, TrainEpoch, Seek, Sweep,
                SweepFails, WriteShard
<1>5. CASE Replace
  <2>1. step[Root] \in Steps  BY <1>2, <1>5, StepInSave DEF Replace
  <2> QED  BY <1>3, <1>5, <2>1, RemoveFromShrinks DEF Replace, IInv
<1>6. CASE Rename
  <2>1. final'[s] = final[s] \/ final'[s] = tmp[s]
    BY <1>6 DEF Rename, IInv, TypeOK
  <2> QED  BY <1>1, <2>1 DEF Commit, IInv, NoSentinelInTmp
<1>7. CASE WriteFile("meta", "complete")
  <2>1. final'[s] \subseteq final[s] \cup {File("meta", Root)}
    BY <1>7 DEF WriteFile, IInv, TypeOK
  <2>2. File("meta", Root)[1] # "complete"  BY DEF File
  <2> QED  BY <2>1, <2>2 DEF Commit, Complete
<1>8. CASE WriteFile("complete", "prune")
  <2>1. s # step[Root] => final'[s] = final[s]
    BY <1>8 DEF WriteFile, IInv, TypeOK
  <2> QED  BY <1>1, <1>8, <2>1
<1>9. CASE RemoveVictim
  <2>1. PICK v \in victims : RemoveFrom(v) \/ UNCHANGED final
    BY <1>9 DEF RemoveVictim
  <2>2. v \in Steps  BY DEF IInv, TypeOK
  <2> QED  BY <1>1, <1>3, <2>1, <2>2, RemoveFromShrinks DEF IInv
<1>10. CASE MakeTmp \/ ListOldest \/ RankByLoss \/ VictimsRemoved
  BY <1>1, <1>10 DEF MakeTmp, ListOldest, RankByLoss, VictimsRemoved, disk
<1> QED  BY <1>4, <1>5, <1>6, <1>7, <1>8, <1>9, <1>10 DEF RootStep

LEMMA CommitIsWhole ==
  ASSUME IInv, [Next]_vars, NEW s \in Steps, Commit(s)
  PROVE  Whole(final[s])
<1>1. WriteFile("complete", "prune") /\ s = step[Root]  BY CommitOnlyBySentinel
<1>2. pc[Root] = "complete"  BY <1>1 DEF WriteFile, Goto
<1>3. /\ \A r \in Rank, k \in Part : File(k, r) \in final[s]
      /\ File("meta", Root) \in final[s]
  BY <1>1, <1>2 DEF IInv, Shards
<1>4. run \in 0..run  BY DEF IInv, TypeOK
<1>5. File("meta", Root)[1] = "meta"  BY DEF File
<1> QED  BY <1>3, <1>4, <1>5 DEF Whole, File

\* A sentinel is only ever written into a whole checkpoint, whatever the number
\* of ranks and of restarts and wherever the earlier saves were interrupted.
THEOREM CommitsAreWhole == Spec => CommitWhole
<1>1. IInv /\ [Next]_vars =>
        [\A s \in Steps : ~Complete(final[s]) /\ Complete(final'[s])
           => Whole(final[s])]_vars
  BY CommitIsWhole DEF Commit
<1> QED  BY <1>1, InductiveInvariant, PTL DEF Spec, CommitWhole

-------------------------------------------------------------------------------
(* The checkpoints a run keeps.  Pruning by age spares the PruneKeep highest  *)
(* completed steps and pruning by loss removes at most one, so that at least  *)
(* one of two is left: with PruneKeep = 1 the claim would be false.  The      *)
(* claim is about a job that was not restarted, and so is the invariant.      *)

\* Where rank 0 has not yet renamed, where its sentinel is in place and the
\* losses have not been ranked, and where they have been.
Unrenamed == {"enter", "seek", "sweep", "mkdir", "open", "model", "optim",
              "written", "replace", "failed"}
Committed == {"prune", "pruning", "release", "rank"}
Ranked    == {"trimming", "train"}

Safe == Completed \ victims

\* Nothing is on disk beyond the step of rank 0, nor of it before the rename.
NothingAhead == \A s \in Steps :
  s > step[Root] \/ (pc[Root] \in Unrenamed /\ s = step[Root]) => final[s] = {}

\* What is not about to be removed is whole.
SafeIsWhole == \A s \in Safe : Whole(final[s])

EarlierSafe == step[Root] > 1 => \E u \in Safe : u < step[Root]

\* There is an earlier checkpoint during a save, also the saved one before the
\* losses are ranked, and one of the two afterwards.
Survivors ==
  /\ pc[Root] \in Unrenamed \cup {"meta", "complete"} => EarlierSafe
  /\ pc[Root] \in Committed => step[Root] \in Safe /\ EarlierSafe
  /\ pc[Root] \in Ranked /\ step[Root] > 0 => Safe # {}

\* best_ckpts has been cut already, and is empty up to the first ranking.
BestCut ==
  /\ IsFiniteSet(best) /\ Kept(best) = best
  /\ best # {} => IF pc[Root] \in Ranked THEN step[Root] > 0 ELSE step[Root] > 1

\* Victims are removed where they were chosen.
RemovedAtOnce == victims # {} => pc[Root] \in {"pruning", "trimming"}

KeepInv ==
  run = 0 => NothingAhead /\ SafeIsWhole /\ Survivors /\ BestCut /\ RemovedAtOnce

LEMMA InitKeep == Init => KeepInv
<1> SUFFICES ASSUME Init PROVE KeepInv
  OBVIOUS
<1>1. Root \in Rank  BY RankAssumption
<1>2. /\ pc[Root] = "train" /\ step[Root] = 0 /\ victims = {} /\ best = {}
      /\ \A s \in Steps : final[s] = {}
  BY <1>1 DEF Init
<1>3. Safe = {}  BY <1>2 DEF Safe, Completed, Complete
<1>4. NothingAhead  BY <1>2 DEF NothingAhead
<1>5. SafeIsWhole  BY <1>3 DEF SafeIsWhole
<1>6. Survivors  BY <1>2 DEF Survivors, Unrenamed, Committed
<1>7. BestCut  BY <1>2, FS_EmptySet DEF BestCut, Kept
<1>8. RemovedAtOnce  BY <1>2 DEF RemovedAtOnce
<1> QED  BY <1>4, <1>5, <1>6, <1>7, <1>8 DEF KeepInv

\* The same disk, victims and losses: rank 0 stays, or goes on within its part.
LEMMA CalmKeep ==
  ASSUME KeepInv, UNCHANGED <<final, victims, best, run>>, step'[Root] = step[Root],
         \/ pc'[Root] = pc[Root]
         \/ /\ victims = {}
            /\ \E part \in {Unrenamed, Committed, Ranked} :
                 pc[Root] \in part /\ pc'[Root] \in part
  PROVE  KeepInv'
<1> SUFFICES ASSUME run = 0, NothingAhead, SafeIsWhole, Survivors, BestCut, RemovedAtOnce
             PROVE  (NothingAhead /\ SafeIsWhole /\ Survivors /\ BestCut /\ RemovedAtOnce)'
  BY DEF KeepInv
<1>1. Safe' = Safe  BY DEF Safe, Completed, Complete
<1>2. /\ pc[Root] \in Unrenamed <=> pc'[Root] \in Unrenamed
      /\ pc[Root] \in Committed <=> pc'[Root] \in Committed
      /\ pc[Root] \in Ranked <=> pc'[Root] \in Ranked
      /\ pc[Root] \in {"meta", "complete"} <=> pc'[Root] \in {"meta", "complete"}
  BY DEF Unrenamed, Committed, Ranked
<1>3. NothingAhead'  BY <1>2 DEF NothingAhead
<1>4. SafeIsWhole'  BY <1>1 DEF SafeIsWhole, Whole
<1>5. Survivors'  BY <1>1, <1>2 DEF Survivors, EarlierSafe
<1>6. BestCut'
  <2>1. Kept(best)' = Kept(best)  BY DEF Kept, Before
  <2> QED  BY <1>2, <2>1 DEF BestCut
<1>7. RemovedAtOnce'  BY DEF RemovedAtOnce
<1> QED  BY <1>3, <1>4, <1>5, <1>6, <1>7

LEMMA BarrierKeep ==
  ASSUME IInv, KeepInv, Barrier
  PROVE  KeepInv'
<1> SUFFICES ASSUME run = 0 PROVE KeepInv'
  BY DEF KeepInv, Barrier
<1>1. Root \in Rank  BY RankAssumption
<1>2. pc[Root] \in Barriers /\ pc'[Root] = After(Root)
      /\ UNCHANGED <<step, final, victims, best, run>>
  BY <1>1 DEF Barrier, disk
<1>3. victims = {}  BY <1>2 DEF KeepInv, RemovedAtOnce, Barriers
<1>4. \/ pc[Root] \in Unrenamed /\ pc'[Root] \in Unrenamed
      \/ pc[Root] \in Committed /\ pc'[Root] \in Committed
  BY <1>2 DEF Barriers, After, Unrenamed, Committed
<1> QED  BY <1>2, <1>3, <1>4, CalmKeep

LEMMA TrainEpochKeep ==
  ASSUME IInv, KeepInv, NEW r \in Rank, TrainEpoch(r)
  PROVE  KeepInv'
<1>1. Root \in Rank  BY RankAssumption
<1>2. /\ pc[r] = "train" /\ pc' = [pc EXCEPT ![r] = "enter"]
      /\ step' = [step EXCEPT ![r] = @ + 1]
      /\ UNCHANGED <<final, victims, best, run>>
  BY DEF TrainEpoch, Goto, disk
<1>3. CASE r # Root
  <2>1. pc'[Root] = pc[Root] /\ step'[Root] = step[Root]
    BY <1>1, <1>2, <1>3 DEF IInv, TypeOK
  <2> QED  BY <1>2, <2>1, CalmKeep
<1>4. CASE r = Root
  <2> SUFFICES ASSUME run = 0, NothingAhead, SafeIsWhole, Survivors, BestCut, RemovedAtOnce
               PROVE  (NothingAhead /\ SafeIsWhole /\ Survivors /\ BestCut /\ RemovedAtOnce)'
    BY <1>2 DEF KeepInv
  <2>1. /\ pc[Root] = "train" /\ pc'[Root] = "enter"
        /\ step[Root] \in Nat /\ step'[Root] = step[Root] + 1
    BY <1>1, <1>2, <1>4, CheckpointBounds DEF IInv, TypeOK
  <2>2. Safe' = Safe /\ Safe \subseteq Steps /\ Steps \subseteq Nat
    BY <1>2 DEF Safe, Completed, Complete, Steps
  <2>3. NothingAhead'
    <3> SUFFICES ASSUME NEW s \in Steps, s > step'[Root] \/ s = step'[Root]
                 PROVE  final'[s] = {}
      BY DEF NothingAhead
    <3>1. s > step[Root]  BY <2>1, <2>2
    <3> QED  BY <1>2, <3>1 DEF NothingAhead
  <2>4. SafeIsWhole'  BY <1>2, <2>2 DEF SafeIsWhole, Whole
  <2>5. EarlierSafe'
    <3> SUFFICES ASSUME step'[Root] > 1 PROVE \E u \in Safe : u < step'[Root]
      BY <2>2 DEF EarlierSafe
    <3>1. step[Root] > 0  BY <2>1
    <3>2. PICK u \in Safe : TRUE  BY <2>1, <3>1 DEF Survivors, Ranked
    <3>3. final[u] # {} /\ u \in Steps  BY DEF Safe, Completed, Complete
    <3>4. ~(u > step[Root])  BY <3>3 DEF NothingAhead
    <3>5. u < step'[Root]  BY <2>1, <2>2, <3>3, <3>4
    <3> QED  BY <3>5
  <2>6. Survivors'  BY <2>1, <2>5 DEF Survivors, Committed, Ranked
  <2>7. BestCut'
    <3>1. Kept(best)' = Kept(best)  BY <1>2 DEF Kept, Before
    <3> QED  BY <1>2, <2>1, <3>1 DEF BestCut, Ranked
  <2>8. RemovedAtOnce'  BY <1>2, <2>1 DEF RemovedAtOnce
  <2> QED  BY <2>3, <2>4, <2>6, <2>7, <2>8
<1> QED  BY <1>3, <1>4

\* Up to the rename no rank touches a step_<N> directory.
LEMMA OpeningKeep ==
  ASSUME IInv, KeepInv, NEW r \in Rank,
         \/ Seek(r) \/ Sweep(r) \/ SweepFails(r)
         \/ WriteShard(r, "model", "optim") \/ WriteShard(r, "optim", "written")
  PROVE  KeepInv'
<1> SUFFICES ASSUME run = 0 PROVE KeepInv'
  BY DEF KeepInv, Seek, Sweep, SweepFails, WriteShard
<1>1. Root \in Rank  BY RankAssumption
<1>2. UNCHANGED <<step, final, victims, best, run>>
  BY DEF Seek, Sweep, SweepFails, WriteShard, disk
<1>3. PICK to \in Unrenamed : pc[r] \in Unrenamed \ {"replace"} /\ pc' = [pc EXCEPT ![r] = to]
  BY DEF Seek, Sweep, SweepFails, WriteShard, Goto, Sought, Unrenamed
<1>4. CASE r # Root
  <2>1. pc'[Root] = pc[Root]  BY <1>1, <1>3, <1>4 DEF IInv, TypeOK
  <2> QED  BY <1>2, <2>1, CalmKeep
<1>5. CASE r = Root
  <2>1. pc[Root] \in Unrenamed /\ pc'[Root] \in Unrenamed
    BY <1>1, <1>3, <1>5 DEF IInv, TypeOK
  <2>2. victims = {}  BY <2>1 DEF KeepInv, RemovedAtOnce, Unrenamed
  <2> QED  BY <1>2, <2>1, <2>2, CalmKeep
<1> QED  BY <1>4, <1>5

LEMMA CalmRootKeep ==
  ASSUME IInv, KeepInv, MakeTmp \/ VictimsRemoved
  PROVE  KeepInv'
<1> SUFFICES ASSUME run = 0 PROVE KeepInv'
  BY DEF KeepInv, MakeTmp, VictimsRemoved
<1>1. Root \in Rank  BY RankAssumption
<1>2. UNCHANGED <<step, final, victims, best, run>>
  BY DEF MakeTmp, VictimsRemoved, disk
<1>3. CASE MakeTmp
  <2>1. pc[Root] = "mkdir" /\ pc'[Root] = "open"
    BY <1>1, <1>3 DEF MakeTmp, Goto, IInv, TypeOK
  <2>2. victims = {}  BY <2>1 DEF KeepInv, RemovedAtOnce
  <2> QED  BY <1>2, <2>1, <2>2, CalmKeep DEF Unrenamed
<1>4. CASE VictimsRemoved
  <2>1. victims = {}  BY <1>4 DEF VictimsRemoved
  <2>2. \/ pc[Root] = "pruning" /\ pc'[Root] = "release"
        \/ pc[Root] = "trimming" /\ pc'[Root] = "train"
    BY <1>1, <1>4 DEF VictimsRemoved, Goto, IInv, TypeOK
  <2> QED  BY <1>2, <2>1, <2>2, CalmKeep DEF Committed, Ranked
<1> QED  BY <1>3, <1>4

\* There is nothing in the way of the rename.
LEMMA ReplaceKeep ==
  ASSUME IInv, KeepInv, Replace
  PROVE  KeepInv'
<1> SUFFICES ASSUME run = 0 PROVE FALSE
  BY DEF KeepInv, Replace
<1>1. Root \in Rank  BY RankAssumption
<1>2. step[Root] \in Steps  BY <1>1, StepInSave DEF Replace
<1>3. final[step[Root]] = {}
  BY <1>2 DEF Replace, KeepInv, NothingAhead, Unrenamed
<1> QED  BY <1>3, RankAssumption DEF Replace, RemoveFrom

\* The rename, meta.json and the sentinel let the directory of this step grow.
LEMMA ClosingKeep ==
  ASSUME IInv, KeepInv,
         Rename \/ WriteFile("meta", "complete") \/ WriteFile("complete", "prune")
  PROVE  KeepInv'
<1> SUFFICES ASSUME run = 0, NothingAhead, SafeIsWhole, Survivors, BestCut, RemovedAtOnce
             PROVE  (NothingAhead /\ SafeIsWhole /\ Survivors /\ BestCut /\ RemovedAtOnce)'
  BY DEF KeepInv, Rename, WriteFile
<1> DEFINE t == step[Root]
<1>1. Root \in Rank  BY RankAssumption
<1>2. UNCHANGED <<step, victims, best, run>>  BY DEF Rename, WriteFile
<1>3. /\ pc[Root] \in {"replace", "meta", "complete"}
      /\ pc'[Root] \in {"meta", "complete", "prune"}
      /\ pc'[Root] = "prune" => WriteFile("complete", "prune")
  BY <1>1 DEF Rename, WriteFile, Goto, IInv, TypeOK
<1>4. t \in Steps /\ t \in Nat  BY <1>1, <1>3, StepInSave DEF Steps
<1>5. victims = {}  BY <1>3 DEF RemovedAtOnce
<1>6. Safe = Completed /\ Safe' = Completed'  BY <1>2, <1>5 DEF Safe
<1>7. \A s \in Steps : final[s] \subseteq final'[s] /\ (s # t => final'[s] = final[s])
  <2>1. CASE Rename
    BY <1>4, <2>1 DEF Rename, IInv, TypeOK
  <2>2. CASE WriteFile("meta", "complete") \/ WriteFile("complete", "prune")
    BY <1>4, <2>2 DEF WriteFile, IInv, TypeOK
  <2> QED  BY <2>1, <2>2
<1>8. Safe \subseteq Safe'  BY <1>6, <1>7 DEF Completed, Complete
<1>9. NothingAhead'
  <2> SUFFICES ASSUME NEW s \in Steps, s > t PROVE final'[s] = {}
    BY <1>2, <1>3 DEF NothingAhead, Unrenamed
  <2> QED  BY <1>4, <1>7 DEF NothingAhead
<1>10. SafeIsWhole'
  <2> SUFFICES ASSUME NEW s \in Safe' PROVE Whole(final[s])'
    BY DEF SafeIsWhole
  <2>1. s \in Steps  BY <1>6 DEF Completed
  <2>2. Whole(final[s])
    <3>1. CASE s \in Safe  BY <3>1 DEF SafeIsWhole
    <3>2. CASE s \notin Safe
      <4>1. Commit(s)  BY <1>6, <2>1, <3>2 DEF Commit, Completed
      <4>2. [Next]_vars  BY DEF Next, RootStep
      <4> QED  BY <2>1, <4>1, <4>2, CommitIsWhole
    <3> QED  BY <3>1, <3>2
  <2> QED  BY <1>2, <1>7, <2>1, <2>2 DEF Whole
<1>11. Survivors'
  <2>1. EarlierSafe
    BY <1>3 DEF Survivors, Unrenamed
  <2>2. EarlierSafe'
    BY <1>2, <1>8, <2>1 DEF EarlierSafe
  <2>3. pc'[Root] = "prune" => t \in Safe'
    <3> SUFFICES ASSUME WriteFile("complete", "prune") PROVE t \in Completed'
      BY <1>3, <1>6
    <3>1. File("complete", Root) \in final'[t]
      BY <1>4 DEF WriteFile, IInv, TypeOK
    <3> QED  BY <1>4, <3>1 DEF Completed, Complete, File
  <2> QED  BY <1>2, <1>3, <2>2, <2>3 DEF Survivors, Unrenamed, Committed, Ranked
<1>12. BestCut'
  <2>1. Kept(best)' = Kept(best)  BY <1>2 DEF Kept, Before
  <2> QED  BY <1>2, <1>3, <2>1 DEF BestCut, Ranked
<1>13. RemovedAtOnce'  BY <1>2, <1>5 DEF RemovedAtOnce
<1> QED  BY <1>9, <1>10, <1>11, <1>12, <1>13

LEMMA RemoveVictimKeep ==
  ASSUME IInv, KeepInv, RemoveVictim
  PROVE  KeepInv'
<1> SUFFICES ASSUME run = 0, NothingAhead, SafeIsWhole, Survivors, BestCut, RemovedAtOnce
             PROVE  (NothingAhead /\ SafeIsWhole /\ Survivors /\ BestCut /\ RemovedAtOnce)'
  BY DEF KeepInv, RemoveVictim
<1>1. pc[Root] \in {"pruning", "trimming"} /\ UNCHANGED <<pc, step, best, run>>
  BY DEF RemoveVictim, ranks
<1>2. PICK v \in victims : \/ RemoveFrom(v) /\ UNCHANGED victims
                           \/ final[v] = {} /\ victims' = victims \ {v} /\ UNCHANGED final
  BY DEF RemoveVictim
<1>3. v \in Steps  BY DEF IInv, TypeOK
<1>4. \A s \in Steps : final'[s] \subseteq final[s] /\ (s # v => final'[s] = final[s])
  <2>1. CASE RemoveFrom(v)
    <3>1. \A s \in Steps : final'[s] \subseteq final[s]
      BY <1>3, <2>1, RemoveFromShrinks DEF IInv
    <3>2. PICK D : final' = [final EXCEPT ![v] = D]
      BY <2>1 DEF RemoveFrom
    <3>3. \A s \in Steps : s # v => final'[s] = final[s]
      BY <3>2 DEF IInv, TypeOK
    <3> QED  BY <3>1, <3>3
  <2>2. CASE UNCHANGED final  BY <2>2
  <2> QED  BY <1>2, <2>1, <2>2
<1>5. Safe' = Safe
  <2>1. CASE RemoveFrom(v) /\ UNCHANGED victims
    BY <1>4, <2>1 DEF Safe, Completed, Complete
  <2>2. CASE final[v] = {} /\ victims' = victims \ {v} /\ UNCHANGED final
    BY <2>2 DEF Safe, Completed, Complete
  <2> QED  BY <1>2, <2>1, <2>2
<1>6. \A s \in Safe : final'[s] = final[s]
  BY <1>2, <1>4 DEF Safe, Completed, Complete
<1>7. NothingAhead'  BY <1>1, <1>4 DEF NothingAhead
<1>8. SafeIsWhole'  BY <1>1, <1>5, <1>6 DEF SafeIsWhole, Whole
<1>9. Survivors'  BY <1>1, <1>5 DEF Survivors, EarlierSafe
<1>10. BestCut'
  <2>1. Kept(best)' = Kept(best)  BY <1>1 DEF Kept, Before
  <2> QED  BY <1>1, <2>1 DEF BestCut
<1>11. RemovedAtOnce'  BY <1>1 DEF RemovedAtOnce
<1> QED  BY <1>7, <1>8, <1>9, <1>10, <1>11

\* The step of rank 0 and the latest checkpoint before it are among the two
\* highest completed ones: pruning by age spares both.
LEMMA ListOldestKeep ==
  ASSUME PruneKeep >= 2, IInv, KeepInv, ListOldest
  PROVE  KeepInv'
<1> SUFFICES ASSUME run = 0, NothingAhead, SafeIsWhole, Survivors, BestCut, RemovedAtOnce
             PROVE  (NothingAhead /\ SafeIsWhole /\ Survivors /\ BestCut /\ RemovedAtOnce)'
  BY DEF KeepInv, ListOldest
<1> DEFINE t == step[Root]
<1>1. Root \in Rank  BY RankAssumption
<1>2. /\ pc[Root] = "prune" /\ pc'[Root] = "pruning"
      /\ victims' = Oldest /\ UNCHANGED <<step, final, best, run>>
  BY <1>1 DEF ListOldest, Goto, disk, IInv, TypeOK
<1>3. Safe = Completed  BY <1>2 DEF Safe, RemovedAtOnce
<1>4. Completed' = Completed /\ Safe' = Completed \ Oldest
  BY <1>2 DEF Safe, Completed, Complete
<1>5. t \in Completed  BY <1>2, <1>3 DEF Survivors, Committed
<1>6. Completed \subseteq Steps /\ \A u \in Completed : u \in Nat
  BY DEF Completed, Steps
<1>7. \A u \in Completed : u <= t
  <2> SUFFICES ASSUME NEW u \in Completed, u > t PROVE FALSE
    BY <1>5, <1>6
  <2>1. final[u] = {}  BY <1>6 DEF NothingAhead
  <2> QED  BY <2>1 DEF Completed, Complete
<1>8. t \in Safe'
  <2>1. {u \in Completed : u > t} = {}  BY <1>5, <1>6, <1>7
  <2>2. Cardinality({u \in Completed : u > t}) = 0  BY <2>1, FS_EmptySet
  <2> QED  BY <1>4, <1>5, <2>2, KeepAssumption DEF Oldest
<1>9. EarlierSafe'
  <2> SUFFICES ASSUME t > 1 PROVE \E u \in Safe' : u < t
    BY <1>2 DEF EarlierSafe
  <2> DEFINE earlier == {u \in Completed : u < t}
  <2>1. earlier # {}
    BY <1>2, <1>3 DEF Survivors, Committed, EarlierSafe
  <2>2. PICK u \in earlier : \A x \in earlier : x <= u
    <3>1. earlier \subseteq Steps  BY <1>6
    <3> HIDE DEF earlier
    <3> QED  BY <2>1, <3>1, HighestOfSteps
  <2>3. {x \in Completed : x > u} = {t}  BY <1>5, <1>6, <1>7, <2>2
  <2>4. Cardinality({x \in Completed : x > u}) = 1  BY <2>3, FS_Singleton
  <2>5. u \in Safe'  BY <1>4, <2>4, KeepAssumption DEF Oldest
  <2> QED  BY <2>5
<1>10. NothingAhead'  BY <1>2 DEF NothingAhead, Unrenamed
<1>11. SafeIsWhole'  BY <1>2, <1>3, <1>4 DEF SafeIsWhole, Whole
<1>12. Survivors'  BY <1>2, <1>8, <1>9 DEF Survivors, Unrenamed, Ranked
<1>13. BestCut'
  <2>1. Kept(best)' = Kept(best)  BY <1>2 DEF Kept, Before
  <2> QED  BY <1>2, <2>1 DEF BestCut, Ranked
<1>14. RemovedAtOnce'  BY <1>2 DEF RemovedAtOnce
<1> QED  BY <1>10, <1>11, <1>12, <1>13, <1>14

Entry == [loss : Nat, step : Nat]

Above(list, x) == {g \in list : Before(g, x)}

LEMMA AboveCount ==
  ASSUME NEW list, IsFiniteSet(list), NEW x
  PROVE  /\ IsFiniteSet(Above(list, x)) /\ Cardinality(Above(list, x)) \in Nat
         /\ x \in Kept(list) <=> x \in list /\ Cardinality(Above(list, x)) < KeepLastN
<1>1. Above(list, x) \in SUBSET list  BY DEF Above
<1>2. IsFiniteSet(Above(list, x))  BY <1>1, FS_Subset
<1>3. x \in Kept(list) <=> x \in list /\ Cardinality(Above(list, x)) < KeepLastN
  BY DEF Kept, Above
<1> QED  BY <1>2, <1>3, FS_CardinalityType

\* Of a list that was cut already and one new entry, cutting drops at most one:
\* of two that fall out, the one ahead would have as many ahead of it as KeepLastN,
\* and the one behind as many within the list that was cut.
LEMMA OneDropped ==
  ASSUME NEW list \in SUBSET Entry, IsFiniteSet(list), Kept(list) = list,
         NEW new \in Entry, NEW e \in list \cup {new}, NEW f \in list \cup {new},
         e \notin Kept(list \cup {new}), f \notin Kept(list \cup {new})
  PROVE  e = f
<1> DEFINE longer == list \cup {new}
<1>1. IsFiniteSet(longer)  BY FS_AddElement
<1>2. KeepLastN \in Nat  BY KeepAssumption
<1>3. \A x \in longer : /\ Cardinality(Above(list, x)) \in Nat /\ IsFiniteSet(Above(list, x))
                        /\ Cardinality(Above(longer, x)) \in Nat
                        /\ IsFiniteSet(Above(longer, x))
  BY <1>1, AboveCount
<1>4. \A x \in list : Cardinality(Above(list, x)) < KeepLastN  BY AboveCount
<1>5. \A x \in longer \ Kept(longer) : Cardinality(Above(longer, x)) >= KeepLastN
  <2> HIDE DEF longer
  <2> QED  BY <1>1, <1>2, AboveCount
<1>6. \A x, y \in longer : x # y => Before(x, y) \/ Before(y, x)
  BY DEF Before, Entry
<1>7. \A x, y, z \in longer : Before(x, y) /\ Before(y, z) => Before(x, z)
  BY DEF Before, Entry
<1>8. \A x \in longer : ~Before(x, x)
  BY DEF Before, Entry
<1>9. ASSUME NEW x \in longer \ Kept(longer), NEW y \in longer \ Kept(longer), Before(x, y)
      PROVE  FALSE
  <2>1. Cardinality(Above(longer, x)) >= KeepLastN  BY <1>5
  <2>2. CASE y \notin list
    <3>1. y = new /\ x \in list  BY <1>8, <1>9, <2>2
    <3>2. ~Before(new, x)  BY <1>7, <1>8, <1>9, <3>1
    <3>3. Above(longer, x) = Above(list, x)  BY <3>2 DEF Above
    <3> QED  BY <1>2, <1>3, <1>4, <2>1, <3>1, <3>3
  <2>3. CASE y \in list /\ x = new
    <3>1. Above(longer, x) \in SUBSET Above(list, y)
      BY <1>7, <1>8, <1>9, <2>3 DEF Above
    <3>2. Cardinality(Above(longer, x)) <= Cardinality(Above(list, y))
      BY <1>3, <3>1, FS_Subset
    <3> QED  BY <1>2, <1>3, <1>4, <2>1, <2>3, <3>2
  <2>4. CASE y \in list /\ x # new
    <3>1. x \in list /\ x \notin Above(list, x)  BY <1>8, <2>4 DEF Above
    <3>2. Above(list, x) \cup {x} \in SUBSET Above(list, y)
      BY <1>7, <1>9, <2>4, <3>1 DEF Above
    <3>3. Cardinality(Above(list, x) \cup {x}) <= Cardinality(Above(list, y))
      BY <1>3, <3>2, FS_Subset
    <3>4. Cardinality(Above(list, x) \cup {x}) = Cardinality(Above(list, x)) + 1
      BY <1>3, <3>1, FS_AddElement
    <3>5. Above(longer, x) \in SUBSET (Above(list, x) \cup {new})  BY DEF Above
    <3>6. /\ IsFiniteSet(Above(list, x) \cup {new})
          /\ \/ Cardinality(Above(list, x) \cup {new}) = Cardinality(Above(list, x))
             \/ Cardinality(Above(list, x) \cup {new}) = Cardinality(Above(list, x)) + 1
      BY <1>3, FS_AddElement
    <3>7. Cardinality(Above(longer, x)) <= Cardinality(Above(list, x) \cup {new})
      BY <3>5, <3>6, FS_Subset
    <3> QED  BY <1>2, <1>3, <1>4, <2>1, <2>4, <3>3, <3>4, <3>6, <3>7, SMTT(30)
  <2> QED  BY <2>2, <2>3, <2>4
<1> QED  BY <1>6, <1>9

LEMMA CutAgain ==
  ASSUME NEW list, IsFiniteSet(list)
  PROVE  Kept(Kept(list)) = Kept(list)
<1>1. Kept(list) \in SUBSET list /\ Kept(Kept(list)) \subseteq Kept(list)  BY DEF Kept
<1>2. IsFiniteSet(Kept(list))  BY <1>1, FS_Subset
<1> SUFFICES ASSUME NEW x \in Kept(list) PROVE x \in Kept(Kept(list))
  BY <1>1
<1>3. Above(Kept(list), x) \in SUBSET Above(list, x)  BY <1>1 DEF Above
<1>4. /\ IsFiniteSet(Above(list, x)) /\ Cardinality(Above(list, x)) \in Nat
      /\ Cardinality(Above(list, x)) < KeepLastN
  BY AboveCount
<1>5. Cardinality(Above(Kept(list), x)) <= Cardinality(Above(list, x))
  BY <1>3, <1>4, FS_Subset
<1>6. Cardinality(Above(Kept(list), x)) \in Nat  BY <1>2, AboveCount
<1>7. Cardinality(Above(Kept(list), x)) < KeepLastN
  BY <1>4, <1>5, <1>6, KeepAssumption
<1> QED  BY <1>2, <1>7, AboveCount

\* Pruning by loss takes at most one of the two, and none after the first save.
LEMMA RankByLossKeep ==
  ASSUME IInv, KeepInv, RankByLoss
  PROVE  KeepInv'
<1> SUFFICES ASSUME run = 0, NothingAhead, SafeIsWhole, Survivors, BestCut, RemovedAtOnce
             PROVE  (NothingAhead /\ SafeIsWhole /\ Survivors /\ BestCut /\ RemovedAtOnce)'
  BY DEF KeepInv, RankByLoss
<1> DEFINE t == step[Root]
<1>1. Root \in Rank  BY RankAssumption
<1>2. /\ pc[Root] = "rank" /\ pc'[Root] = "trimming"
      /\ UNCHANGED <<step, final, run>>
  BY <1>1 DEF RankByLoss, Goto, disk, IInv, TypeOK
<1>3. PICK l \in Loss :
        LET list == best \cup {[loss |-> l, step |-> t]}
        IN  /\ best' = Kept(list)
            /\ victims' = {e.step : e \in list \ Kept(list)}
  BY DEF RankByLoss
<1> DEFINE new  == [loss |-> l, step |-> t]
           list == best \cup {new}
<1>4. best' = Kept(list) /\ victims' = {e.step : e \in list \ Kept(list)}
  BY <1>3
<1>5. t \in Steps /\ t \in Nat  BY <1>1, <1>2, StepInSave DEF Steps
<1>6. best \subseteq Entry /\ new \in Entry
  <2>1. Steps \subseteq Nat  BY DEF Steps
  <2>2. best \subseteq [loss : Loss, step : Steps]  BY DEF IInv, TypeOK
  <2> QED  BY <1>5, <2>1, <2>2, LossAssumption DEF Entry
<1>7. IsFiniteSet(best) /\ Kept(best) = best /\ IsFiniteSet(list)
  BY FS_AddElement DEF BestCut
<1>8. Safe = Completed /\ Safe' = Completed \ victims'
  BY <1>2 DEF Safe, RemovedAtOnce, Completed, Complete
<1>9. t \in Completed  BY <1>2, <1>8 DEF Survivors, Committed
<1>10. Safe' # {}
  <2>1. CASE t > 1
    <3>1. PICK u \in Completed : u < t
      BY <1>2, <1>8, <2>1 DEF Survivors, Committed, EarlierSafe
    <3>2. u # t  BY <1>5, <3>1 DEF Completed, Steps
    <3>3. ASSUME t \in victims', u \in victims' PROVE FALSE
      <4>1. PICK e \in list \ Kept(list) : e.step = t  BY <1>4, <3>3
      <4>2. PICK f \in list \ Kept(list) : f.step = u  BY <1>4, <3>3
      <4>3. e = f  
        <5> HIDE DEF new
        <5> QED  BY <1>6, <1>7, <4>1, <4>2, OneDropped
      <4> QED  BY <3>2, <4>1, <4>2, <4>3
    <3> QED  BY <1>8, <1>9, <3>1, <3>3
  <2>2. CASE ~(t > 1)
    <3>1. list = {new}  BY <1>2, <2>2 DEF BestCut, Ranked
    <3>2. {f \in list : Before(f, new)} = {}
      BY <1>6, <3>1 DEF Before, Entry
    <3>3. new \in Kept(list)
      BY <3>1, <3>2, FS_EmptySet, KeepAssumption DEF Kept
    <3>4. victims' = {}  BY <1>4, <3>1, <3>3
    <3> QED  BY <1>8, <1>9, <3>4
  <2> QED  BY <2>1, <2>2
<1>11. NothingAhead'  BY <1>2 DEF NothingAhead, Unrenamed
<1>12. SafeIsWhole'  BY <1>2, <1>8 DEF SafeIsWhole, Whole
<1>13. Survivors'  BY <1>2, <1>10 DEF Survivors, Unrenamed, Committed
<1>14. BestCut'
  <2>1. Kept(list) \subseteq list  BY DEF Kept
  <2>2. IsFiniteSet(best')  BY <1>4, <1>7, <2>1, FS_Subset
  <2>3. Kept(Kept(list)) = Kept(list)  BY <1>7, CutAgain
  <2>4. Kept(best)' = best'  BY <1>4, <2>3 DEF Kept, Before
  <2> QED  BY <1>2, <1>5, <2>2, <2>4 DEF BestCut, Ranked, Steps
<1>15. RemovedAtOnce'  BY <1>2 DEF RemovedAtOnce
<1> QED  BY <1>11, <1>12, <1>13, <1>14, <1>15

LEMMA NextKeep ==
  ASSUME PruneKeep >= 2, IInv, KeepInv, [Next]_vars
  PROVE  KeepInv'
<1>1. CASE Barrier  BY <1>1, BarrierKeep
<1>2. CASE RootStep
  BY <1>2, CalmRootKeep, ReplaceKeep, ClosingKeep, ListOldestKeep, RankByLossKeep,
     RemoveVictimKeep DEF RootStep
<1>3. CASE Restart
  <2>1. run' # 0  BY <1>3 DEF Restart, IInv, TypeOK
  <2> QED  BY <2>1 DEF KeepInv
<1>4. ASSUME NEW r \in Rank, RankStep(r) PROVE KeepInv'
  BY <1>4, TrainEpochKeep, OpeningKeep DEF RankStep
<1>5. CASE UNCHANGED vars
  BY <1>5, CalmKeep DEF vars, ranks, disk
<1> QED  BY <1>1, <1>2, <1>3, <1>4, <1>5 DEF Next

LEMMA KeepSurvives ==
  ASSUME IInv, KeepInv
  PROVE  SomeCheckpointSurvives
<1> SUFFICES ASSUME run = 0, NEW r \in Rank, step[r] > 1
             PROVE  \E s \in Completed : Whole(final[s])
  BY DEF SomeCheckpointSurvives
<1>1. Root \in Rank /\ step[Root] \in Nat /\ step[r] \in Nat /\ pc[Root] \in States
  BY RankAssumption, CheckpointBounds DEF IInv, TypeOK
<1>2. step[Root] > 1 \/ (step[Root] = 1 /\ pc[r] = "enter" /\ pc[Root] # "enter")
  BY <1>1 DEF IInv, SameStep
<1>3. pc[r] = "enter" => pc[Root] \in Outside
  BY <1>1, Phases DEF IInv, Outside, Opening, Writing, Closing
<1>4. Safe # {}
  <2>1. pc[Root] \in Unrenamed \cup {"meta", "complete"} \cup Committed \cup Ranked
    BY <1>1 DEF States, Unrenamed, Committed, Ranked
  <2>2. step[Root] > 1 \/ pc[Root] \in {"train", "rank", "trimming"}
    BY <1>2, <1>3 DEF Outside
  <2> QED
    BY <1>1, <1>2, <2>1, <2>2 DEF KeepInv, Survivors, EarlierSafe, Committed, Ranked
<1> QED  BY <1>4 DEF KeepInv, SafeIsWhole, Safe

\* In a job that was not restarted there is a whole checkpoint from the first one
\* on, whatever the losses and checkpoint.keep_last_n, if pruning by age keeps
\* two or more (the code keeps three).
THEOREM CheckpointsSurvive ==
  ASSUME PruneKeep >= 2
  PROVE  Spec => []SomeCheckpointSurvives
<1>1. Init => KeepInv  BY InitKeep
<1>2. IInv /\ KeepInv /\ [Next]_vars => KeepInv'  BY NextKeep
<1>3. IInv /\ KeepInv => SomeCheckpointSurvives  BY KeepSurvives
<1> QED  BY <1>1, <1>2, <1>3, InductiveInvariant, PTL DEF Spec

-------------------------------------------------------------------------------
(* No deadlock: the half of SavesEnd that is about states.  A rank can go on *)
(* by itself if the guard of one of its actions holds; Restart is no help.   *)

Removable(s) == (\E f \in final[s] : f[1] \in Kind) \/ final[s] = {Dot}

IsNext(s) == s \in victims /\ \A u \in victims : s <= u

CanGoOn(r) ==
  \/ pc[r] = "train" /\ step[r] < MaxStep
  \/ pc[r] \in {"seek", "sweep", "model", "optim"}
  \/ r = Root /\ pc[r] \in {"mkdir", "meta", "complete", "prune"}
  \/ r = Root /\ pc[r] = "rank" /\ Loss # {}
  \/ /\ r = Root /\ pc[r] = "replace"
     /\ final[step[r]] = {} \/ Removable(step[r])
  \/ /\ r = Root /\ pc[r] \in {"pruning", "trimming"}
     /\ victims # {} =>
          \E s \in victims : final[s] = {} \/ (IsNext(s) /\ Removable(s))

\* While some rank is in a save and none has failed, the ranks all wait in a
\* barrier, which then opens, or one that does not wait can go on: rank 0 is
\* never left without a next file to write or to remove, and no rank waits for
\* one that has finished training (checkpoint.py 85-97, 136-182).
NoneWaitsForGood ==
  (\A r \in Rank : pc[r] # "failed") /\ (\E r \in Rank : pc[r] # "train") =>
    (\A r \in Rank : pc[r] \in Barriers) \/ (\E r \in Rank : CanGoOn(r))

\* rmtree always finds an entry to remove: the directory itself is the last.
LEMMA AlwaysRemovable ==
  ASSUME TypeOK, NEW s \in Steps, final[s] # {}
  PROVE  Removable(s)
<1>1. final[s] \subseteq FileName  BY DEF TypeOK
<1>2. \A f \in Kind \X Rank \X Nat : f[1] \in Kind
  OBVIOUS
<1>3. CASE \E f \in final[s] : f \in Kind \X Rank \X Nat
  BY <1>2, <1>3 DEF Removable
<1>4. CASE \A f \in final[s] : f \notin Kind \X Rank \X Nat
  <2>1. \A f \in final[s] : f = Dot  BY <1>1, <1>4 DEF FileName
  <2>2. final[s] = {Dot}
    <3> HIDE DEF Dot
    <3> QED  BY <2>1
  <2> QED  BY <2>2 DEF Removable
<1> QED  BY <1>3, <1>4

\* The removals have an order, so one of them is the next.
LEMMA SomeIsNext ==
  ASSUME TypeOK, victims # {}
  PROVE  \E s \in victims : IsNext(s)
<1>1. victims \subseteq Nat /\ victims # {}  BY DEF TypeOK, Steps
<1>2. IsWellFoundedOn(OpToRel(<, Nat), Nat)  BY NatLessThanWellFounded
<1>3. PICK s \in victims : \A u \in victims : ~(<<u, s>> \in OpToRel(<, Nat))
  BY <1>1, <1>2, WFMin
<1>4. ASSUME NEW u \in victims PROVE s <= u
  <2>1. s \in Nat /\ u \in Nat  BY <1>1
  <2>2. ~(u < s)  BY <1>3, <2>1 DEF OpToRel
  <2> QED  BY <2>1, <2>2
<1> QED  BY <1>4 DEF IsNext

LEMMA RootGoesOn ==
  ASSUME IInv, Loss # {},
         pc[Root] \in {"mkdir", "replace", "meta", "complete", "prune", "pruning",
                       "rank", "trimming"}
  PROVE  \E r \in Rank : CanGoOn(r)
<1>1. Root \in Rank /\ TypeOK  BY RankAssumption DEF IInv
<1>2. CASE pc[Root] \in {"mkdir", "meta", "complete", "prune", "rank"}
  BY <1>1, <1>2 DEF CanGoOn
<1>3. CASE pc[Root] = "replace"
  <2>1. step[Root] \in Steps  BY <1>1, <1>3, StepInSave
  <2> QED  BY <1>1, <1>3, <2>1, AlwaysRemovable DEF CanGoOn
<1>4. CASE pc[Root] \in {"pruning", "trimming"}
  <2>1. ASSUME victims # {}
        PROVE  \E s \in victims : final[s] = {} \/ (IsNext(s) /\ Removable(s))
    <3>1. PICK s \in victims : IsNext(s)  BY <1>1, <2>1, SomeIsNext
    <3>2. s \in Steps  BY <1>1, <3>1 DEF TypeOK
    <3>3. final[s] = {} \/ Removable(s)  BY <1>1, <3>2, AlwaysRemovable
    <3> QED  BY <3>1, <3>3
  <2> QED  BY <1>1, <1>4, <2>1 DEF CanGoOn
<1> QED  BY <1>2, <1>3, <1>4

\* Before a save: one that has entered it waits for ranks that still have a step.
LEMMA OutsideGoesOn ==
  ASSUME IInv, Loss # {}, \A r \in Rank : pc[r] \in Outside,
         NEW q \in Rank, pc[q] # "train"
  PROVE  (\A r \in Rank : pc[r] \in Barriers) \/ (\E r \in Rank : CanGoOn(r))
<1>1. CASE \A r \in Rank : pc[r] = "enter"  BY <1>1 DEF Barriers
<1>2. CASE pc[Root] \in {"rank", "trimming"}  BY <1>2, RootGoesOn
<1>3. ASSUME NEW t \in Rank, pc[t] # "enter", pc[Root] \notin {"rank", "trimming"}
      PROVE  CanGoOn(t)
  <2>1. \A r \in Rank : pc[r] \in {"train", "enter"}
    BY <1>3, RankAssumption DEF Outside, IInv, RootAlone
  <2>2. pc[t] = "train" /\ pc[q] = "enter"  BY <1>3, <2>1
  <2>3. step[q] = step[t] + 1  BY <2>2 DEF IInv, SameStep
  <2>4. step[q] \in 0..MaxStep /\ step[t] \in 0..MaxStep  BY DEF IInv, TypeOK
  <2> QED  BY <2>2, <2>3, <2>4, CheckpointBounds DEF CanGoOn
<1> QED  BY <1>1, <1>2, <1>3

LEMMA GoesOn == IInv /\ Loss # {} => NoneWaitsForGood
<1> SUFFICES ASSUME IInv, Loss # {}, \A r \in Rank : pc[r] # "failed",
                    NEW q \in Rank, pc[q] # "train"
             PROVE  (\A r \in Rank : pc[r] \in Barriers) \/ (\E r \in Rank : CanGoOn(r))
  BY DEF NoneWaitsForGood
<1>1. CASE \A r \in Rank : pc[r] \in Outside  BY <1>1, OutsideGoesOn
<1>2. CASE \A r \in Rank : pc[r] \in Opening
  <2>1. CASE pc[Root] = "mkdir"  BY <2>1, RootGoesOn
  <2>2. CASE \E r \in Rank : pc[r] \in {"seek", "sweep"}  BY <2>2 DEF CanGoOn
  <2>3. CASE pc[Root] # "mkdir" /\ \A r \in Rank : pc[r] \notin {"seek", "sweep"}
    <3>1. \A r \in Rank : pc[r] = "open"
      BY <1>2, <2>3 DEF Opening, IInv, RootAlone
    <3> QED  BY <3>1 DEF Barriers
  <2> QED  BY <2>1, <2>2, <2>3
<1>3. CASE \A r \in Rank : pc[r] \in Writing
  BY <1>3 DEF Writing, Barriers, CanGoOn
<1>4. CASE \A r \in Rank : pc[r] \in Closing
  <2>1. CASE pc[Root] = "release"
    <3>1. \A r \in Rank : pc[r] = "release"
      BY <1>4, <2>1 DEF Closing, IInv, RootAlone
    <3> QED  BY <3>1 DEF Barriers
  <2>2. CASE pc[Root] # "release"
    BY <1>4, <2>2, RankAssumption, RootGoesOn DEF Closing
  <2> QED  BY <2>1, <2>2
<1> QED  BY <1>1, <1>2, <1>3, <1>4, Phases DEF IInv

\* A save in which no rank has failed is never stuck, whatever the ranks, the
\* restarts and what earlier saves left on disk; an epoch has some loss.
THEOREM SavesNeverStick ==
  ASSUME Loss # {}
  PROVE  Spec => []NoneWaitsForGood
<1>1. IInv => NoneWaitsForGood  BY GoesOn
<1> QED  BY <1>1, InductiveInvariant, PTL
===============================================================================
