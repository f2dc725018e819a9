-------------------------- MODULE TrainingJobProofs --------------------------
(***************************************************************************)
(* Proofs about the training job: of the logger alone (MetricsPump), of    *)
(* the ranks alone (TrainLoop), and of the two as the job composes them.   *)
(***************************************************************************)
EXTENDS TrainingJob, SequenceTheorems, TLAPS

(***************************************************************************)
(* What holds between the training thread and the worker of MLflowLogger   *)
(* at every moment: the batches the store has, the one in the worker's     *)
(* hands and those in the queue are three stretches of one increasing      *)
(* sequence; each batch that is in none of them is counted; the newest one *)
(* is the last of them; and a worker that is gone has left nothing.        *)
(***************************************************************************)

Batch == Nat \ {0}
Pending == {"put", "drain", "putAgain"}
Publishing == Pending \cup {"join", "upload"}

(* s increases; all of it is below n; above n; below all of t. *)
Sorted(s) == \A i, j \in 1 .. Len(s) : i < j => s[i] < s[j]
Under(s, n) == \A i \in 1 .. Len(s) : s[i] < n
Above(n, s) == \A i \in 1 .. Len(s) : n < s[i]
Below(s, t) == \A i \in 1 .. Len(s) : \A j \in 1 .. Len(t) : s[i] < t[j]

(* The number of the next batch that can be put. *)
Coming == IF trainer \in Pending THEN Len(steps) ELSE Len(steps) + 1

Order ==
    /\ Sorted(stored) /\ Sorted(queue) /\ Below(stored, queue)
    /\ Under(stored, Coming) /\ Under(queue, Coming)
    /\ worker = "flush" => /\ Under(stored, inHand) /\ Above(inHand, queue)
                           /\ inHand < Coming
    /\ worker \in {"flush", "read", "write"} => inHand # 0

Newest ==
    trainer = "train" /\ steps # <<>> /\ Available(setting) /\ failures = 0 =>
        \/ queue # <<>> /\ queue[Len(queue)] = Len(steps)
        \/ queue = <<>> /\ worker = "flush" /\ inHand = Len(steps)
        \/ /\ queue = <<>> /\ worker # "flush"
           /\ stored # <<>> /\ stored[Len(stored)] = Len(steps)

(* A failed put has counted its drop before the oldest batch is removed. *)
One(b) == IF b THEN 1 ELSE 0
Count ==
    Available(setting) /\ trainer # "exited" =>
        Len(steps) + One(trainer = "drain")
            <= Len(stored) + One(worker = "flush") + Len(queue)
                 + One(trainer \in Pending) + dropped + failures

Ending ==
    /\ trainer \in Publishing => Available(setting)
    /\ trainer \in Pending => Len(steps) # 0
    /\ trainer = "putAgain" => Len(queue) < QueueMax
    /\ stop => trainer \in {"join", "upload", "finished", "exited"}
    /\ Available(setting) /\ worker = "gone" /\ trainer # "exited" =>
           stop /\ queue = <<>>
    /\ joined => worker = "gone" /\ trainer \in {"upload", "finished", "exited"}
    /\ joined /\ trainer = "finished" =>
           Available(setting) /\ (failures = 0 => artifact = lines)

IInv == PumpTypeOK /\ Order /\ Newest /\ Count /\ Ending
-----------------------------------------------------------------------------
(* Sequences of batches. *)
LEMMA Elements ==
    ASSUME NEW s \in Seq(Batch)
    PROVE  /\ Len(s) \in Nat /\ \A i \in 1 .. Len(s) : s[i] \in Batch
           /\ s # <<>> => Len(s) # 0 /\ Head(s) = s[1] /\ Head(s) \in Batch
           /\ Len(s) # 0 => s # <<>>
  BY ElementOfSeq, LenProperties, EmptySeq, HeadTailProperties

LEMMA Appended ==
    ASSUME NEW s \in Seq(Batch), NEW x \in Batch, NEW t \in Seq(Batch), NEW n, NEW m
    PROVE  /\ Append(s, x) \in Seq(Batch) /\ Len(Append(s, x)) = Len(s) + 1
           /\ Append(s, x) # <<>> /\ Append(s, x)[Len(Append(s, x))] = x
           /\ Sorted(s) /\ Under(s, x) => Sorted(Append(s, x))
           /\ Under(s, n) /\ x < n => Under(Append(s, x), n)
           /\ Above(m, s) /\ m < x => Above(m, Append(s, x))
           /\ Below(s, t) /\ Above(x, t) => Below(Append(s, x), t)
           /\ Below(t, s) /\ Under(t, x) => Below(t, Append(s, x))
<1>1. /\ Append(s, x) \in Seq(Batch) /\ Len(Append(s, x)) = Len(s) + 1
      /\ \A i \in 1 .. Len(s) : Append(s, x)[i] = s[i]
      /\ Append(s, x)[Len(s) + 1] = x
  BY AppendProperties
<1>2. Len(s) \in Nat /\ Len(t) \in Nat
  BY Elements
<1>3. \A i \in 1 .. Len(Append(s, x)) : i = Len(s) + 1 \/ i \in 1 .. Len(s)
  BY <1>1, <1>2
<1>4. Append(s, x) # <<>>
  BY <1>1, <1>2, Elements
<1>5. Sorted(s) /\ Under(s, x) => Sorted(Append(s, x))
  BY <1>1, <1>2, <1>3 DEF Sorted, Under
<1>6. Under(s, n) /\ x < n => Under(Append(s, x), n)
  BY <1>1, <1>3 DEF Under
<1>7. Above(m, s) /\ m < x => Above(m, Append(s, x))
  BY <1>1, <1>3 DEF Above
<1>8. Below(s, t) /\ Above(x, t) => Below(Append(s, x), t)
  BY <1>1, <1>3 DEF Below, Above
<1>9. Below(t, s) /\ Under(t, x) => Below(t, Append(s, x))
  BY <1>1, <1>3 DEF Below, Under
<1> QED
  BY <1>1, <1>4, <1>5, <1>6, <1>7, <1>8, <1>9

LEMMA Tailed ==
    ASSUME NEW s \in Seq(Batch), s # <<>>, NEW t \in Seq(Batch), NEW n, NEW m
    PROVE  /\ Tail(s) \in Seq(Batch) /\ Len(Tail(s)) = Len(s) - 1
           /\ Tail(s) # <<>> => Tail(s)[Len(Tail(s))] = s[Len(s)]
           /\ Tail(s) = <<>> => Head(s) = s[Len(s)]
           /\ Sorted(s) => Sorted(Tail(s)) /\ Above(Head(s), Tail(s))
           /\ Under(s, n) => Under(Tail(s), n) /\ Head(s) < n
           /\ Above(m, s) => Above(m, Tail(s))
           /\ Below(t, s) => Below(t, Tail(s)) /\ Under(t, Head(s))
<1>1. /\ Tail(s) \in Seq(Batch) /\ Len(Tail(s)) = Len(s) - 1
      /\ \A i \in 1 .. Len(Tail(s)) : Tail(s)[i] = s[i + 1]
  BY HeadTailProperties
<1>2. Len(s) \in Nat /\ Len(s) # 0 /\ Len(t) \in Nat /\ Head(s) = s[1]
  BY Elements
<1>3. \A i \in 1 .. Len(Tail(s)) : i + 1 \in 1 .. Len(s) /\ 1 < i + 1
  BY <1>1, <1>2
<1>4. Tail(s) # <<>> => Tail(s)[Len(Tail(s))] = s[Len(s)]
  BY <1>1, <1>2, Elements
<1>5. ASSUME Tail(s) = <<>> PROVE Head(s) = s[Len(s)]
  <2>1. Len(Tail(s)) = 0
    BY <1>5, EmptySeq
  <2>2. Len(Tail(s)) = Len(s) - 1 /\ Len(s) \in Nat
    BY <1>1, <1>2
  <2>3. Len(s) = 1
    BY <2>1, <2>2
  <2> QED
    BY <1>2, <2>3
<1>6. Sorted(s) => Sorted(Tail(s)) /\ Above(Head(s), Tail(s))
  BY <1>1, <1>2, <1>3 DEF Sorted, Above
<1>7. Under(s, n) => Under(Tail(s), n) /\ Head(s) < n
  BY <1>1, <1>2, <1>3 DEF Under
<1>8. Above(m, s) => Above(m, Tail(s))
  BY <1>1, <1>3 DEF Above
<1>9. Below(t, s) => Below(t, Tail(s)) /\ Under(t, Head(s))
  BY <1>1, <1>2, <1>3 DEF Below, Under
<1> QED
  BY <1>1, <1>4, <1>5, <1>6, <1>7, <1>8, <1>9

LEMMA UnderMore ==
    ASSUME NEW s \in Seq(Batch), NEW n \in Nat, Under(s, n) PROVE Under(s, n + 1)
<1>1. ASSUME NEW i \in 1 .. Len(s) PROVE s[i] < n + 1
  <2>1. s[i] \in Nat /\ s[i] < n
    BY Elements DEF Under, Batch
  <2> QED
    BY <2>1
<1> QED
  BY <1>1 DEF Under

(* A bound above which nothing is, when nothing is there. *)
LEMMA Nothing ==
    ASSUME NEW s, NEW n PROVE Sorted(<<>>) /\ Under(<<>>, n) /\ Above(n, <<>>)
                              /\ Below(<<>>, s) /\ Below(s, <<>>)
  BY EmptySeq DEF Sorted, Under, Above, Below
-----------------------------------------------------------------------------
LEMMA InitInv == PumpInit => IInv
<1> SUFFICES ASSUME PumpInit PROVE IInv
  OBVIOUS
<1>1. /\ QueueMax \in Nat \ {0} /\ MaxFailures \in Nat
      /\ <<>> \in Seq(Nat) /\ <<>> \in Seq(Batch) /\ Len(<<>>) = 0
  BY PumpAssumption, EmptySeq
<1>2. /\ setting \in Settings /\ trainer = "train" /\ steps = <<>> /\ queue = <<>>
      /\ dropped = 0 /\ stop = FALSE /\ inHand = 0 /\ last = 0 /\ lines = 0
      /\ reading = 0 /\ stored = <<>> /\ artifact = 0 /\ failures = 0 /\ joined = FALSE
      /\ worker \in {"loop", "gone"} /\ (Available(setting) => worker = "loop")
  BY DEF PumpInit
<1>3. PumpTypeOK
  <2>1. steps \in Seq(Nat) /\ queue \in Seq(Batch) /\ stored \in Seq(Batch)
    BY <1>1, <1>2
  <2>2. Len(queue) <= QueueMax /\ inHand \in 0 .. Len(steps) /\ failures \in 0 .. MaxFailures
    BY <1>1, <1>2
  <2> QED
    BY <1>2, <2>1, <2>2 DEF PumpTypeOK, Batch
<1>4. Order
  BY <1>2, Nothing DEF Order
<1>5. Newest
  BY <1>2 DEF Newest
<1>6. Count
  BY <1>1, <1>2 DEF Count, One, Pending
<1>7. Ending
  BY <1>2 DEF Ending, Publishing, Pending
<1> QED
  BY <1>3, <1>4, <1>5, <1>6, <1>7 DEF IInv

(* What every step knows of the numbers and sequences before it. *)
LEMMA Facts ==
    ASSUME PumpTypeOK
    PROVE  /\ queue \in Seq(Batch) /\ stored \in Seq(Batch)
           /\ Len(queue) \in Nat /\ Len(stored) \in Nat /\ Len(steps) \in Nat
           /\ dropped \in Nat /\ failures \in Nat /\ QueueMax \in Nat \ {0}
           /\ Coming \in Nat
<1>1. /\ queue \in Seq(Batch) /\ stored \in Seq(Batch)
      /\ Len(queue) \in Nat /\ Len(stored) \in Nat /\ Len(steps) \in Nat
  BY LenProperties DEF PumpTypeOK, Batch
<1> QED
  BY <1>1, PumpAssumption DEF PumpTypeOK, Coming

(* The first batch in the queue. *)
LEMMA HeadOfQueue ==
    ASSUME PumpTypeOK, Order, queue # <<>>
    PROVE  Head(queue) \in Batch /\ Head(queue) \in 0 .. Len(steps)
<1>1. Head(queue) \in Batch /\ Head(queue) < Coming
  BY Elements, Tailed, Facts DEF Order
<1> QED
  BY <1>1, Facts DEF Coming, Batch

LEMMA LogKeeps == ASSUME IInv, NEW s \in Nat, Log(s) PROVE IInv'
<1>2. /\ trainer = "train" /\ steps' = Append(steps, s)
      /\ lines' = (IF Available(setting) /\ setting.fileOk THEN lines + 1 ELSE lines)
      /\ trainer' = IF Available(setting) THEN "put" ELSE "train"
      /\ UNCHANGED <<setting, queue, dropped, stop, worker, inHand, last, reading,
                     stored, artifact, failures, joined>>
  BY DEF Log, store
<1>3. steps' \in Seq(Nat) /\ Len(steps') = Len(steps) + 1
  BY <1>2, AppendProperties DEF IInv, PumpTypeOK
<1>4. PumpTypeOK'
  BY <1>2, <1>3, Facts DEF IInv, PumpTypeOK
<1>5. Order'
  <2>1. Coming' = Coming \/ Coming' = Coming + 1
    BY <1>2, <1>3, Facts DEF IInv, Coming, Pending
  <2>2. Under(stored', Coming') /\ Under(queue', Coming')
    BY <1>2, <2>1, UnderMore, Facts DEF IInv, Order
  <2>3. worker = "flush" => inHand < Coming'
    BY <2>1, Facts DEF IInv, Order, PumpTypeOK
  <2> QED
    BY <1>2, <2>2, <2>3 DEF IInv, Order
<1>6. Newest'
  BY <1>2 DEF Newest
<1>7. Count'
  BY <1>2, <1>3, Facts, SMTT(30) DEF IInv, Count, One, Pending
<1>8. Ending'
  BY <1>2 DEF IInv, Ending, Publishing, Pending
<1> QED
  BY <1>4, <1>5, <1>6, <1>7, <1>8 DEF IInv

(* A batch is put where there is room, by Put or by PutAgain. *)
LEMMA Queued ==
    ASSUME IInv, trainer \in {"put", "putAgain"}, trainer' = "train",
           Len(queue) < QueueMax, queue' = Append(queue, Len(steps)),
           UNCHANGED <<setting, steps, dropped, stop, worker, inHand, last, lines,
                       reading, store, joined>>
    PROVE  IInv'
<1>1. /\ Len(steps) \in Batch /\ Coming = Len(steps) /\ Coming' = Len(steps) + 1
      /\ Available(setting)
  BY Facts DEF IInv, Ending, Coming, Pending, Publishing, Batch
<1>2. /\ queue' \in Seq(Batch) /\ Len(queue') = Len(queue) + 1
      /\ queue' # <<>> /\ queue'[Len(queue')] = Len(steps)
  BY <1>1, Facts, Appended DEF IInv
<1>3. PumpTypeOK'
  BY <1>2, Facts DEF IInv, PumpTypeOK, Batch, store
<1>4. Order'
  <2>1. Sorted(queue') /\ Below(stored, queue') /\ Under(queue', Coming')
    <3>1. Under(queue, Coming') /\ Len(steps) < Coming'
      BY <1>1, UnderMore, Facts DEF IInv, Order
    <3>2. /\ queue \in Seq(Batch) /\ stored \in Seq(Batch)
          /\ Sorted(queue) /\ Below(stored, queue)
          /\ Under(queue, Len(steps)) /\ Under(stored, Len(steps))
      BY <1>1, Facts DEF IInv, Order
    <3>3. Sorted(queue')
      BY <1>1, <3>2, Appended
    <3>4. Below(stored, queue')
      BY <1>1, <3>2, Appended
    <3>5. Under(queue', Coming')
      BY <1>1, <3>1, <3>2, Appended, ZenonT(60)
    <3> QED
      BY <3>3, <3>4, <3>5
  <2>2. Under(stored, Coming')
    BY <1>1, UnderMore, Facts DEF IInv, Order
  <2>3. worker = "flush" => Above(inHand, queue') /\ inHand < Coming'
    <3>1. inHand < Len(steps) => inHand < Coming'
      BY <1>1, Facts DEF IInv, PumpTypeOK
    <3> QED
      BY <1>1, <3>1, Facts, Appended DEF IInv, Order
  <2> QED
    BY <2>1, <2>2, <2>3 DEF IInv, Order, store
<1>5. Newest'
  BY <1>2 DEF Newest
<1>6. Count'
  <2>1. /\ One(trainer = "drain") = 0 /\ One(trainer \in Pending) = 1
        /\ One(trainer' = "drain") = 0 /\ One(trainer' \in Pending) = 0
        /\ One(worker = "flush") \in Nat /\ trainer # "exited"
    BY DEF One, Pending
  <2>2. Len(steps) <= Len(stored) + One(worker = "flush") + Len(queue) + 1
                        + dropped + failures
    BY <1>1, <2>1, Facts DEF IInv, Count
  <2>3. UNCHANGED <<steps, stored, worker, dropped, failures>>
    BY DEF store
  <2>4. Len(steps') <= Len(stored') + One(worker' = "flush") + Len(queue')
                         + dropped' + failures'
    BY <1>2, <2>1, <2>2, <2>3, Facts DEF IInv
  <2> QED
    BY <2>1, <2>3, <2>4, <1>2, Facts DEF IInv, Count
<1>7. Ending'
  BY DEF IInv, Ending, Publishing, Pending, store
<1> QED
  BY <1>3, <1>4, <1>5, <1>6, <1>7 DEF IInv

(* The other steps of the training thread leave queue and store alone, or   *)
(* remove the oldest batch.                                                 *)
LEMMA PutKeeps == ASSUME IInv, Put PROVE IInv'
<1>1. CASE Len(queue) < QueueMax
  BY <1>1, Queued DEF Put
<1>2. CASE ~(Len(queue) < QueueMax)
  <2>1. /\ trainer = "put" /\ trainer' = "drain" /\ dropped' = dropped + 1
        /\ UNCHANGED <<setting, steps, queue, stop, worker, inHand, last, lines,
                       reading, stored, artifact, failures, joined>>
    BY <1>2 DEF Put, store
  <2>2. PumpTypeOK'
    BY <2>1, Facts DEF IInv, PumpTypeOK
  <2>3. Order' /\ Newest' /\ Ending'
    BY <2>1 DEF IInv, Order, Newest, Ending, Coming, Pending, Publishing
  <2>4. Count'
    BY <2>1, Facts, SMTT(30) DEF IInv, Count, One, Pending
  <2> QED
    BY <2>2, <2>3, <2>4 DEF IInv
<1> QED
  BY <1>1, <1>2

LEMMA DrainKeeps == ASSUME IInv, Drain PROVE IInv'
<1>1. /\ trainer = "drain" /\ trainer' = "putAgain"
      /\ queue' = (IF queue = <<>> THEN queue ELSE Tail(queue))
      /\ UNCHANGED <<setting, steps, dropped, stop, worker, inHand, last, lines,
                     reading, stored, artifact, failures, joined>>
  BY DEF Drain, store
<1>2. /\ queue' \in Seq(Batch) /\ Len(queue') \in Nat
      /\ Len(queue') < QueueMax /\ Len(queue) <= Len(queue') + 1
      /\ queue = <<>> => queue' = <<>>
  <2>1. CASE queue = <<>>
    BY <1>1, <2>1, Facts, EmptySeq DEF IInv
  <2>2. CASE queue # <<>>
    <3>1. Len(queue) <= QueueMax /\ Len(queue) # 0
      BY <2>2, Facts, Elements DEF IInv, PumpTypeOK
    <3> QED
      BY <1>1, <2>2, <3>1, Facts, Tailed DEF IInv
  <2> QED
    BY <2>1, <2>2
<1>3. PumpTypeOK'
  BY <1>1, <1>2, Facts DEF IInv, PumpTypeOK, Batch
<1>4. Order'
  <2>1. /\ Sorted(queue') /\ Below(stored, queue') /\ Under(queue', Coming)
        /\ worker = "flush" => Above(inHand, queue')
    BY <1>1, Facts, Tailed DEF IInv, Order
  <2> QED
    BY <1>1, <2>1 DEF IInv, Order, Coming, Pending
<1>5. Newest'
  BY <1>1 DEF Newest
<1>6. Count'
  <2>1. /\ One(trainer = "drain") = 1 /\ One(trainer \in Pending) = 1
        /\ One(trainer' = "drain") = 0 /\ One(trainer' \in Pending) = 1
        /\ One(worker = "flush") \in Nat /\ Available(setting) /\ trainer # "exited"
    BY <1>1 DEF One, Pending, IInv, Ending, Publishing
  <2>2. Len(steps) + 1 <= Len(stored) + One(worker = "flush") + Len(queue) + 1
                            + dropped + failures
    BY <2>1 DEF IInv, Count
  <2>3. Len(steps) <= Len(stored) + One(worker = "flush") + Len(queue') + 1
                        + dropped + failures
    BY <1>2, <2>1, <2>2, Facts, SMTT(30) DEF IInv
  <2>4. Len(steps) + 0 = Len(steps)
    BY Facts DEF IInv
  <2> QED
    BY <1>1, <2>1, <2>3, <2>4 DEF Count
<1>7. Ending'
  BY <1>1, <1>2 DEF IInv, Ending, Publishing, Pending
<1> QED
  BY <1>3, <1>4, <1>5, <1>6, <1>7 DEF IInv

LEMMA PutAgainKeeps == ASSUME IInv, PutAgain PROVE IInv'
  BY Queued DEF PutAgain, IInv, Ending

LEMMA FinishKeeps == ASSUME IInv, Finish PROVE IInv'
<1>1. /\ UNCHANGED <<setting, steps, queue, dropped, worker, inHand, last, lines,
                     reading, stored, artifact, failures, joined>>
      /\ trainer = "train" /\ stop' = Available(setting)
      /\ trainer' = IF Available(setting) THEN "join" ELSE "finished"
  BY DEF Finish, store
<1>2. Available(setting) \in BOOLEAN
  BY DEF Available
<1>3. PumpTypeOK'
  BY <1>1, <1>2 DEF IInv, PumpTypeOK
<1>4. Order' /\ Newest'
  BY <1>1 DEF IInv, Order, Newest, Coming, Pending
<1>5. Count'
  BY <1>1 DEF IInv, Count, One, Pending
<1>6. Ending'
  BY <1>1 DEF IInv, Ending, Publishing, Pending
<1> QED
  BY <1>3, <1>4, <1>5, <1>6 DEF IInv

LEMMA JoinKeeps == ASSUME IInv, Join PROVE IInv'
<1>1. /\ UNCHANGED <<setting, steps, queue, dropped, stop, worker, inHand, last, lines,
                     reading, stored, artifact, failures>>
      /\ trainer = "join" /\ trainer' = "upload" /\ joined' = (worker = "gone")
  BY DEF Join, store
<1>2. PumpTypeOK'
  BY <1>1 DEF IInv, PumpTypeOK
<1>3. Order' /\ Newest'
  BY <1>1 DEF IInv, Order, Newest, Coming, Pending
<1>4. Count'
  BY <1>1 DEF IInv, Count, One, Pending
<1>5. Ending'
  BY <1>1 DEF IInv, Ending, Publishing, Pending
<1> QED
  BY <1>2, <1>3, <1>4, <1>5 DEF IInv

LEMMA FinalUploadKeeps == ASSUME IInv, FinalUpload PROVE IInv'
<1>1. /\ UNCHANGED <<setting, steps, queue, dropped, stop, worker, inHand, last, lines,
                     reading, stored, joined>>
      /\ trainer = "upload" /\ trainer' = "finished"
      /\ \/ artifact' = lines /\ failures' = failures
         \/ failures < MaxFailures /\ failures' = failures + 1 /\ artifact' = artifact
  BY DEF FinalUpload
<1>2. failures' \in 0 .. MaxFailures /\ failures' \in Nat /\ failures <= failures'
      /\ artifact' \in Nat /\ (failures' = 0 => artifact' = lines)
  BY <1>1, PumpAssumption DEF IInv, PumpTypeOK
<1>3. PumpTypeOK'
  BY <1>1, <1>2 DEF IInv, PumpTypeOK
<1>4. Order' /\ Newest'
  BY <1>1 DEF IInv, Order, Newest, Coming, Pending
<1>5. Count'
  <2>1. /\ One(trainer = "drain") = 0 /\ One(trainer \in Pending) = 0
        /\ One(trainer' = "drain") = 0 /\ One(trainer' \in Pending) = 0
        /\ One(worker = "flush") \in Nat
    BY <1>1 DEF One, Pending
  <2>2. Available(setting) => Len(steps) <= Len(stored) + One(worker = "flush") + Len(queue)
                                              + dropped + failures
    BY <1>1, <2>1, Facts DEF IInv, Count
  <2>3. Available(setting) => Len(steps) <= Len(stored) + One(worker = "flush") + Len(queue)
                                              + dropped + failures'
    BY <1>2, <2>1, <2>2, Facts, SMTT(30) DEF IInv
  <2> QED
    BY <1>1, <1>2, <2>1, <2>3, Facts, SMTT(30) DEF IInv, Count
<1>6. Ending'
  BY <1>1, <1>2 DEF IInv, Ending, Publishing, Pending
<1> QED
  BY <1>3, <1>4, <1>5, <1>6 DEF IInv

LEMMA ExitKeeps == ASSUME IInv, Exit PROVE IInv'
<1>1. /\ UNCHANGED <<setting, steps, queue, dropped, stop, inHand, last, lines,
                     reading, stored, artifact, failures, joined>>
      /\ trainer = "finished" /\ trainer' = "exited" /\ worker' = "gone"
  BY DEF Exit, store
<1>2. PumpTypeOK'
  BY <1>1 DEF IInv, PumpTypeOK
<1>3. Order' /\ Newest'
  BY <1>1 DEF IInv, Order, Newest, Coming, Pending
<1>4. Count'
  BY <1>1 DEF Count
<1>5. Ending'
  BY <1>1 DEF IInv, Ending, Publishing, Pending
<1> QED
  BY <1>2, <1>3, <1>4, <1>5 DEF IInv
-----------------------------------------------------------------------------
(* The worker. *)
LEMMA LeaveKeeps == ASSUME IInv, Leave PROVE IInv'
<1>1. /\ UNCHANGED <<setting, trainer, steps, queue, dropped, stop, inHand, last, lines,
                     reading, stored, artifact, failures, joined>>
      /\ worker = "loop" /\ stop /\ queue = <<>> /\ worker' = "gone"
  BY DEF Leave, store
<1>2. PumpTypeOK'
  BY <1>1 DEF IInv, PumpTypeOK
<1>3. Order' /\ Newest'
  BY <1>1 DEF IInv, Order, Newest, Coming, Pending
<1>4. Count'
  BY <1>1 DEF IInv, Count, One, Pending
<1>5. Ending'
  BY <1>1 DEF IInv, Ending, Publishing, Pending
<1> QED
  BY <1>2, <1>3, <1>4, <1>5 DEF IInv

LEMMA TakeKeeps == ASSUME IInv, Take PROVE IInv'
<1>1. /\ UNCHANGED <<setting, trainer, steps, dropped, stop, last, lines,
                     reading, stored, artifact, failures, joined>>
      /\ worker = "loop" /\ worker' = "flush" /\ queue # <<>>
      /\ inHand' = Head(queue) /\ queue' = Tail(queue)
  BY DEF Take, store
<1>2. /\ Head(queue) \in Batch /\ Head(queue) \in 0 .. Len(steps)
      /\ queue' \in Seq(Batch) /\ Len(queue') = Len(queue) - 1
      /\ Len(queue) # 0
  BY <1>1, HeadOfQueue, Tailed, Facts, Elements DEF IInv
<1>3. PumpTypeOK'
  BY <1>1, <1>2, Facts DEF IInv, PumpTypeOK, Batch
<1>4. Order'
  <2>1. /\ Sorted(queue') /\ Above(inHand', queue') /\ Below(stored, queue')
        /\ Under(queue', Coming) /\ inHand' < Coming /\ Under(stored, inHand')
    BY <1>1, Facts, Tailed DEF IInv, Order
  <2> QED
    BY <1>1, <1>2, <2>1 DEF IInv, Order, Coming, Pending, Batch
<1>5. Newest'
  BY <1>1, Facts, Tailed DEF IInv, Newest
<1>6. Count'
  <2>1. /\ One(worker = "flush") = 0 /\ One(worker' = "flush") = 1
        /\ One(trainer \in Pending) \in Nat
    BY <1>1 DEF One
  <2> QED
    BY <1>1, <1>2, <2>1, Facts DEF IInv, Count
<1>7. Ending'
  BY <1>1, <1>2, Facts DEF IInv, Ending, Publishing, Pending
<1> QED
  BY <1>3, <1>4, <1>5, <1>6, <1>7 DEF IInv

LEMMA FlushedKeeps == ASSUME IInv, Flushed PROVE IInv'
<1>1. /\ UNCHANGED <<setting, trainer, steps, queue, dropped, stop, last, lines,
                     reading, artifact, failures, joined>>
      /\ worker = "flush" /\ stored' = Append(stored, inHand)
      /\ \/ worker' = "read" /\ inHand' = inHand
         \/ worker' = "loop" /\ inHand' = 0
  BY DEF Flushed
<1>2. /\ inHand \in Batch /\ stored' \in Seq(Batch) /\ Len(stored') = Len(stored) + 1
      /\ stored' # <<>> /\ stored'[Len(stored')] = inHand
  <2>1. inHand \in Batch
    BY <1>1, Facts DEF IInv, Order, PumpTypeOK, Batch
  <2> QED
    BY <1>1, <2>1, Facts, Appended DEF IInv
<1>3. PumpTypeOK'
  BY <1>1, <1>2, Facts DEF IInv, PumpTypeOK, Batch
<1>4. Order'
  <2>1. Sorted(stored') /\ Below(stored', queue) /\ Under(stored', Coming)
    BY <1>1, <1>2, Facts, Appended DEF IInv, Order
  <2> QED
    BY <1>1, <1>2, <2>1 DEF IInv, Order, Coming, Pending, Batch
<1>5. Newest'
  BY <1>1, <1>2 DEF IInv, Newest
<1>6. Count'
  <2>1. /\ One(worker = "flush") = 1 /\ One(worker' = "flush") = 0
        /\ One(trainer \in Pending) \in Nat
    BY <1>1 DEF One
  <2> QED
    BY <1>1, <1>2, <2>1, Facts DEF IInv, Count
<1>7. Ending'
  BY <1>1 DEF IInv, Ending, Publishing, Pending
<1> QED
  BY <1>3, <1>4, <1>5, <1>6, <1>7 DEF IInv

LEMMA FlushFailsKeeps == ASSUME IInv, FlushFails PROVE IInv'
<1>1. /\ UNCHANGED <<setting, trainer, steps, queue, dropped, stop, last, lines,
                     reading, stored, artifact, joined>>
      /\ worker = "flush" /\ worker' = "loop" /\ inHand' = 0
      /\ failures < MaxFailures /\ failures' = failures + 1
  BY DEF FlushFails
<1>2. failures' \in 0 .. MaxFailures /\ failures' \in Nat /\ failures' # 0
  BY <1>1, PumpAssumption DEF IInv, PumpTypeOK
<1>3. PumpTypeOK'
  BY <1>1, <1>2, Facts DEF IInv, PumpTypeOK
<1>4. Order' /\ Newest'
  BY <1>1, <1>2 DEF IInv, Order, Newest, Coming, Pending
<1>5. Count'
  <2>1. /\ One(worker = "flush") = 1 /\ One(worker' = "flush") = 0
        /\ One(trainer \in Pending) \in Nat
    BY <1>1 DEF One
  <2> QED
    BY <1>1, <2>1, Facts, SMTT(30) DEF IInv, Count
<1>6. Ending'
  BY <1>1, <1>2 DEF IInv, Ending, Publishing, Pending
<1> QED
  BY <1>3, <1>4, <1>5, <1>6 DEF IInv

LEMMA ReadLogKeeps == ASSUME IInv, ReadLog PROVE IInv'
<1>1. /\ UNCHANGED <<setting, trainer, steps, queue, dropped, stop, inHand, last, lines,
                     stored, artifact, failures, joined>>
      /\ worker = "read" /\ worker' = "write" /\ reading' = lines
  BY DEF ReadLog, store
<1>2. PumpTypeOK'
  BY <1>1 DEF IInv, PumpTypeOK
<1>3. Order' /\ Newest'
  BY <1>1 DEF IInv, Order, Newest, Coming, Pending
<1>4. Count'
  BY <1>1 DEF IInv, Count, One, Pending
<1>5. Ending'
  BY <1>1 DEF IInv, Ending, Publishing, Pending
<1> QED
  BY <1>2, <1>3, <1>4, <1>5 DEF IInv

LEMMA WriteArtifactKeeps == ASSUME IInv, WriteArtifact PROVE IInv'
<1>1. /\ UNCHANGED <<setting, trainer, steps, queue, dropped, stop, lines, stored, joined>>
      /\ worker = "write" /\ worker' = "loop" /\ inHand' = 0 /\ reading' = 0
      /\ last' = steps[inHand] + 1
      /\ \/ artifact' = reading /\ failures' = failures
         \/ failures < MaxFailures /\ failures' = failures + 1 /\ artifact' = artifact
  BY DEF WriteArtifact
<1>2. failures' \in 0 .. MaxFailures /\ failures' \in Nat /\ failures <= failures'
      /\ (failures' = 0 => failures = 0) /\ artifact' \in Nat
  BY <1>1, PumpAssumption, SMTT(30) DEF IInv, PumpTypeOK
<1>3. last' \in Nat
  <2>1. steps \in Seq(Nat) /\ inHand \in 1 .. Len(steps)
    BY <1>1, Facts DEF IInv, Order, PumpTypeOK
  <2>2. steps[inHand] \in Nat
    BY <2>1, ElementOfSeq
  <2> QED
    BY <1>1, <2>2
<1>4. PumpTypeOK'
  BY <1>1, <1>2, <1>3, Facts DEF IInv, PumpTypeOK
<1>5. Order' /\ Newest'
  BY <1>1, <1>2 DEF IInv, Order, Newest, Coming, Pending
<1>6. Count'
  <2>1. /\ One(worker = "flush") = 0 /\ One(worker' = "flush") = 0
        /\ One(trainer \in Pending) \in Nat /\ One(trainer = "drain") \in Nat
    BY <1>1 DEF One
  <2> DEFINE kept == Len(stored) + Len(queue) + One(trainer \in Pending) + dropped
  <2>2. kept \in Nat
    BY <2>1, Facts, SMTT(30) DEF IInv
  <2>3. Available(setting) /\ trainer # "exited" =>
            Len(steps) + One(trainer = "drain") <= kept + failures
    BY <2>1, Facts DEF IInv, Count
  <2>5. Available(setting) /\ trainer # "exited" =>
            Len(steps) + One(trainer = "drain") <= kept + failures'
    <3> DEFINE all == Len(steps) + One(trainer = "drain")
    <3>1. all \in Nat /\ failures \in Nat /\ failures' \in Nat
      BY <1>2, <2>1, Facts DEF IInv
    <3> SUFFICES ASSUME Available(setting), trainer # "exited"
                 PROVE  all <= kept + failures'
      OBVIOUS
    <3>2. all <= kept + failures
      BY <2>3
    <3>3. \A a, k, f, g \in Nat : a <= k + f /\ f <= g => a <= k + g
      OBVIOUS
    <3> HIDE DEF all, kept
    <3> QED
      BY <1>2, <2>2, <3>1, <3>2, <3>3
  <2> QED
    BY <1>1, <1>2, <2>1, <2>5, Facts DEF IInv, Count
<1>7. Ending'
  BY <1>1 DEF IInv, Ending, Publishing, Pending
<1> QED
  BY <1>4, <1>5, <1>6, <1>7 DEF IInv

LEMMA StutterKeeps == ASSUME IInv, UNCHANGED pumpVars PROVE IInv'
  BY DEF IInv, PumpTypeOK, Order, Newest, Count, Ending, Coming, pumpVars, store
-----------------------------------------------------------------------------
(* No step of training thread or worker disturbs the invariant.             *)
LEMMA StepKeeps ==
    ASSUME IInv,
           \/ \E s \in Nat : Log(s)
           \/ LogStep \/ Finish \/ FinishStep \/ Exit \/ WorkerStep
           \/ UNCHANGED pumpVars
    PROVE  IInv'
  BY LogKeeps, PutKeeps, DrainKeeps, PutAgainKeeps, FinishKeeps, JoinKeeps,
     FinalUploadKeeps, ExitKeeps, LeaveKeeps, TakeKeeps, FlushedKeeps, FlushFailsKeeps,
     ReadLogKeeps, WriteArtifactKeeps, StutterKeeps DEF LogStep, FinishStep, WorkerStep

(* For any queue size, any settings and any errors of the store: how the    *)
(* batches lie in store, worker and queue, and what is counted.             *)
THEOREM InductiveInvariant == PumpSpec => []IInv
<1>1. IInv /\ [PumpNext]_pumpVars => IInv'
  BY PumpAssumption, StepKeeps DEF PumpNext, LogSome, Over
<1> QED
  BY InitInv, <1>1, PTL DEF PumpSpec

(* Types; the queue never holds more than _QUEUE_MAXSIZE batches. *)
THEOREM TypeCorrect == PumpSpec => []PumpTypeOK
<1>1. IInv => PumpTypeOK
  BY DEF IInv
<1> QED
  BY InductiveInvariant, <1>1, PTL

(* What waits, flies and is stored is one sequence. *)
LEMMA InFlightIs ==
    ASSUME PumpTypeOK, Order
    PROVE  LET m == Len(stored)  k == Len(Flying)
           IN  /\ InFlight \in Seq(Nat) /\ Len(InFlight) = m + k + Len(queue)
               /\ k = One(worker = "flush")
               /\ \A i \in 1 .. Len(InFlight) :
                     InFlight[i] = IF i <= m THEN stored[i]
                                   ELSE IF i <= m + k THEN inHand ELSE queue[i - m - k]
<1>1. Flying \in Seq(Nat) /\ Len(Flying) = One(worker = "flush")
      /\ \A i \in 1 .. Len(Flying) : Flying[i] = inHand
  BY EmptySeq DEF Flying, One, PumpTypeOK
<1>2. stored \in Seq(Nat) /\ queue \in Seq(Nat) /\ Len(stored) \in Nat
      /\ Len(queue) \in Nat /\ Len(Flying) \in Nat
  BY <1>1, Facts, SeqMonotonic, LenProperties DEF Batch
<1> DEFINE s == stored \o Flying
<1>3. /\ s \in Seq(Nat) /\ Len(s) = Len(stored) + Len(Flying)
      /\ \A i \in 1 .. Len(stored) + Len(Flying) :
            s[i] = IF i <= Len(stored) THEN stored[i] ELSE Flying[i - Len(stored)]
  BY <1>1, <1>2, ConcatProperties
<1> HIDE DEF s
<1>4. /\ s \o queue \in Seq(Nat) /\ Len(s \o queue) = Len(s) + Len(queue)
      /\ \A i \in 1 .. Len(s) + Len(queue) :
            (s \o queue)[i] = IF i <= Len(s) THEN s[i] ELSE queue[i - Len(s)]
  <2>1. s \in Seq(Nat) /\ queue \in Seq(Nat)
    BY <1>2, <1>3
  <2> QED
    BY <2>1, ConcatProperties
<1>5. InFlight = s \o queue
  BY DEF InFlight, s
<1>6. ASSUME NEW i \in 1 .. Len(InFlight)
      PROVE  InFlight[i] = IF i <= Len(stored) THEN stored[i]
                           ELSE IF i <= Len(stored) + Len(Flying) THEN inHand
                           ELSE queue[i - Len(stored) - Len(Flying)]
  <2>1. CASE i <= Len(stored)
    BY <1>2, <1>3, <1>4, <1>5, <2>1, SMTT(30)
  <2>2. CASE i > Len(stored) /\ i <= Len(stored) + Len(Flying)
    <3>1. i - Len(stored) \in 1 .. Len(Flying) /\ i \in 1 .. Len(stored) + Len(Flying)
      BY <1>2, <2>2
    <3> QED
      BY <1>1, <1>2, <1>3, <1>4, <1>5, <2>2, <3>1
  <2>3. CASE i > Len(stored) + Len(Flying)
    <3>1. i - Len(s) = i - Len(stored) - Len(Flying)
      BY <1>2, <1>3
    <3> QED
      BY <1>2, <1>3, <1>4, <1>5, <2>3, <3>1, SMTT(30)
  <2> QED
    BY <1>2, <2>1, <2>2, <2>3
<1> QED
  BY <1>1, <1>3, <1>4, <1>5, <1>6

(* The three stretches make one increasing sequence, which ends with the newest. *)
LEMMA OrderFrom == IInv => OrderKept
<1> SUFFICES ASSUME IInv PROVE OrderKept
  OBVIOUS
<1> DEFINE m == Len(stored)
           k == Len(Flying)
           at(i) == IF i <= m THEN stored[i]
                    ELSE IF i <= m + k THEN inHand ELSE queue[i - m - k]
<1>1. /\ m \in Nat /\ k \in {0, 1} /\ Len(queue) \in Nat
      /\ k = One(worker = "flush")
      /\ InFlight \in Seq(Nat) /\ Len(InFlight) = m + k + Len(queue)
      /\ \A i \in 1 .. Len(InFlight) : InFlight[i] = at(i)
  BY InFlightIs, Facts DEF IInv, One
<1>2. k = 1 <=> worker = "flush"
  BY <1>1 DEF One
<1>0. m \in Nat /\ k \in {0, 1} /\ Len(queue) \in Nat
  BY <1>1
<1> HIDE DEF m, k
<1>3. ASSUME NEW i \in 1 .. m + k + Len(queue), NEW j \in 1 .. m + k + Len(queue), i < j
      PROVE  at(i) < at(j)
  <2>1. CASE j <= m
    BY <1>1, <1>3, <2>1 DEF IInv, Order, Sorted, m
  <2>2. CASE i <= m /\ j > m /\ j <= m + k
    BY <1>1, <1>2, <1>3, <2>2, SMTT(30) DEF IInv, Order, Under, m
  <2>3. CASE i <= m /\ j > m + k
    <3>1. j - m - k \in 1 .. Len(queue) /\ i \in 1 .. m
      BY <1>0, <1>3, <2>3
    <3>2. stored[i] < queue[j - m - k]
      BY <3>1 DEF IInv, Order, Below, m
    <3> QED
      BY <1>0, <1>3, <2>3, <3>2
  <2>4. CASE i > m /\ i <= m + k /\ j > m + k
    <3>1. j - m - k \in 1 .. Len(queue) /\ k = 1
      BY <1>0, <1>3, <2>4
    <3>2. inHand < queue[j - m - k]
      BY <1>2, <3>1 DEF IInv, Order, Above
    <3> QED
      BY <1>0, <1>3, <2>4, <3>2
  <2>5. CASE i > m + k
    <3>1. j - m - k \in 1 .. Len(queue) /\ i - m - k \in 1 .. Len(queue)
          /\ i - m - k < j - m - k
      BY <1>0, <1>3, <2>5
    <3>2. queue[i - m - k] < queue[j - m - k]
      BY <3>1 DEF IInv, Order, Sorted
    <3> QED
      BY <1>0, <1>3, <2>5, <3>2
  <2> HIDE DEF at
  <2> QED
    BY <1>0, <1>3, <2>1, <2>2, <2>3, <2>4, <2>5, SMTT(30)
<1>4. ASSUME trainer = "train", steps # <<>>, Available(setting), failures = 0
      PROVE  InFlight # <<>> /\ Last(InFlight) = Len(steps)
  <2>1. \/ Len(queue) # 0 /\ queue[Len(queue)] = Len(steps)
        \/ Len(queue) = 0 /\ k = 1 /\ inHand = Len(steps)
        \/ Len(queue) = 0 /\ k = 0 /\ m # 0 /\ stored[m] = Len(steps)
    BY <1>1, <1>2, <1>4, Elements, Facts, EmptySeq DEF IInv, Newest, m
  <2>2. at(m + k + Len(queue)) = Len(steps) /\ m + k + Len(queue) # 0
    <3>1. CASE Len(queue) # 0 /\ queue[Len(queue)] = Len(steps)
      <4>1. (m + k + Len(queue)) - m - k = Len(queue) /\ ~(m + k + Len(queue) <= m + k)
            /\ ~(m + k + Len(queue) <= m)
        BY <1>0, <3>1, SMTT(30)
      <4> QED
        BY <1>1, <3>1, <4>1
    <3>2. CASE Len(queue) = 0
      BY <1>1, <2>1, <3>2
    <3> QED
      BY <2>1, <3>1, <3>2
  <2>3. InFlight # <<>> /\ InFlight[Len(InFlight)] = Len(steps)
    BY <1>1, <2>2, EmptySeq, SMTT(30)
  <2> QED
    BY <2>3 DEF Last
<1>5. \A i, j \in 1 .. Len(InFlight) : i < j => InFlight[i] < InFlight[j]
  <2> HIDE DEF at
  <2> QED
    BY <1>1, <1>3
<1> QED
  BY <1>4, <1>5 DEF OrderKept

(* Batches come to the store in the order of log(), none twice, and the     *)
(* newest is never the one a full queue gives up (_pump, log).              *)
THEOREM Ordered == PumpSpec => []OrderKept
  BY InductiveInvariant, OrderFrom, PTL

(* What is in none of the stretches has been counted.                       *)
LEMMA CountFrom == IInv => LossesCounted
<1> SUFFICES ASSUME IInv, Available(setting), trainer # "exited"
             PROVE  Len(steps) <= Len(InFlight) + One(trainer \in Pending)
                                    + dropped + failures
  BY DEF LossesCounted, One, Pending
<1>1. Len(InFlight) = Len(stored) + One(worker = "flush") + Len(queue)
  BY InFlightIs DEF IInv
<1>2. /\ One(trainer \in Pending) \in Nat /\ One(worker = "flush") \in Nat
      /\ One(trainer = "drain") \in Nat
  BY DEF One
<1>3. Len(steps) + One(trainer = "drain")
          <= Len(InFlight) + One(trainer \in Pending) + dropped + failures
  BY <1>1 DEF IInv, Count
<1>4. /\ Len(steps) \in Nat /\ Len(stored) \in Nat /\ Len(queue) \in Nat
      /\ dropped \in Nat /\ failures \in Nat
  BY Facts DEF IInv
<1> QED
  BY <1>1, <1>2, <1>3, <1>4, SMTT(30)

(* Every batch that does not get to the store is counted (dropped, or an    *)
(* error of the store).                                                     *)
THEOREM Counted == PumpSpec => []LossesCounted
  BY InductiveInvariant, CountFrom, PTL

(* A worker that is gone has left nothing.                                  *)
LEMMA FinishFrom == IInv => FinishComplete
  BY DEF IInv, Ending, FinishComplete

(* A finish() that has seen the worker end leaves nothing behind (finish).  *)
THEOREM FinishedWhole == PumpSpec => []FinishComplete
  BY InductiveInvariant, FinishFrom, PTL
-----------------------------------------------------------------------------
(***************************************************************************)
(* Why the ranks of a training job meet (trainer/loop.py).  Collectives    *)
(* are taken by all ranks at once, and between two of them a rank runs on  *)
(* without looking at the others; so the argument is that each rank, from  *)
(* wherever it is, is on its way to one and the same next collective.      *)
(***************************************************************************)

Accum == config.accum
Defers == Toggles(config)

(* A collective, with the state in which a rank comes to it, and the end.   *)
Meet(kind, e, t, s, es, m) == <<kind, e, t, s, es, m>>
AtEnd(s) == Meet("done", 0, 0, s, 0, 0)

(* Batches taken, and micro-batches before the last, at the next all-reduce *)
(* of a rank that has taken t and has m of them in its window.              *)
Reach(t, m) == IF Defers THEN t + Accum - m ELSE t + 1
Filled(m) == IF Defers THEN Accum - 1 ELSE m

(* Where a rank goes from the places in the loop. *)
FromStart(e, s) ==
    IF s < config.maxSteps /\ Reach(0, 0) <= config.batches
    THEN Meet("reduce", e, Reach(0, 0), s, 0, Filled(0)) ELSE AtEnd(s)
FromReturn(e, s) ==
    IF s < config.maxSteps /\ e + 1 < config.epochs THEN FromStart(e + 1, s) ELSE AtEnd(s)
FromEpochEnd(e, s, es) ==
    IF es > 0 THEN Meet("barrier", e, 0, s, 0, 0) ELSE FromReturn(e, s)
FromMicro(e, t, s, es, m) ==
    IF Reach(t, m) <= config.batches
    THEN Meet("reduce", e, Reach(t, m), s, es, Filled(m)) ELSE FromEpochEnd(e, s, es)
FromWindow(e, t, s, es) ==
    IF s < config.maxSteps THEN FromMicro(e, t, s, es, 0) ELSE FromEpochEnd(e, s, es)

Stop(r) ==
    CASE pc[r] = "epoch"     -> FromStart(epoch[r], step[r])
      [] pc[r] = "window"    -> FromWindow(epoch[r], taken[r], step[r], epochSteps[r])
      [] pc[r] = "micro"     -> FromMicro(epoch[r], taken[r], step[r], epochSteps[r], micro[r])
      [] pc[r] = "backward"  ->
            IF sync[r] THEN Meet("reduce", epoch[r], taken[r], step[r], epochSteps[r], micro[r])
            ELSE FromMicro(epoch[r], taken[r], step[r], epochSteps[r], micro[r] + 1)
      [] pc[r] = "optimizer" ->
            IF Finite(r) THEN FromWindow(epoch[r], taken[r], step[r] + 1, epochSteps[r] + 1)
            ELSE FromWindow(epoch[r], taken[r], step[r], epochSteps[r])
      [] pc[r] = "epochEnd"  -> FromEpochEnd(epoch[r], step[r], epochSteps[r])
      [] pc[r] = "next"      -> FromReturn(epoch[r], step[r])
      [] pc[r] = "done"      -> AtEnd(step[r])
      [] OTHER               -> Meet(pc[r], epoch[r], 0, step[r], 0, 0)

Lockstep == \A r, s \in Ranks : Stop(r) = Stop(s)

(* When a rank synchronises, and how far it is in its window.               *)
Inside(r) ==
    /\ pc[r] = "micro" => micro[r] < Accum
    /\ pc[r] = "backward" => micro[r] < Accum /\ (sync[r] <=> (Defers => micro[r] = Accum - 1))
    /\ ~Defers => sync[r]
    /\ taken[r] <= config.batches

(* The gradient is that of the window so far, of the rank alone as long as  *)
(* nothing is synchronised; windows begin at multiples of Accum.            *)
Who(r) == IF Defers THEN {r} ELSE Ranks
Share(R, e, lo, hi) == {[rank |-> q, epoch |-> e, index |-> i] : q \in R, i \in lo + 1 .. hi}
Aligned(n) == \E k \in 0 .. n : n = k * Accum
Gradient(r) ==
    CASE pc[r] = "window" -> grad[r] = {} /\ Aligned(taken[r])
      [] pc[r] = "micro"  ->
            /\ grad[r] = Share(Who(r), epoch[r], taken[r] - micro[r], taken[r])
            /\ Aligned(taken[r] - micro[r])
      [] pc[r] = "backward" ->
            /\ grad[r] = Share(Who(r), epoch[r], taken[r] - 1 - micro[r], taken[r] - 1)
            /\ Aligned(taken[r] - 1 - micro[r]) /\ taken[r] > 0
      [] pc[r] = "optimizer" ->
            /\ grad[r] = Share(Ranks, epoch[r], taken[r] - Accum, taken[r])
            /\ Aligned(taken[r] - Accum)
      [] OTHER -> TRUE

(* The weights a rank has, or is about to have. *)
Applied(r) == IF pc[r] = "optimizer" /\ Finite(r) THEN Append(weights[r], grad[r])
                                                  ELSE weights[r]
SameWeights == \A r, s \in Ranks : Applied(r) = Applied(s)

(* Steps of the epoch come on top of everything that was saved. *)
InEpoch == {"window", "micro", "backward", "optimizer", "epochEnd", "barrier", "save"}
Behind(r) ==
    /\ \A i \in 1 .. Len(saved[r]) :
          saved[r][i].step + (IF pc[r] \in InEpoch THEN epochSteps[r] ELSE 0) <= step[r]
    /\ pc[r] \in {"barrier", "save"} => epochSteps[r] > 0

LoopInv ==
    /\ LoopTypeOK /\ Lockstep /\ SameWeights /\ WholeWindows /\ SavesAdvance
    /\ \A r \in Ranks : Inside(r) /\ Gradient(r) /\ Behind(r)
-----------------------------------------------------------------------------
LEMMA ConfigFacts ==
    ASSUME config \in Configs
    PROVE  /\ Accum \in Nat \ {0} /\ config.epochs \in Nat /\ config.maxSteps \in Nat
           /\ config.batches \in Nat /\ config.interval \in Nat \ {0}
           /\ Defers \in BOOLEAN
  BY ConfigsAssumption DEF Config, Accum, Defers, Toggles, StaticGraph

(* A rank's own step changes nothing of another rank. *)
Same(q) == /\ pc'[q] = pc[q] /\ epoch'[q] = epoch[q] /\ step'[q] = step[q]
           /\ epochSteps'[q] = epochSteps[q] /\ micro'[q] = micro[q]
           /\ taken'[q] = taken[q] /\ sync'[q] = sync[q] /\ grad'[q] = grad[q]
           /\ weights'[q] = weights[q] /\ saved'[q] = saved[q]

LEMMA Frame ==
    ASSUME LoopTypeOK, NEW r \in Ranks, RankStep(r)
    PROVE  /\ UNCHANGED <<config, bad, saved>>
           /\ \A q \in Ranks \ {r} : Same(q)
<1>1. CASE StartEpoch(r) \/ BeginWindow(r) \/ NextBatch(r)
  BY <1>1, SMTT(30) DEF StartEpoch, BeginWindow, NextBatch, SetGradSync, Goto, Same, LoopTypeOK
<1>2. CASE RunsOut(r) \/ EndEpoch(r)
  BY <1>2 DEF RunsOut, EndEpoch, counters, Goto, Same, LoopTypeOK
<1>3. CASE Backward(r)
  BY <1>3 DEF Backward, Goto, Same, LoopTypeOK
<1>4. CASE OptimizerStep(r)
  BY <1>4 DEF OptimizerStep, SetGradSync, Goto, Same, LoopTypeOK
<1>5. CASE SkipStep(r)
  BY <1>5 DEF SkipStep, SetGradSync, Goto, Same, LoopTypeOK, counters
<1>6. CASE EmptyEpoch(r) \/ Return(r)
  BY <1>6 DEF EmptyEpoch, Return, NextEpoch, Same, LoopTypeOK
<1> QED
  BY <1>1, <1>2, <1>3, <1>4, <1>5, <1>6 DEF RankStep

(* What each step of rank r makes of its own state. *)
LEMMA StartEpochLocal ==
    ASSUME LoopTypeOK, NEW r \in Ranks, StartEpoch(r)
    PROVE  /\ pc[r] = "epoch" /\ pc'[r] = "window" /\ taken'[r] = 0 /\ epochSteps'[r] = 0
           /\ grad'[r] = {} /\ epoch'[r] = epoch[r] /\ step'[r] = step[r]
           /\ micro'[r] = micro[r] /\ sync'[r] = sync[r] /\ weights' = weights
  BY DEF StartEpoch, Goto, LoopTypeOK

LEMMA BeginWindowLocal ==
    ASSUME LoopTypeOK, NEW r \in Ranks, BeginWindow(r)
    PROVE  /\ pc[r] = "window" /\ micro'[r] = 0
           /\ pc'[r] = (IF step[r] < config.maxSteps THEN "micro" ELSE "epochEnd")
           /\ UNCHANGED <<epoch, step, epochSteps, taken, sync, grad, weights>>
  BY DEF BeginWindow, Goto, LoopTypeOK

LEMMA NextBatchLocal ==
    ASSUME LoopTypeOK, NEW r \in Ranks, NextBatch(r)
    PROVE  /\ pc[r] = "micro" /\ pc'[r] = "backward" /\ taken[r] < config.batches
           /\ taken'[r] = taken[r] + 1
           /\ sync'[r] = IF Defers THEN micro[r] = Accum - 1 ELSE sync[r]
           /\ UNCHANGED <<epoch, step, epochSteps, micro, grad, weights>>
  BY DEF NextBatch, SetGradSync, Goto, LoopTypeOK, Defers, Accum

LEMMA RunsOutLocal ==
    ASSUME LoopTypeOK, NEW r \in Ranks, RunsOut(r)
    PROVE  /\ pc[r] = "micro" /\ pc'[r] = "epochEnd" /\ taken[r] = config.batches
           /\ UNCHANGED <<epoch, step, epochSteps, micro, taken, sync, grad, weights>>
  BY DEF RunsOut, Goto, LoopTypeOK, counters

LEMMA BackwardLocal ==
    ASSUME LoopTypeOK, NEW r \in Ranks, Backward(r)
    PROVE  /\ pc[r] = "backward" /\ ~sync[r] /\ micro'[r] = micro[r] + 1
           /\ pc'[r] = (IF micro[r] + 1 = Accum THEN "optimizer" ELSE "micro")
           /\ grad'[r] = grad[r] \cup {Own(r)}
           /\ UNCHANGED <<epoch, step, epochSteps, taken, sync, weights>>
  BY DEF Backward, Goto, LoopTypeOK, AfterBackward, Accum

LEMMA OptimizerStepLocal ==
    ASSUME LoopTypeOK, NEW r \in Ranks, OptimizerStep(r)
    PROVE  /\ pc[r] = "optimizer" /\ Finite(r) /\ pc'[r] = "window"
           /\ sync'[r] = (IF Defers THEN TRUE ELSE sync[r])
           /\ weights'[r] = Append(weights[r], grad[r]) /\ grad'[r] = {}
           /\ step'[r] = step[r] + 1 /\ epochSteps'[r] = epochSteps[r] + 1
           /\ UNCHANGED <<epoch, micro, taken>>
  BY DEF OptimizerStep, SetGradSync, Goto, LoopTypeOK, Defers

LEMMA SkipStepLocal ==
    ASSUME LoopTypeOK, NEW r \in Ranks, SkipStep(r)
    PROVE  /\ pc[r] = "optimizer" /\ ~Finite(r) /\ pc'[r] = "window"
           /\ sync'[r] = (IF Defers THEN TRUE ELSE sync[r]) /\ grad'[r] = {}
           /\ UNCHANGED <<epoch, step, epochSteps, micro, taken, weights>>
  BY DEF SkipStep, SetGradSync, Goto, LoopTypeOK, Defers, counters

(* An empty epoch, and the return after a barrier, lead on or out. *)
LEMMA OnwardLocal ==
    ASSUME LoopTypeOK, NEW r \in Ranks, EmptyEpoch(r) \/ Return(r)
    PROVE  /\ \/ pc[r] = "epochEnd" /\ epochSteps[r] = 0
              \/ pc[r] = "next"
           /\ IF step[r] < config.maxSteps /\ epoch[r] + 1 < config.epochs
              THEN pc'[r] = "epoch" /\ epoch'[r] = epoch[r] + 1
              ELSE pc'[r] = "done" /\ epoch'[r] = epoch[r]
           /\ UNCHANGED <<step, epochSteps, micro, taken, sync, grad, weights>>
  BY DEF EmptyEpoch, Return, NextEpoch, Continues, LoopTypeOK

LEMMA EndEpochLocal ==
    ASSUME LoopTypeOK, NEW r \in Ranks, EndEpoch(r)
    PROVE  /\ pc[r] = "epochEnd" /\ pc'[r] = "barrier" /\ epochSteps[r] > 0
           /\ UNCHANGED <<epoch, step, epochSteps, micro, taken, sync, grad, weights>>
  BY DEF EndEpoch, Goto, LoopTypeOK, counters
-----------------------------------------------------------------------------
(* Types. *)
Gradients == SUBSET MicroBatch
Saved == [step : Nat, weights : Seq(Gradients)]

Weights == [Ranks -> Seq(Gradients)]
Saves == [Ranks -> Seq(Saved)]
Places == {"epoch", "window", "micro", "backward", "optimizer", "epochEnd", "barrier",
           "save", "next", "done"}
Typed == /\ config \in Configs /\ bad \in Gradients /\ pc \in [Ranks -> Places]
         /\ epoch \in [Ranks -> Nat] /\ step \in [Ranks -> Nat]
         /\ epochSteps \in [Ranks -> Nat] /\ micro \in [Ranks -> Nat]
         /\ taken \in [Ranks -> Nat] /\ sync \in [Ranks -> BOOLEAN]
         /\ grad \in [Ranks -> Gradients] /\ weights \in Weights /\ saved \in Saves
LEMMA TypedSame == (Typed <=> LoopTypeOK) /\ (Typed' <=> LoopTypeOK')
  BY DEF Typed, LoopTypeOK, Gradients, Weights, Saves, Saved, Places

LEMMA TypesInit == LoopInit => LoopTypeOK
<1> SUFFICES ASSUME LoopInit PROVE LoopTypeOK
  OBVIOUS
<1>1. config \in Configs /\ <<>> \in Seq(Gradients) /\ <<>> \in Seq(Saved)
  BY EmptySeq DEF LoopInit
<1>2. bad \subseteq MicroBatch
  BY <1>1, ConfigFacts DEF LoopInit, MicroBatch
<1>3. weights \in [Ranks -> Seq(Gradients)] /\ saved \in [Ranks -> Seq(Saved)]
  BY <1>1 DEF LoopInit
<1> QED
  BY <1>1, <1>2, <1>3 DEF LoopInit, LoopTypeOK, Gradients, Saved

LEMMA OwnTyped == ASSUME LoopTypeOK, NEW r \in Ranks PROVE Own(r) \in MicroBatch
  BY DEF LoopTypeOK, Own, MicroBatch

LEMMA TypesRank ==
    ASSUME LoopTypeOK, NEW r \in Ranks, RankStep(r) PROVE LoopTypeOK'
<1>. SUFFICES ASSUME Typed PROVE Typed'
  BY TypedSame
<1>0. UNCHANGED <<config, bad, saved>>
  BY Frame
<1>1. CASE StartEpoch(r) \/ BeginWindow(r)
  <2>1. {} \in Gradients
    BY DEF Gradients
  <2>2. CASE StartEpoch(r)
    BY <1>0, <2>1, <2>2 DEF StartEpoch, Goto, Typed, Places
  <2>3. CASE BeginWindow(r)
    BY <1>0, <2>3 DEF BeginWindow, Goto, Typed, Places
  <2> QED
    BY <1>1, <2>2, <2>3
<1>2. CASE NextBatch(r)
  BY <1>0, <1>2 DEF NextBatch, SetGradSync, Goto, Typed, Places
<1>3. CASE RunsOut(r) \/ EndEpoch(r)
  BY <1>0, <1>3 DEF RunsOut, EndEpoch, counters, Goto, Typed, Places
<1>4. CASE Backward(r)
  <2>1. grad[r] \cup {Own(r)} \in Gradients
    BY OwnTyped DEF Typed, Gradients
  <2> QED
    BY <1>0, <1>4, <2>1 DEF Backward, AfterBackward, Goto, Typed, Places
<1>5. CASE OptimizerStep(r)
  <2>1. Append(weights[r], grad[r]) \in Seq(Gradients) /\ {} \in Gradients
    BY AppendProperties DEF Typed, Gradients, Weights
  <2>2. weights' \in Weights
    BY <1>5, <2>1 DEF OptimizerStep, Typed, Weights
  <2> QED
    BY <1>0, <1>5, <2>1, <2>2, SMTT(30) DEF OptimizerStep, SetGradSync, Goto, Typed, Places
<1>6. CASE SkipStep(r)
  <2>1. {} \in Gradients
    BY DEF Gradients
  <2> QED
    BY <1>0, <1>6, <2>1 DEF SkipStep, SetGradSync, Goto, Typed, Places, counters
<1>7. CASE EmptyEpoch(r) \/ Return(r)
  BY <1>0, <1>7 DEF EmptyEpoch, Return, NextEpoch, Typed, Places
<1> QED
  BY <1>1, <1>2, <1>3, <1>4, <1>5, <1>6, <1>7 DEF RankStep

LEMMA AllTyped ==
    ASSUME LoopTypeOK PROVE UNION {grad[q] \cup {Own(q)} : q \in Ranks} \subseteq MicroBatch
<1> SUFFICES ASSUME NEW q \in Ranks PROVE grad[q] \cup {Own(q)} \subseteq MicroBatch
  OBVIOUS
<1> QED
  BY OwnTyped DEF LoopTypeOK

LEMMA TypesJoint ==
    ASSUME LoopTypeOK, AllReduce \/ Barrier \/ Save \/ UNCHANGED loopVars
    PROVE  LoopTypeOK'
<1>. SUFFICES ASSUME Typed PROVE Typed'
  BY TypedSame
<1>1. CASE AllReduce
  <2>1. UNION {grad[q] \cup {Own(q)} : q \in Ranks} \in Gradients
    BY AllTyped DEF Gradients
  <2>2. grad' \in [Ranks -> Gradients]
    BY <1>1, <2>1 DEF AllReduce
  <2>3. micro' \in [Ranks -> Nat]
    BY <1>1 DEF AllReduce, Typed
  <2>4. pc' \in [Ranks -> Places]
    BY <1>1 DEF AllReduce, AfterBackward, Places
  <2> QED
    BY <1>1, <2>2, <2>3, <2>4 DEF AllReduce, Typed
<1>2. CASE Barrier
  BY <1>2 DEF Barrier, counters, Typed, Places
<1>3. CASE Save
  <2>1. \A q \in Ranks : Append(saved[q], [step |-> step[q], weights |-> weights[q]])
                             \in Seq(Saved)
    BY AppendProperties, ZenonT(60) DEF Typed, Saved, Saves, Weights
  <2>2. saved' \in Saves
    BY <1>3, <2>1 DEF Save, Saves
  <2> QED
    BY <1>3, <2>2 DEF Save, counters, Typed, Places
<1>4. CASE UNCHANGED loopVars
  BY <1>4 DEF loopVars, Typed
<1> QED
  BY <1>1, <1>2, <1>3, <1>4
-----------------------------------------------------------------------------
(* Every step of a rank on its own leads it towards the same collective. *)
LEMMA NumbersTyped ==
    ASSUME LoopTypeOK, NEW r \in Ranks
    PROVE  /\ epoch[r] \in Nat /\ step[r] \in Nat /\ epochSteps[r] \in Nat
           /\ micro[r] \in Nat /\ taken[r] \in Nat /\ sync[r] \in BOOLEAN
           /\ config \in Configs
  BY DEF LoopTypeOK

LEMMA WindowFromStart ==
    ASSUME config \in Configs, NEW e \in Nat, NEW s \in Nat
    PROVE  FromWindow(e, 0, s, 0) = FromStart(e, s)
  BY ConfigFacts DEF FromWindow, FromMicro, FromEpochEnd, FromReturn, FromStart

LEMMA SameStop ==
    ASSUME NEW q \in Ranks, Same(q), UNCHANGED <<config, bad>>
    PROVE  Stop(q)' = Stop(q)
<1>1. Accum' = Accum /\ Defers' = Defers
  BY DEF Accum, Defers, Toggles, StaticGraph
<1>2. Finite(q)' = Finite(q)
  BY DEF Finite, Same
<1> QED
  BY <1>1, <1>2 DEF Same, Stop, FromStart, FromReturn, FromEpochEnd, FromMicro, FromWindow,
     Reach, Filled, Meet, AtEnd

LEMMA StopKept ==
    ASSUME LoopTypeOK, NEW r \in Ranks, Inside(r), RankStep(r)
    PROVE  Stop(r)' = Stop(r)
<1> DEFINE e == epoch[r]  s == step[r]  n == epochSteps[r]  m == micro[r]  t == taken[r]
<1>0. /\ e \in Nat /\ s \in Nat /\ n \in Nat /\ m \in Nat /\ t \in Nat
      /\ sync[r] \in BOOLEAN /\ config \in Configs
      /\ Accum \in Nat \ {0} /\ config.epochs \in Nat /\ config.maxSteps \in Nat
      /\ config.batches \in Nat /\ Defers \in BOOLEAN
  BY NumbersTyped, ConfigFacts, SMTT(30)
<1>1. config' = config /\ Accum' = Accum /\ Defers' = Defers
  BY Frame, SMTT(30) DEF Accum, Defers, Toggles, StaticGraph
<1>2. /\ pc'[r] = "window" =>
            Stop(r)' = FromWindow(epoch'[r], taken'[r], step'[r], epochSteps'[r])
      /\ pc'[r] = "micro" =>
            Stop(r)' = FromMicro(epoch'[r], taken'[r], step'[r], epochSteps'[r], micro'[r])
      /\ pc'[r] = "backward" =>
            Stop(r)' = IF sync'[r] THEN Meet("reduce", epoch'[r], taken'[r], step'[r],
                                             epochSteps'[r], micro'[r])
                       ELSE FromMicro(epoch'[r], taken'[r], step'[r], epochSteps'[r],
                                      micro'[r] + 1)
      /\ pc'[r] = "epochEnd" => Stop(r)' = FromEpochEnd(epoch'[r], step'[r], epochSteps'[r])
      /\ pc'[r] = "epoch" => Stop(r)' = FromStart(epoch'[r], step'[r])
      /\ pc'[r] = "done" => Stop(r)' = AtEnd(step'[r])
      /\ pc'[r] = "barrier" => Stop(r)' = Meet("barrier", epoch'[r], 0, step'[r], 0, 0)
  BY <1>1 DEF Stop, FromStart, FromReturn, FromEpochEnd, FromMicro, FromWindow, Reach,
     Filled, Meet, AtEnd
<1> HIDE DEF e, s, n, m, t
<1>a. e = epoch[r] /\ s = step[r] /\ n = epochSteps[r] /\ m = micro[r] /\ t = taken[r]
  BY DEF e, s, n, m, t
<1>3. CASE StartEpoch(r)
  <2>1. Stop(r) = FromStart(e, s) /\ Stop(r)' = FromWindow(e, 0, s, 0)
    BY <1>2, <1>3, <1>a, StartEpochLocal DEF Stop
  <2> QED
    BY <1>0, <2>1, WindowFromStart
<1>4. CASE BeginWindow(r)
  BY <1>2, <1>4, <1>a, BeginWindowLocal DEF Stop, FromWindow
<1>5. CASE NextBatch(r)
  <2>1. Stop(r) = FromMicro(e, t, s, n, m) /\ t < config.batches /\ m < Accum
    BY <1>5, <1>a, NextBatchLocal DEF Stop, Inside
  <2>2. Stop(r)' = IF sync'[r] THEN Meet("reduce", e, t + 1, s, n, m)
                   ELSE FromMicro(e, t + 1, s, n, m + 1)
    BY <1>2, <1>5, <1>a, NextBatchLocal
  <2>3. sync'[r] <=> (Defers => m = Accum - 1)
    BY <1>0, <1>5, <1>a, NextBatchLocal DEF Inside
  <2> QED
    BY <1>0, <2>1, <2>2, <2>3 DEF FromMicro, Reach, Filled
<1>6. CASE RunsOut(r)
  <2>1. Stop(r) = FromMicro(e, t, s, n, m) /\ t = config.batches /\ m < Accum
    BY <1>6, <1>a, RunsOutLocal DEF Stop, Inside
  <2>2. Stop(r)' = FromEpochEnd(e, s, n)
    BY <1>2, <1>6, <1>a, RunsOutLocal
  <2> QED
    BY <1>0, <2>1, <2>2 DEF FromMicro, Reach
<1>7. CASE Backward(r)
  <2>1. Stop(r) = FromMicro(e, t, s, n, m + 1) /\ m + 1 # Accum
    BY <1>0, <1>7, <1>a, BackwardLocal DEF Stop, Inside
  <2> QED
    BY <1>2, <1>7, <1>a, <2>1, BackwardLocal
<1>8. CASE OptimizerStep(r)
  BY <1>2, <1>8, <1>a, OptimizerStepLocal DEF Stop
<1>9. CASE SkipStep(r)
  BY <1>2, <1>9, <1>a, SkipStepLocal DEF Stop
<1>10. CASE EmptyEpoch(r) \/ Return(r)
  <2>1. Stop(r) = FromReturn(e, s)
    BY <1>0, <1>10, <1>a, OnwardLocal DEF Stop, FromEpochEnd
  <2>2. Stop(r)' = FromReturn(e, s)
    BY <1>0, <1>2, <1>10, <1>a, OnwardLocal DEF FromReturn
  <2> QED
    BY <2>1, <2>2
<1>11. CASE EndEpoch(r)
  BY <1>2, <1>11, <1>a, EndEpochLocal DEF Stop, FromEpochEnd
<1> QED
  BY <1>3, <1>4, <1>5, <1>6, <1>7, <1>8, <1>9, <1>10, <1>11, SMTT(30) DEF RankStep

LEMMA AlikeStop ==
    ASSUME NEW q \in Ranks, NEW u \in Ranks,
           pc'[q] = pc'[u], epoch'[q] = epoch'[u], step'[q] = step'[u],
           epochSteps'[q] = epochSteps'[u], micro'[q] = micro'[u], taken'[q] = taken'[u],
           sync'[q] = sync'[u], Finite(q)' = Finite(u)'
    PROVE  Stop(q)' = Stop(u)'
  BY DEF Stop

LEMMA LockstepRank ==
    ASSUME LoopTypeOK, Lockstep, NEW r \in Ranks, Inside(r), RankStep(r) PROVE Lockstep'
<1>1. ASSUME NEW q \in Ranks PROVE Stop(q)' = Stop(q)
  <2>1. CASE q = r
    BY <2>1, StopKept
  <2>2. CASE q # r
    BY <2>2, Frame, SameStop
  <2> QED
    BY <2>1, <2>2
<1> QED
  BY <1>1 DEF Lockstep

(* All ranks that take part in a collective have come to the same point. *)
LEMMA ReduceTogether ==
    ASSUME Lockstep, NEW q \in Ranks, NEW u \in Ranks,
           pc[q] = "backward" /\ sync[q], pc[u] = "backward" /\ sync[u]
    PROVE  /\ epoch[q] = epoch[u] /\ step[q] = step[u] /\ epochSteps[q] = epochSteps[u]
           /\ micro[q] = micro[u] /\ taken[q] = taken[u]
<1>1. Stop(q) = Meet("reduce", epoch[q], taken[q], step[q], epochSteps[q], micro[q])
  BY DEF Stop
<1>2. Stop(u) = Meet("reduce", epoch[u], taken[u], step[u], epochSteps[u], micro[u])
  BY DEF Stop
<1> QED
  BY <1>1, <1>2 DEF Lockstep, Meet

LEMMA EpochTogether ==
    ASSUME Lockstep, NEW q \in Ranks, NEW u \in Ranks,
           pc[q] \in {"barrier", "save"}, pc[u] = pc[q]
    PROVE  epoch[q] = epoch[u] /\ step[q] = step[u]
<1>1. Stop(q) = Meet(pc[q], epoch[q], 0, step[q], 0, 0)
  BY DEF Stop
<1>2. Stop(u) = Meet(pc[u], epoch[u], 0, step[u], 0, 0)
  BY DEF Stop
<1> QED
  BY <1>1, <1>2 DEF Lockstep, Meet

LEMMA LockstepJoint ==
    ASSUME LoopTypeOK, Lockstep, AllReduce \/ Barrier \/ Save \/ UNCHANGED loopVars
    PROVE  Lockstep'
<1>. SUFFICES ASSUME NEW q \in Ranks, NEW u \in Ranks PROVE Stop(q)' = Stop(u)'
  BY DEF Lockstep
<1>1. CASE AllReduce
  <2>1. /\ epoch[q] = epoch[u] /\ step[q] = step[u] /\ epochSteps[q] = epochSteps[u]
        /\ micro[q] = micro[u] /\ taken[q] = taken[u] /\ sync[q] = sync[u]
    BY <1>1, ReduceTogether DEF AllReduce, LoopTypeOK
  <2>2. UNCHANGED <<config, bad, epoch, step, epochSteps, taken, sync>>
    BY <1>1 DEF AllReduce
  <2>3. micro'[q] = micro'[u] /\ pc'[q] = pc'[u]
    BY <1>1, <2>1 DEF AllReduce, AfterBackward
  <2>4. grad'[q] = grad'[u]
    BY <1>1 DEF AllReduce
  <2>5. Finite(q)' = Finite(u)'
    BY <2>4 DEF Finite
  <2> QED
    BY <2>1, <2>2, <2>3, <2>5, AlikeStop
<1>2. CASE Barrier
  <2>1. epoch[q] = epoch[u] /\ step[q] = step[u]
    BY <1>2, EpochTogether DEF Barrier
  <2>2. UNCHANGED <<epoch, step>> /\ pc'[q] = pc'[u] /\ pc'[q] \in {"save", "next"}
    BY <1>2, <2>1 DEF Barrier, counters, SaveDue
  <2> QED
    BY <2>1, <2>2 DEF Stop
<1>3. CASE Save
  <2>1. epoch[q] = epoch[u] /\ step[q] = step[u]
    BY <1>3, EpochTogether DEF Save
  <2>2. UNCHANGED <<epoch, step>> /\ pc'[q] = "next" /\ pc'[u] = "next"
    BY <1>3 DEF Save, counters
  <2> QED
    BY <2>1, <2>2 DEF Stop
<1>4. CASE UNCHANGED loopVars
  <2>1. Same(q) /\ Same(u) /\ UNCHANGED <<config, bad>>
    BY <1>4 DEF loopVars, Same
  <2> QED
    BY <2>1, SameStop DEF Lockstep
<1> QED
  BY <1>1, <1>2, <1>3, <1>4
-----------------------------------------------------------------------------
(* Where a rank is in its window. *)
LEMMA InsideSame ==
    ASSUME NEW q \in Ranks, Inside(q), Same(q), config' = config PROVE Inside(q)'
  BY DEF Inside, Same, Accum, Defers, Toggles, StaticGraph

LEMMA InsideRank ==
    ASSUME LoopTypeOK, NEW r \in Ranks, Inside(r), RankStep(r) PROVE Inside(r)'
<1>0. /\ epoch[r] \in Nat /\ step[r] \in Nat /\ micro[r] \in Nat /\ taken[r] \in Nat
      /\ sync[r] \in BOOLEAN /\ Accum \in Nat \ {0}
      /\ config.batches \in Nat /\ Defers \in BOOLEAN
  BY NumbersTyped, ConfigFacts
<1>1. config' = config /\ Accum' = Accum /\ Defers' = Defers
  BY Frame DEF Accum, Defers, Toggles, StaticGraph
<1>2. CASE StartEpoch(r)
  BY <1>0, <1>1, <1>2, StartEpochLocal DEF Inside
<1>3. CASE BeginWindow(r)
  BY <1>0, <1>1, <1>3, BeginWindowLocal DEF Inside
<1>4. CASE NextBatch(r)
  <2>1. sync'[r] <=> (Defers => micro[r] = Accum - 1)
    BY <1>0, <1>4, NextBatchLocal DEF Inside
  <2>2. ~Defers => sync'[r]
    BY <2>1
  <2>3. pc'[r] = "backward" /\ taken'[r] <= config.batches /\ micro'[r] < Accum
    BY <1>0, <1>4, NextBatchLocal DEF Inside
  <2>4. micro'[r] = micro[r]
    BY <1>4, NextBatchLocal
  <2> QED
    BY <1>1, <2>1, <2>2, <2>3, <2>4 DEF Inside
<1>5. CASE RunsOut(r)
  BY <1>0, <1>1, <1>5, RunsOutLocal DEF Inside
<1>6. CASE Backward(r)
  BY <1>0, <1>1, <1>6, BackwardLocal DEF Inside
<1>7. CASE OptimizerStep(r)
  BY <1>0, <1>1, <1>7, OptimizerStepLocal DEF Inside
<1>8. CASE SkipStep(r)
  BY <1>0, <1>1, <1>8, SkipStepLocal DEF Inside
<1>9. CASE EmptyEpoch(r) \/ Return(r)
  BY <1>0, <1>1, <1>9, OnwardLocal DEF Inside
<1>10. CASE EndEpoch(r)
  BY <1>0, <1>1, <1>10, EndEpochLocal DEF Inside
<1> QED
  BY <1>2, <1>3, <1>4, <1>5, <1>6, <1>7, <1>8, <1>9, <1>10 DEF RankStep

LEMMA InsideJoint ==
    ASSUME LoopTypeOK, NEW q \in Ranks, Inside(q),
           AllReduce \/ Barrier \/ Save \/ UNCHANGED loopVars
    PROVE  Inside(q)'
<1>0. micro[q] \in Nat /\ Accum \in Nat \ {0}
  BY NumbersTyped, ConfigFacts
<1>1. CASE AllReduce
  <2>1. /\ UNCHANGED <<config, taken, sync>> /\ micro'[q] = micro[q] + 1
        /\ pc[q] = "backward" /\ pc'[q] = IF micro[q] + 1 = Accum THEN "optimizer" ELSE "micro"
    BY <1>1 DEF AllReduce, AfterBackward, Accum
  <2>2. Accum' = Accum /\ Defers' = Defers
    BY <2>1 DEF Accum, Defers, Toggles, StaticGraph
  <2> QED
    BY <1>0, <2>1, <2>2 DEF Inside
<1>2. CASE Barrier \/ Save
  <2>1. UNCHANGED <<config, taken, sync>> /\ pc'[q] \in {"save", "next"}
    BY <1>2 DEF Barrier, Save, counters
  <2>2. Accum' = Accum /\ Defers' = Defers
    BY <2>1 DEF Accum, Defers, Toggles, StaticGraph
  <2> QED
    BY <2>1, <2>2 DEF Inside
<1>3. CASE UNCHANGED loopVars
  BY <1>3, InsideSame DEF loopVars, Same
<1> QED
  BY <1>1, <1>2, <1>3
-----------------------------------------------------------------------------
(* Windows begin at multiples of Accum, and a gradient grows with its window. *)
LEMMA AlignedZero == Accum \in Nat \ {0} => Aligned(0)
  BY DEF Aligned

LEMMA AlignedNext ==
    ASSUME Accum \in Nat \ {0}, NEW n \in Nat, Aligned(n - Accum)
    PROVE  Aligned(n)
<1>1. PICK k \in 0 .. n - Accum : n - Accum = k * Accum
  BY DEF Aligned
<1>2. k \in Nat /\ k + 1 \in 0 .. n
  BY <1>1
<1>3. n = (k + 1) * Accum
  BY <1>1, <1>2
<1> QED
  BY <1>2, <1>3 DEF Aligned

LEMMA AlignedNat ==
    ASSUME NEW n \in Int, Aligned(n) PROVE n \in Nat
  BY DEF Aligned

LEMMA ShareEmpty ==
    ASSUME NEW R, NEW e, NEW n \in Int PROVE Share(R, e, n, n) = {}
  BY DEF Share

LEMMA ShareNext ==
    ASSUME NEW R, NEW e, NEW lo \in Int, NEW t \in Int, lo <= t
    PROVE  Share(R, e, lo, t) \cup {[rank |-> q, epoch |-> e, index |-> t + 1] : q \in R}
              = Share(R, e, lo, t + 1)
<1>1. lo + 1 .. t + 1 = (lo + 1 .. t) \cup {t + 1}
  OBVIOUS
<1> QED
  BY <1>1 DEF Share

LEMMA ShareMono ==
    ASSUME NEW R, NEW S, R \subseteq S, NEW e, NEW lo, NEW hi
    PROVE  Share(R, e, lo, hi) \subseteq Share(S, e, lo, hi)
  BY DEF Share

LEMMA ShareOne ==
    ASSUME NEW S, NEW e, NEW lo, NEW hi, NEW x \in Share(S, e, lo, hi)
    PROVE  \E q \in S : x \in Share({q}, e, lo, hi)
  BY DEF Share

LEMMA GradientSame ==
    ASSUME NEW q \in Ranks, Gradient(q), Same(q), config' = config PROVE Gradient(q)'
<1>1. Accum' = Accum /\ Defers' = Defers
  BY DEF Accum, Defers, Toggles, StaticGraph
<1> QED
  BY <1>1 DEF Gradient, Same, Who, Aligned, Share

LEMMA GradientRank ==
    ASSUME LoopTypeOK, NEW r \in Ranks, Inside(r), Gradient(r), RankStep(r)
    PROVE  Gradient(r)'
<1>0. /\ epoch[r] \in Nat /\ micro[r] \in Nat /\ taken[r] \in Nat
      /\ sync[r] \in BOOLEAN /\ Accum \in Nat \ {0} /\ Defers \in BOOLEAN
  BY NumbersTyped, ConfigFacts
<1>1. config' = config /\ Accum' = Accum /\ Defers' = Defers
  BY Frame DEF Accum, Defers, Toggles, StaticGraph
<1>2. \A n : Aligned(n)' <=> Aligned(n)
  BY <1>1 DEF Aligned
<1>3. Who(r)' = Who(r)
  BY <1>1 DEF Who
<1>4. CASE StartEpoch(r)
  BY <1>0, <1>1, <1>4, StartEpochLocal, AlignedZero DEF Gradient, Aligned
<1>5. CASE BeginWindow(r)
  <2>1. grad[r] = {} /\ Aligned(taken[r]) /\ micro'[r] = 0
    BY <1>5, BeginWindowLocal DEF Gradient
  <2>2. Share(Who(r), epoch[r], taken[r] - 0, taken[r]) = {} /\ taken[r] - 0 = taken[r]
    BY <1>0, ShareEmpty
  <2>3. Share(Who(r), epoch[r], taken[r] - 0, taken[r])'
          = Share(Who(r), epoch[r], taken[r] - 0, taken[r])
    BY <1>3, <1>5, BeginWindowLocal DEF Share
  <2> QED
    BY <1>1, <1>2, <1>3, <1>5, <2>1, <2>2, <2>3, BeginWindowLocal DEF Gradient, Share, Aligned
<1>6. CASE NextBatch(r)
  <2>1. /\ grad[r] = Share(Who(r), epoch[r], taken[r] - micro[r], taken[r])
        /\ Aligned(taken[r] - micro[r])
    BY <1>6, NextBatchLocal DEF Gradient
  <2>2. taken[r] + 1 - 1 - micro[r] = taken[r] - micro[r] /\ taken[r] + 1 - 1 = taken[r]
    BY <1>0
  <2> QED
    BY <1>0, <1>1, <1>2, <1>3, <1>6, <2>1, <2>2, NextBatchLocal DEF Gradient, Share, Aligned
<1>7. CASE Backward(r)
  <2>1. /\ Defers /\ Who(r) = {r} /\ pc'[r] = "micro" /\ micro'[r] = micro[r] + 1
    BY <1>0, <1>7, BackwardLocal DEF Inside, Who
  <2>2. /\ grad[r] = Share({r}, epoch[r], taken[r] - 1 - micro[r], taken[r] - 1)
        /\ Aligned(taken[r] - 1 - micro[r]) /\ taken[r] > 0
    BY <1>7, <2>1, BackwardLocal DEF Gradient
  <2>3. {Own(r)} = {[rank |-> q, epoch |-> epoch[r], index |-> taken[r] - 1 + 1] : q \in {r}}
    BY <1>0 DEF Own
  <2>4. Share({r}, epoch[r], taken[r] - 1 - micro[r], taken[r] - 1)
            \cup {[rank |-> q, epoch |-> epoch[r], index |-> taken[r] - 1 + 1] : q \in {r}}
          = Share({r}, epoch[r], taken[r] - 1 - micro[r], taken[r] - 1 + 1)
    <3>1. taken[r] \in Int /\ micro[r] \in Nat
      BY <1>0
    <3> DEFINE t == taken[r] - 1
               lo == taken[r] - 1 - micro[r]
    <3>2. t \in Int /\ lo \in Int /\ lo <= t
      BY <3>1
    <3> HIDE DEF t, lo
    <3>3. Share({r}, epoch[r], lo, t)
              \cup {[rank |-> q, epoch |-> epoch[r], index |-> t + 1] : q \in {r}}
            = Share({r}, epoch[r], lo, t + 1)
      BY <3>2, ShareNext, SMTT(30)
    <3> QED
      BY <3>3 DEF t, lo
  <2>6. grad'[r] = Share({r}, epoch[r], taken[r] - 1 - micro[r], taken[r] - 1 + 1)
    BY <1>7, <2>2, <2>3, <2>4, BackwardLocal
  <2>5. taken[r] - 1 + 1 = taken[r] /\ taken[r] - 1 - micro[r] = taken[r] - (micro[r] + 1)
    BY <1>0
  <2> QED
    BY <1>0, <1>1, <1>2, <1>3, <1>7, <2>1, <2>2, <2>6, <2>5, BackwardLocal
       DEF Gradient, Share, Aligned
<1>8. CASE OptimizerStep(r)
  <2>1. Aligned(taken[r])
    BY <1>0, <1>8, OptimizerStepLocal, AlignedNext DEF Gradient
  <2> QED
    BY <1>1, <1>2, <1>8, <2>1, OptimizerStepLocal, ZenonT(60) DEF Gradient, Aligned
<1>9. CASE SkipStep(r)
  <2>1. Aligned(taken[r])
    BY <1>0, <1>9, SkipStepLocal, AlignedNext DEF Gradient
  <2> QED
    BY <1>1, <1>2, <1>9, <2>1, SkipStepLocal, ZenonT(60) DEF Gradient, Aligned
<1>10. CASE RunsOut(r) \/ EmptyEpoch(r) \/ Return(r) \/ EndEpoch(r)
  BY <1>10, RunsOutLocal, OnwardLocal, EndEpochLocal DEF Gradient
<1> QED
  BY <1>4, <1>5, <1>6, <1>7, <1>8, <1>9, <1>10 DEF RankStep

(* The all-reduce makes the gradients of the ranks one. *)
LEMMA GradientReduce ==
    ASSUME LoopTypeOK, Lockstep, \A q \in Ranks : Inside(q) /\ Gradient(q), AllReduce,
           NEW r \in Ranks
    PROVE  Gradient(r)'
<1> DEFINE e == epoch[r]  t == taken[r]  m == micro[r]
<1>0. e \in Nat /\ m \in Nat /\ t \in Nat /\ Accum \in Nat \ {0} /\ Defers \in BOOLEAN
  BY NumbersTyped, ConfigFacts
<1>1. Accum' = Accum /\ Defers' = Defers /\ \A n : Aligned(n)' <=> Aligned(n)
  BY DEF AllReduce, Accum, Defers, Toggles, StaticGraph, Aligned
<1>2. \A q \in Ranks : /\ pc[q] = "backward" /\ sync[q] /\ epoch[q] = e
                       /\ taken[q] = t /\ micro[q] = m
  BY ReduceTogether DEF AllReduce
<1>3. \A q \in Ranks : grad[q] = Share(Who(q), e, t - 1 - m, t - 1)
  BY <1>2 DEF Gradient
<1>4. Aligned(t - 1 - m) /\ t > 0
  BY <1>2 DEF Gradient
<1>5. \A q \in Ranks : Own(q) = [rank |-> q, epoch |-> e, index |-> t]
  BY <1>2 DEF Own
<1>6. UNION {grad[q] \cup {Own(q)} : q \in Ranks} = Share(Ranks, e, t - 1 - m, t)
  <2>1. Share(Ranks, e, t - 1 - m, t - 1)
            \cup {[rank |-> q, epoch |-> e, index |-> t - 1 + 1] : q \in Ranks}
          = Share(Ranks, e, t - 1 - m, t - 1 + 1)
    <3>1. t - 1 - m \in Int /\ t - 1 \in Int /\ t - 1 - m <= t - 1
      BY <1>0
    <3> HIDE DEF e, t, m
    <3> QED
      BY <3>1, ShareNext, Zenon
  <2> DEFINE Old == Share(Ranks, e, t - 1 - m, t - 1)
             New == {[rank |-> q, epoch |-> e, index |-> t - 1 + 1] : q \in Ranks}
             all == UNION {grad[q] \cup {Own(q)} : q \in Ranks}
  <2>2. \A q \in Ranks : Share({q}, e, t - 1 - m, t - 1) \subseteq grad[q] /\ grad[q] \subseteq Old
    <3> SUFFICES ASSUME NEW q \in Ranks
                 PROVE  Share({q}, e, t - 1 - m, t - 1) \subseteq grad[q] /\ grad[q] \subseteq Old
      OBVIOUS
    <3>1. {q} \subseteq Who(q) /\ Who(q) \subseteq Ranks
      BY DEF Who
    <3> QED
      BY <1>3, <3>1, ShareMono
  <2>3. \A q \in Ranks : Own(q) = [rank |-> q, epoch |-> e, index |-> t - 1 + 1]
    BY <1>0, <1>5
  <2>9. Old \cup New = Share(Ranks, e, t - 1 - m, t - 1 + 1)
    BY <2>1
  <2> HIDE DEF Old
  <2>4. ASSUME NEW x \in all PROVE x \in Old \cup New
    <3>1. PICK q \in Ranks : x \in grad[q] \/ x = Own(q)
      BY <2>4
    <3> QED
      BY <2>2, <2>3, <3>1
  <2>5. ASSUME NEW x \in Old PROVE x \in all
    <3>1. PICK q \in Ranks : x \in Share({q}, e, t - 1 - m, t - 1)
      BY <2>5, ShareOne DEF Old
    <3> QED
      BY <2>2, <3>1
  <2>6. ASSUME NEW x \in New PROVE x \in all
    BY <2>3, <2>6
  <2>7. all = Old \cup New
    BY <2>4, <2>5, <2>6
  <2>8. t - 1 + 1 = t
    BY <1>0
  <2> QED
    BY <2>9, <2>7, <2>8
<1>7. /\ grad'[r] = Share(Ranks, e, t - 1 - m, t) /\ epoch'[r] = e /\ taken'[r] = t
      /\ micro'[r] = m + 1
      /\ pc'[r] = (IF m + 1 = Accum THEN "optimizer" ELSE "micro")
  BY <1>6 DEF AllReduce, AfterBackward, Accum
<1>8. CASE m + 1 = Accum
  <2>1. t - 1 - m = t - Accum
    BY <1>0, <1>8
  <2> QED
    BY <1>1, <1>4, <1>7, <1>8, <2>1 DEF Gradient, Aligned, Share
<1>9. CASE m + 1 # Accum
  <2>1. ~Defers
    BY <1>0, <1>2, <1>9 DEF Inside
  <2>2. Who(r)' = Ranks
    BY <1>1, <2>1 DEF Who
  <2>3. t - 1 - m = t - (m + 1)
    BY <1>0
  <2> QED
    BY <1>1, <1>4, <1>7, <1>9, <2>2, <2>3 DEF Gradient, Aligned, Share
<1> QED
  BY <1>8, <1>9

LEMMA GradientJoint ==
    ASSUME NEW q \in Ranks, Gradient(q), Barrier \/ Save \/ UNCHANGED loopVars
    PROVE  Gradient(q)'
<1>1. CASE Barrier \/ Save
  <2>1. pc'[q] \in {"save", "next"}
    BY <1>1 DEF Barrier, Save
  <2> QED
    BY <2>1 DEF Gradient
<1>2. CASE UNCHANGED loopVars
  BY <1>2, GradientSame DEF loopVars, Same
<1> QED
  BY <1>1, <1>2
-----------------------------------------------------------------------------
(* The weights: whole windows, the same on all ranks. *)
Whole(r) == \A i \in 1 .. Len(weights[r]) :
               \E e \in 0 .. epoch[r], k \in 0 .. config.batches :
                   weights[r][i] = WindowOf(e, k * config.accum)

LEMMA WholeOnward ==
    ASSUME LoopTypeOK, LoopTypeOK', NEW q \in Ranks, Whole(q), weights'[q] = weights[q],
           config' = config, epoch'[q] >= epoch[q]
    PROVE  Whole(q)'
<1>1. epoch[q] \in Nat /\ epoch'[q] \in Nat
  BY DEF LoopTypeOK
<1>2. 0 .. epoch[q] \subseteq 0 .. epoch'[q]
  BY <1>1
<1>3. ASSUME NEW i \in 1 .. Len(weights[q])
      PROVE  \E e \in 0 .. epoch'[q], k \in 0 .. config.batches :
                weights[q][i] = WindowOf(e, k * config.accum)
  BY <1>2 DEF Whole
<1>4. SUFFICES ASSUME NEW i \in 1 .. Len(weights'[q])
               PROVE  (\E e \in 0 .. epoch[q], k \in 0 .. config.batches :
                          weights[q][i] = WindowOf(e, k * config.accum))'
  BY DEF Whole
<1>5. PICK e \in 0 .. epoch'[q], k \in 0 .. config.batches :
         weights[q][i] = WindowOf(e, k * config.accum)
  BY <1>3
<1>6. WindowOf(e, k * config.accum)' = WindowOf(e, k * config.accum)
  BY DEF WindowOf
<1> QED
  BY <1>5, <1>6

LEMMA EpochOnward ==
    ASSUME LoopTypeOK, NEW r \in Ranks, NEW q \in Ranks,
           RankStep(r) \/ AllReduce \/ Barrier \/ Save \/ UNCHANGED loopVars
    PROVE  epoch'[q] >= epoch[q]
<1>1. epoch[q] \in Nat /\ epoch[r] \in Nat
  BY DEF LoopTypeOK
<1>2. CASE RankStep(r) /\ q = r
  <2>1. CASE EmptyEpoch(r) \/ Return(r)
    BY <1>1, <1>2, <2>1, OnwardLocal
  <2>2. CASE ~(EmptyEpoch(r) \/ Return(r))
    <3>1. epoch' = epoch
      BY <1>2, <2>2 DEF RankStep, StartEpoch, BeginWindow, NextBatch, RunsOut, Backward,
         OptimizerStep, SkipStep, EndEpoch, counters
    <3> QED
      BY <1>1, <3>1
  <2> QED
    BY <2>1, <2>2
<1>3. CASE RankStep(r) /\ q # r
  BY <1>1, <1>3, Frame DEF Same
<1>4. CASE AllReduce \/ Barrier \/ Save \/ UNCHANGED loopVars
  BY <1>1, <1>4 DEF AllReduce, Barrier, Save, loopVars, counters
<1> QED
  BY <1>2, <1>3, <1>4

LEMMA OneWindow ==
    ASSUME LoopTypeOK, NEW r \in Ranks, Inside(r), Gradient(r), pc[r] = "optimizer"
    PROVE  \E k \in 0 .. config.batches : grad[r] = WindowOf(epoch[r], k * config.accum)
<1>0. taken[r] \in Nat /\ Accum \in Nat \ {0} /\ config.batches \in Nat
  BY NumbersTyped, ConfigFacts
<1>1. /\ grad[r] = Share(Ranks, epoch[r], taken[r] - Accum, taken[r])
      /\ Aligned(taken[r] - Accum) /\ taken[r] <= config.batches
  BY DEF Gradient, Inside
<1>2. PICK k \in 0 .. taken[r] - Accum : taken[r] - Accum = k * Accum
  BY <1>1 DEF Aligned
<1>3. k \in 0 .. config.batches
  BY <1>0, <1>1, <1>2
<1>4. taken[r] = k * Accum + Accum
  BY <1>0, <1>2
<1>5. grad[r] = WindowOf(epoch[r], k * config.accum)
  BY <1>1, <1>2, <1>4 DEF Share, WindowOf, Accum
<1> QED
  BY <1>3, <1>5

LEMMA WholeRank ==
    ASSUME LoopTypeOK, NEW r \in Ranks, Inside(r), Gradient(r), Whole(r), RankStep(r)
    PROVE  Whole(r)'
<1>0. LoopTypeOK' /\ config' = config /\ epoch'[r] >= epoch[r]
  BY TypesRank, Frame, EpochOnward
<1>1. CASE OptimizerStep(r)
  <2>1. PICK k \in 0 .. config.batches : grad[r] = WindowOf(epoch[r], k * config.accum)
    BY <1>1, OneWindow, OptimizerStepLocal
  <2>2. /\ epoch'[r] = epoch[r] /\ weights'[r] = Append(weights[r], grad[r])
    BY <1>1, OptimizerStepLocal
  <2>3. weights[r] \in Seq(SUBSET MicroBatch) /\ grad[r] \in SUBSET MicroBatch
        /\ epoch[r] \in Nat
    BY DEF LoopTypeOK
  <2>4. /\ Len(weights'[r]) = Len(weights[r]) + 1 /\ Len(weights[r]) \in Nat
        /\ \A i \in 1 .. Len(weights[r]) : weights'[r][i] = weights[r][i]
        /\ weights'[r][Len(weights[r]) + 1] = grad[r]
    BY <2>2, <2>3, AppendProperties, LenProperties
  <2>5. ASSUME NEW i \in 1 .. Len(weights'[r])
        PROVE  \E e \in 0 .. epoch[r], l \in 0 .. config.batches :
                  weights'[r][i] = WindowOf(e, l * config.accum)
    <3>1. CASE i \in 1 .. Len(weights[r])
      BY <2>4, <3>1 DEF Whole
    <3>2. CASE i = Len(weights[r]) + 1
      BY <2>1, <2>3, <2>4, <3>2
    <3> QED
      BY <2>4, <3>1, <3>2
  <2>6. ASSUME NEW i \in 1 .. Len(weights'[r])
        PROVE  \E e \in 0 .. epoch'[r], l \in 0 .. config'.batches :
                  weights'[r][i] = WindowOf(e, l * config.accum)
    BY <1>0, <2>2, <2>5
  <2>7. config'.accum = config.accum /\ config'.batches = config.batches
    BY <1>0
  <2>8. Whole(r)' <=> \A i \in 1 .. Len(weights'[r]) :
                         \E e \in 0 .. epoch'[r], l \in 0 .. config'.batches :
                            weights'[r][i] = WindowOf(e, l * config.accum)
    BY <2>7 DEF Whole, WindowOf
  <2> QED
    BY <2>6, <2>8
<1>2. CASE ~OptimizerStep(r)
  <2>1. weights'[r] = weights[r]
    BY <1>2, StartEpochLocal, BeginWindowLocal, NextBatchLocal, RunsOutLocal,
       BackwardLocal, SkipStepLocal, OnwardLocal, EndEpochLocal DEF RankStep
  <2> QED
    BY <1>0, <2>1, WholeOnward
<1> QED
  BY <1>1, <1>2

LEMMA AppliedSame ==
    ASSUME NEW q \in Ranks, Same(q), bad' = bad PROVE Applied(q)' = Applied(q)
  BY DEF Applied, Same, Finite

LEMMA AppliedRank ==
    ASSUME LoopTypeOK, NEW r \in Ranks, Inside(r), RankStep(r) PROVE Applied(r)' = Applied(r)
<1>0. micro[r] \in Nat /\ Accum \in Nat \ {0}
  BY NumbersTyped, ConfigFacts
<1>1. CASE OptimizerStep(r)
  BY <1>1, OptimizerStepLocal DEF Applied
<1>2. CASE SkipStep(r)
  BY <1>2, SkipStepLocal DEF Applied
<1>3. CASE Backward(r)
  <2>1. pc[r] = "backward" /\ pc'[r] = "micro" /\ weights' = weights
    BY <1>0, <1>3, BackwardLocal DEF Inside
  <2> QED
    BY <2>1 DEF Applied
<1>4. CASE StartEpoch(r) \/ BeginWindow(r) \/ NextBatch(r) \/ RunsOut(r) \/ EndEpoch(r)
  BY <1>4, StartEpochLocal, BeginWindowLocal, NextBatchLocal, RunsOutLocal, EndEpochLocal
     DEF Applied
<1>5. CASE EmptyEpoch(r) \/ Return(r)
  BY <1>5, OnwardLocal DEF Applied
<1> QED
  BY <1>1, <1>2, <1>3, <1>4, <1>5 DEF RankStep

LEMMA WeightsRank ==
    ASSUME LoopTypeOK, SameWeights, NEW r \in Ranks, Inside(r), RankStep(r)
    PROVE  SameWeights'
<1>1. ASSUME NEW q \in Ranks PROVE Applied(q)' = Applied(q)
  BY Frame, AppliedSame, AppliedRank
<1> QED
  BY <1>1 DEF SameWeights

LEMMA WeightsJoint ==
    ASSUME LoopTypeOK, Lockstep, SameWeights, AllReduce \/ Barrier \/ Save \/ UNCHANGED loopVars
    PROVE  SameWeights'
<1>. SUFFICES ASSUME NEW q \in Ranks, NEW u \in Ranks PROVE Applied(q)' = Applied(u)'
  BY DEF SameWeights
<1>1. CASE AllReduce
  <2>1. weights'[q] = weights'[u]
    BY <1>1 DEF AllReduce, SameWeights, Applied
  <2>2. pc'[q] = pc'[u] /\ grad'[q] = grad'[u]
    BY <1>1, ReduceTogether DEF AllReduce, AfterBackward
  <2> QED
    BY <2>1, <2>2 DEF Applied, Finite
<1>2. CASE Barrier \/ Save
  <2>1. /\ pc[q] # "optimizer" /\ pc'[q] # "optimizer" /\ weights' = weights
        /\ pc[u] # "optimizer" /\ pc'[u] # "optimizer"
    BY <1>2 DEF Barrier, Save
  <2> QED
    BY <2>1 DEF Applied, SameWeights
<1>3. CASE UNCHANGED loopVars
  BY <1>3, AppliedSame DEF loopVars, Same, SameWeights
<1> QED
  BY <1>1, <1>2, <1>3
-----------------------------------------------------------------------------
(* The checkpoints: what is saved lies behind the steps of the epoch. *)
LEMMA SavedTyped ==
    ASSUME LoopTypeOK, NEW q \in Ranks
    PROVE  /\ saved[q] \in Seq(Saved) /\ Len(saved[q]) \in Nat
           /\ \A i \in 1 .. Len(saved[q]) : saved[q][i].step \in Nat
<1>1. saved[q] \in Seq(Saved)
  BY DEF LoopTypeOK, Saved, Gradients
<1>2. Len(saved[q]) \in Nat /\ \A i \in 1 .. Len(saved[q]) : saved[q][i] \in Saved
  BY <1>1, LenProperties, ElementOfSeq
<1> QED
  BY <1>1, <1>2 DEF Saved

LEMMA BehindSame ==
    ASSUME NEW q \in Ranks, Behind(q), Same(q) PROVE Behind(q)'
  BY DEF Behind, Same

LEMMA BehindRank ==
    ASSUME LoopTypeOK, NEW r \in Ranks, Behind(r), RankStep(r) PROVE Behind(r)'
<1>0. step[r] \in Nat /\ epochSteps[r] \in Nat /\ Len(saved[r]) \in Nat
      /\ \A i \in 1 .. Len(saved[r]) : saved[r][i].step \in Nat
  BY NumbersTyped, SavedTyped
<1>1. saved' = saved
  BY Frame
<1>2. CASE StartEpoch(r)
  BY <1>0, <1>1, <1>2, StartEpochLocal DEF Behind, InEpoch
<1>3. CASE BeginWindow(r) \/ NextBatch(r) \/ RunsOut(r)
  BY <1>0, <1>1, <1>3, BeginWindowLocal, NextBatchLocal, RunsOutLocal DEF Behind, InEpoch
<1>4. CASE Backward(r)
  BY <1>0, <1>1, <1>4, BackwardLocal DEF Behind, InEpoch
<1>5. CASE OptimizerStep(r)
  <2>1. /\ pc[r] = "optimizer" /\ pc'[r] = "window" /\ step'[r] = step[r] + 1
        /\ epochSteps'[r] = epochSteps[r] + 1
    BY <1>5, OptimizerStepLocal
  <2>2. \A i \in 1 .. Len(saved[r]) : saved[r][i].step + epochSteps[r] <= step[r]
    BY <2>1 DEF Behind, InEpoch
  <2>3. \A i \in 1 .. Len(saved[r]) : saved[r][i].step + epochSteps'[r] <= step'[r]
    BY <1>0, <2>1, <2>2, SMTT(30)
  <2> QED
    BY <1>1, <2>1, <2>3 DEF Behind, InEpoch
<1>6. CASE SkipStep(r)
  BY <1>0, <1>1, <1>6, SkipStepLocal DEF Behind, InEpoch
<1>7. CASE EmptyEpoch(r) \/ Return(r)
  BY <1>0, <1>1, <1>7, OnwardLocal DEF Behind, InEpoch
<1>8. CASE EndEpoch(r)
  BY <1>0, <1>1, <1>8, EndEpochLocal DEF Behind, InEpoch
<1> QED
  BY <1>2, <1>3, <1>4, <1>5, <1>6, <1>7, <1>8 DEF RankStep

LEMMA SaveLocal ==
    ASSUME LoopTypeOK, NEW q \in Ranks, Save
    PROVE  /\ Len(saved'[q]) = Len(saved[q]) + 1
           /\ \A i \in 1 .. Len(saved[q]) : saved'[q][i] = saved[q][i]
           /\ saved'[q][Len(saved[q]) + 1] = [step |-> step[q], weights |-> weights[q]]
           /\ pc[q] = "save" /\ pc'[q] = "next" /\ UNCHANGED <<step, epochSteps>>
<1>1. saved[q] \in Seq(Saved) /\ [step |-> step[q], weights |-> weights[q]] \in Saved
  BY SavedTyped DEF LoopTypeOK, Saved, Gradients
<1>2. saved'[q] = Append(saved[q], [step |-> step[q], weights |-> weights[q]])
  BY DEF Save
<1> QED
  BY <1>1, <1>2, AppendProperties DEF Save, counters

LEMMA BehindJoint ==
    ASSUME LoopTypeOK, NEW q \in Ranks, Behind(q),
           AllReduce \/ Barrier \/ Save \/ UNCHANGED loopVars
    PROVE  Behind(q)'
<1>0. step[q] \in Nat /\ epochSteps[q] \in Nat /\ Len(saved[q]) \in Nat
      /\ \A i \in 1 .. Len(saved[q]) : saved[q][i].step \in Nat
  BY NumbersTyped, SavedTyped
<1>1. CASE AllReduce
  <2>1. /\ UNCHANGED <<saved, step, epochSteps>> /\ pc[q] = "backward"
        /\ pc'[q] \in {"micro", "optimizer"}
    BY <1>1 DEF AllReduce, AfterBackward
  <2> QED
    BY <2>1 DEF Behind, InEpoch
<1>2. CASE Barrier
  <2>1. /\ UNCHANGED <<saved, step, epochSteps>> /\ pc[q] = "barrier"
        /\ pc'[q] \in {"save", "next"}
    BY <1>2 DEF Barrier, counters
  <2> QED
    BY <1>0, <2>1 DEF Behind, InEpoch
<1>3. CASE Save
  <2>0. /\ Len(saved'[q]) = Len(saved[q]) + 1
        /\ \A i \in 1 .. Len(saved[q]) : saved'[q][i] = saved[q][i]
        /\ saved'[q][Len(saved[q]) + 1] = [step |-> step[q], weights |-> weights[q]]
        /\ pc[q] = "save" /\ pc'[q] = "next" /\ UNCHANGED <<step, epochSteps>>
    BY <1>3, SaveLocal, Zenon
  <2>1. ASSUME NEW i \in 1 .. Len(saved'[q])
        PROVE  saved'[q][i].step \in Nat /\ saved'[q][i].step <= step[q]
    <3>1. CASE i = Len(saved[q]) + 1
      BY <1>0, <2>0, <3>1
    <3>2. CASE i \in 1 .. Len(saved[q])
      <4>1. saved[q][i].step + epochSteps[q] <= step[q] /\ saved[q][i].step \in Nat
        BY <1>0, <2>0, <3>2 DEF Behind, InEpoch
      <4> QED
        BY <1>0, <2>0, <3>2, <4>1, SMTT(30)
    <3> QED
      BY <1>0, <2>0, <3>1, <3>2
  <2>2. \A i \in 1 .. Len(saved'[q]) : saved'[q][i].step + 0 <= step'[q]
    BY <2>0, <2>1
  <2> QED
    BY <2>0, <2>2 DEF Behind, InEpoch
<1>4. CASE UNCHANGED loopVars
  BY <1>4, BehindSame DEF loopVars, Same
<1> QED
  BY <1>1, <1>2, <1>3, <1>4

LEMMA AdvanceJoint ==
    ASSUME LoopTypeOK, Lockstep, SameWeights, SavesAdvance, \A q \in Ranks : Behind(q), Save
    PROVE  SavesAdvance'
<1>1. ASSUME NEW q \in Ranks, NEW u \in Ranks PROVE saved'[q] = saved'[u]
  <2>1. pc[q] = "save" /\ pc[u] = "save" /\ step[q] = step[u]
    BY EpochTogether DEF Save
  <2>2. weights[q] = weights[u]
    BY <2>1 DEF SameWeights, Applied
  <2> QED
    BY <2>1, <2>2 DEF Save, SavesAdvance
<1>2. ASSUME NEW q \in Ranks, NEW i \in 1 .. Len(saved'[q]) - 1
      PROVE  saved'[q][i].step < saved'[q][i + 1].step
  <2>0. step[q] \in Nat /\ epochSteps[q] \in Nat /\ Len(saved[q]) \in Nat
        /\ \A j \in 1 .. Len(saved[q]) : saved[q][j].step \in Nat
    BY NumbersTyped, SavedTyped
  <2>1. /\ Len(saved'[q]) = Len(saved[q]) + 1
        /\ \A j \in 1 .. Len(saved[q]) : saved'[q][j] = saved[q][j]
        /\ saved'[q][Len(saved[q]) + 1] = [step |-> step[q], weights |-> weights[q]]
        /\ pc[q] = "save"
    BY SaveLocal, Zenon
  <2>2. CASE i = Len(saved[q])
    <3>1. saved[q][i].step + epochSteps[q] <= step[q] /\ epochSteps[q] > 0
      BY <1>2, <2>0, <2>1, <2>2 DEF Behind, InEpoch
    <3>2. i \in 1 .. Len(saved[q]) /\ saved'[q][i + 1].step = step[q]
      BY <1>2, <2>0, <2>1, <2>2
    <3> QED
      BY <2>0, <2>1, <3>1, <3>2, SMTT(30)
  <2>3. CASE i # Len(saved[q])
    <3>1. i \in 1 .. Len(saved[q]) - 1
      BY <1>2, <2>0, <2>1, <2>3
    <3>2. i \in 1 .. Len(saved[q]) /\ i + 1 \in 1 .. Len(saved[q])
      BY <2>0, <3>1
    <3>3. saved[q][i].step < saved[q][i + 1].step
      BY <3>1 DEF SavesAdvance
    <3> QED
      BY <2>1, <3>2, <3>3
  <2> QED
    BY <2>2, <2>3
<1> QED
  BY <1>1, <1>2 DEF SavesAdvance
-----------------------------------------------------------------------------
(* The invariant. *)
LEMMA LoopInvInit == LoopInit => LoopInv
<1> SUFFICES ASSUME LoopInit PROVE LoopInv
  OBVIOUS
<1>1. LoopTypeOK
  BY TypesInit
<1>2. \A r \in Ranks : /\ pc[r] = (IF config.epochs = 0 THEN "done" ELSE "epoch")
                       /\ epoch[r] = 0 /\ step[r] = 0 /\ taken[r] = 0 /\ sync[r] = TRUE
                       /\ weights[r] = <<>> /\ saved[r] = <<>>
  BY DEF LoopInit
<1>3. Lockstep
  BY <1>2 DEF Lockstep, Stop
<1>4. SameWeights /\ WholeWindows /\ SavesAdvance
  BY <1>2 DEF SameWeights, Applied, WholeWindows, SavesAdvance
<1>5. ASSUME NEW r \in Ranks PROVE Inside(r) /\ Gradient(r) /\ Behind(r)
  <2>0. config \in Configs /\ config.batches \in Nat
    BY <1>1, ConfigFacts DEF LoopTypeOK
  <2>1. Inside(r)
    BY <1>2, <2>0 DEF Inside
  <2> QED
    BY <1>2, <2>1 DEF Gradient, Behind
<1> QED
  BY <1>1, <1>3, <1>4, <1>5 DEF LoopInv

LEMMA LoopInvRank ==
    ASSUME LoopInv, NEW r \in Ranks, RankStep(r) PROVE LoopInv'
<1>1. LoopTypeOK' /\ config' = config /\ saved' = saved
  BY TypesRank, Frame DEF LoopInv
<1>2. Lockstep' /\ SameWeights'
  BY LockstepRank, WeightsRank DEF LoopInv
<1>3. ASSUME NEW q \in Ranks PROVE Inside(q)' /\ Gradient(q)' /\ Behind(q)' /\ Whole(q)'
  <2>1. Inside(q) /\ Gradient(q) /\ Behind(q) /\ Whole(q)
    BY DEF LoopInv, WholeWindows, Whole
  <2>2. CASE q = r
    BY <2>1, <2>2, InsideRank, GradientRank, BehindRank, WholeRank DEF LoopInv
  <2>3. CASE q # r
    <3>1. Same(q)
      BY <2>3, Frame DEF LoopInv
    <3>2. epoch'[q] >= epoch[q] /\ weights'[q] = weights[q]
      BY <3>1, EpochOnward DEF LoopInv, Same
    <3> QED
      BY <1>1, <2>1, <3>1, <3>2, InsideSame, GradientSame, BehindSame, WholeOnward DEF LoopInv
  <2> QED
    BY <2>2, <2>3
<1>4. SavesAdvance'
  BY <1>1 DEF LoopInv, SavesAdvance
<1> QED
  BY <1>1, <1>2, <1>3, <1>4 DEF LoopInv, WholeWindows, Whole

LEMMA LoopInvJoint ==
    ASSUME LoopInv, AllReduce \/ Barrier \/ Save \/ UNCHANGED loopVars PROVE LoopInv'
<1>1. LoopTypeOK' /\ config' = config /\ weights' = weights
  BY TypesJoint DEF LoopInv, AllReduce, Barrier, Save, loopVars
<1>2. Lockstep' /\ SameWeights'
  BY LockstepJoint, WeightsJoint DEF LoopInv
<1>3. ASSUME NEW q \in Ranks PROVE Inside(q)' /\ Gradient(q)' /\ Behind(q)' /\ Whole(q)'
  <2>1. Inside(q) /\ Gradient(q) /\ Behind(q) /\ Whole(q)
    BY DEF LoopInv, WholeWindows, Whole
  <2>2. Inside(q)' /\ Behind(q)'
    BY <2>1, InsideJoint, BehindJoint DEF LoopInv
  <2>3. Gradient(q)'
    BY <2>1, GradientReduce, GradientJoint DEF LoopInv
  <2>4. epoch'[q] >= epoch[q]
    BY EpochOnward DEF LoopInv
  <2> QED
    BY <1>1, <2>1, <2>2, <2>3, <2>4, WholeOnward DEF LoopInv
<1>4. SavesAdvance'
  <2>1. CASE Save
    BY <2>1, AdvanceJoint DEF LoopInv
  <2>2. CASE AllReduce \/ Barrier \/ UNCHANGED loopVars
    <3>1. saved' = saved
      BY <2>2 DEF AllReduce, Barrier, loopVars
    <3> QED
      BY <3>1 DEF LoopInv, SavesAdvance
  <2> QED
    BY <2>1, <2>2
<1> QED
  BY <1>1, <1>2, <1>3, <1>4 DEF LoopInv, WholeWindows, Whole

LEMMA LoopInvNext == LoopInv /\ [LoopNext]_loopVars => LoopInv'
  BY LoopInvRank, LoopInvJoint DEF LoopNext, LoopDone

(* Ranks that wait in collectives are where they were on their way to. *)
LEMMA MeetFrom == LoopInv => SameCollective
<1> SUFFICES ASSUME LoopInv, NEW q \in Ranks, NEW u \in Ranks,
                    Collective(q) # <<>>, Collective(u) # <<>>
             PROVE  Collective(q) = Collective(u) /\ step[q] = step[u]
  BY DEF SameCollective
<1>1. \A r \in {q, u} :
         \/ pc[r] = "backward" /\ sync[r]
         \/ pc[r] \in {"barrier", "save"}
         \/ pc[r] = "done"
  BY DEF Collective
<1>2. \A r \in {q, u} :
         Stop(r)[1] = (IF pc[r] = "backward" THEN "reduce" ELSE pc[r]) /\ Stop(r)[4] = step[r]
  BY <1>1 DEF Stop, Meet, AtEnd
<1>3. \A r \in {q, u} :
         Collective(r) = IF pc[r] = "done" THEN <<"done", 0, 0>>
                         ELSE <<Stop(r)[1], Stop(r)[2], Stop(r)[3]>>
  BY <1>1 DEF Stop, Meet, AtEnd, Collective
<1>4. Stop(q) = Stop(u)
  BY DEF LoopInv, Lockstep
<1> QED
  BY <1>1, <1>2, <1>3, <1>4

(* For any ranks and configurations: the ranks are on their way to one next *)
(* collective, with the same weights, all made of whole windows.            *)
THEOREM LoopInvariant == LoopSpec => []LoopInv
  BY LoopInvInit, LoopInvNext, PTL DEF LoopSpec

(* No two ranks ever wait in different collectives of _run_epoch, train()   *)
(* or save_and_prune, and none waits where another has ended.               *)
THEOREM RanksMeet == LoopSpec => []SameCollective
  BY LoopInvariant, MeetFrom, PTL

(* Every gradient the optimizer is given is that of one whole window of all *)
(* ranks.                                                                   *)
THEOREM WindowsWhole == LoopSpec => []WholeWindows
<1>1. LoopInv => WholeWindows
  BY DEF LoopInv
<1> QED
  BY <1>1, LoopInvariant, PTL

(* No two checkpoints of a run have the same step, and every rank saves the *)
(* same.                                                                    *)
THEOREM CheckpointsAdvance == LoopSpec => []SavesAdvance
<1>1. LoopInv => SavesAdvance
  BY DEF LoopInv
<1> QED
  BY <1>1, LoopInvariant, PTL
-----------------------------------------------------------------------------
(***************************************************************************)
(* The training job as a composition: what is shown above of a logger and  *)
(* of the ranks holds of those in the job, because what rank Lead and the  *)
(* worker do to the logger are steps of MetricsPump, and what the job does *)
(* to the ranks are steps of TrainLoop.                                    *)
(***************************************************************************)

(* The step that Lead reports is a number. *)
StepsNumbered == step \in [Ranks -> Nat]

LEMMA InitNumbered == LoopInit => StepsNumbered
  BY DEF LoopInit, StepsNumbered

LEMMA RankNumbered ==
    ASSUME StepsNumbered, NEW r \in Ranks, RankStep(r) PROVE StepsNumbered'
<1>1. step' = step \/ step' = [step EXCEPT ![r] = @ + 1]
  <2>1. CASE OptimizerStep(r)
    BY <2>1 DEF OptimizerStep
  <2>2. CASE StartEpoch(r) \/ BeginWindow(r) \/ NextBatch(r) \/ Backward(r)
    BY <2>2 DEF StartEpoch, BeginWindow, NextBatch, Backward
  <2>3. CASE RunsOut(r) \/ SkipStep(r) \/ EndEpoch(r)
    BY <2>3 DEF RunsOut, SkipStep, EndEpoch, counters
  <2>4. CASE EmptyEpoch(r) \/ Return(r)
    BY <2>4 DEF EmptyEpoch, Return
  <2> QED
    BY <2>1, <2>2, <2>3, <2>4 DEF RankStep
<1> QED
  BY <1>1 DEF StepsNumbered

LEMMA LoopNumbered ==
    ASSUME StepsNumbered, UNCHANGED loopVars \/ AllReduce \/ Barrier \/ Save
    PROVE  StepsNumbered'
  BY DEF StepsNumbered, loopVars, AllReduce, Barrier, Save, counters

(* A step of the job is one of the ranks', and one of the logger's or none. *)
LEMMA JobSteps ==
    ASSUME StepsNumbered, [JobNext]_jobVars
    PROVE  /\ \/ \E r \in Ranks : RankStep(r)
              \/ UNCHANGED loopVars \/ AllReduce \/ Barrier \/ Save
           /\ \/ \E s \in Nat : Log(s)
              \/ LogStep \/ Finish \/ FinishStep \/ Exit \/ WorkerStep
              \/ UNCHANGED pumpVars
<1>1. CASE ReportModel
  BY <1>1 DEF ReportModel
<1>2. CASE LeadReports
  <2>1. RankStep(Lead) /\ Lead \in Ranks
    BY <1>2, LeadAssumption DEF LeadReports, Reported, RankStep
  <2>2. step'[Lead] \in Nat
    BY <2>1, RankNumbered DEF StepsNumbered
  <2> QED
    BY <1>2, <2>1, <2>2 DEF LeadReports
<1>3. CASE LeadWorks
  BY <1>3, LeadAssumption DEF LeadWorks, RankStep
<1>4. CASE \E r \in Ranks \ {Lead} : OtherWorks(r)
  BY <1>4 DEF OtherWorks
<1>5. CASE Together
  BY <1>5 DEF Together
<1>6. CASE LeadFinishes \/ InLogger \/ LeadUploads \/ WorkerWorks \/ JobExits
  BY <1>6 DEF LeadFinishes, InLogger, LeadUploads, FinishStep, WorkerWorks, JobExits
<1>7. CASE JobOver \/ UNCHANGED jobVars
  BY <1>7 DEF JobOver, jobVars
<1> QED
  BY <1>1, <1>2, <1>3, <1>4, <1>5, <1>6, <1>7 DEF JobNext

LEMMA JobKeeps == StepsNumbered /\ IInv /\ [JobNext]_jobVars => StepsNumbered' /\ IInv'
  BY JobSteps, RankNumbered, LoopNumbered, StepKeeps

(* For any ranks, configurations and settings: the invariant of the metrics *)
(* pump holds in the job.                                                   *)
THEOREM JobInvariant == JobSpec => [](StepsNumbered /\ IInv)
  BY InitNumbered, InitInv, JobKeeps, PTL DEF JobSpec, JobInit

(* The metrics of rank 0 come to the store in the order of training, none   *)
(* twice, and the newest is not lost to a full queue (mlflow_logger.log).   *)
THEOREM JobOrder == JobSpec => []OrderKept
  BY JobInvariant, OrderFrom, PTL

(* Every metrics batch of the job that is lost is counted. *)
THEOREM JobCounted == JobSpec => []LossesCounted
  BY JobInvariant, CountFrom, PTL

(* A job whose finish() has seen the worker end leaves nothing behind. *)
THEOREM JobFinished == JobSpec => []FinishComplete
  BY JobInvariant, FinishFrom, PTL

(* A training job is a run of the training loop: reporting metrics neither  *)
(* adds to what the ranks do nor changes it.                                *)
THEOREM JobIsALoop == JobSpec => LoopSpec
<1>1. StepsNumbered /\ [JobNext]_jobVars => [LoopNext]_loopVars
  BY JobSteps DEF LoopNext
<1> QED
  BY <1>1, JobInvariant, PTL DEF JobSpec, JobInit, LoopSpec

(* Waiting for the logger brings no rank into another collective than the   *)
(* rest.                                                                    *)
THEOREM JobMeets == JobSpec => []SameCollective
  BY JobIsALoop, RanksMeet, PTL

(* In the job, too, the optimizer is given whole windows. *)
THEOREM JobWindows == JobSpec => []WholeWindows
  BY JobIsALoop, WindowsWhole, PTL

(* In the job, too, checkpoints have steps of their own. *)
THEOREM JobCheckpoints == JobSpec => []SavesAdvance
  BY JobIsALoop, CheckpointsAdvance, PTL

(* Every variable of the job keeps its type, and the logger's queue its     *)
(* bound.                                                                   *)
THEOREM JobTypes == JobSpec => []JobTypeOK
<1>1. LoopInv /\ IInv => JobTypeOK
  BY DEF LoopInv, IInv, JobTypeOK
<1> QED
  BY <1>1, JobIsALoop, LoopInvariant, JobInvariant, PTL
-----------------------------------------------------------------------------
(***************************************************************************)
(* No deadlock, without the worker: the half of JobEnds that is about      *)
(* states.  A rank can go on if the guard of one of its own steps holds.   *)
(***************************************************************************)
CanGoOn(r) ==
    \/ pc[r] \in {"epoch", "window", "optimizer", "next"}
    \/ pc[r] = "micro" /\ (taken[r] < config.batches \/ taken[r] = config.batches)
    \/ pc[r] = "backward" /\ ~sync[r]
    \/ pc[r] = "epochEnd" /\ (epochSteps[r] = 0 \/ epochSteps[r] > 0)

(* The guards of AllReduce, Barrier and Save. *)
AllMeet ==
    \/ \A r \in Ranks : pc[r] = "backward" /\ sync[r]
    \/ \A r \in Ranks : pc[r] = "barrier"
    \/ \A r \in Ranks : pc[r] = "save"

LeadGoesOn ==
    \/ trainer \in Pending \cup {"join"}
    \/ trainer = "train" /\ (steps = <<>> \/ CanGoOn(Lead) \/ pc[Lead] = "done")

(* Until all ranks have returned from train() and rank 0 is in the last     *)
(* calls of finish(), one of them has a step to take, or all are in one     *)
(* collective that is over, whatever the server and the worker thread do:   *)
(* nobody waits in a collective for a rank that has gone, for one that      *)
(* waits for the logger or for one that waits for the server.               *)
JobGoesOn ==
    \/ LeadGoesOn
    \/ trainer = "train" /\ AllMeet
    \/ \E r \in Ranks \ {Lead} : CanGoOn(r)
    \/ trainer \in {"upload", "finished", "exited"} /\ \A r \in Ranks : pc[r] = "done"

(* finish() is called when train() has nothing left to do. *)
LeadGone == trainer \in {"join", "upload", "finished", "exited"} => pc[Lead] = "done"

LEMMA LeadGoneInit == JobInit => LeadGone
  BY DEF JobInit, PumpInit, LeadGone

LEMMA LeadGoneKeeps == LoopTypeOK /\ LeadGone /\ [JobNext]_jobVars => LeadGone'
<1> SUFFICES ASSUME LoopTypeOK, LeadGone, [JobNext]_jobVars PROVE LeadGone'
  OBVIOUS
<1>1. CASE ReportModel \/ LeadReports \/ LeadWorks \/ Together
  <2>1. trainer' \in {"train", "put"}
    BY <1>1 DEF ReportModel, LeadReports, LeadWorks, Together, Log, pumpVars
  <2> QED
    BY <2>1 DEF LeadGone
<1>2. CASE \E r \in Ranks \ {Lead} : OtherWorks(r)
  <2>1. PICK r \in Ranks \ {Lead} : OtherWorks(r)
    BY <1>2
  <2>2. pc'[Lead] = pc[Lead]
    BY <2>1, Frame, LeadAssumption DEF OtherWorks, Same
  <2>3. trainer' = trainer
    BY <2>1 DEF OtherWorks, pumpVars
  <2> QED
    BY <2>2, <2>3 DEF LeadGone
<1>3. CASE LeadFinishes
  BY <1>3 DEF LeadFinishes, loopVars, LeadGone
<1>4. CASE InLogger \/ LeadUploads
  BY <1>4 DEF InLogger, LeadUploads, LogStep, Put, Drain, PutAgain, Join, FinalUpload,
              loopVars, LeadGone
<1>5. CASE WorkerWorks
  <2>1. trainer' = trainer
    BY <1>5 DEF WorkerWorks, WorkerStep, Leave, Take, Flushed, FlushFails, ReadLog,
                WriteArtifact
  <2> QED
    BY <1>5, <2>1 DEF WorkerWorks, loopVars, LeadGone
<1>6. CASE JobExits
  BY <1>6, LeadAssumption DEF JobExits, loopVars, LeadGone
<1>7. CASE JobOver \/ UNCHANGED jobVars
  BY <1>7 DEF JobOver, jobVars, loopVars, pumpVars, LeadGone
<1> QED
  BY <1>1, <1>2, <1>3, <1>4, <1>5, <1>6, <1>7 DEF JobNext

(* A rank that cannot go on waits in a collective or has returned. *)
Waits(r) == \/ pc[r] = "backward" /\ sync[r]
            \/ pc[r] \in {"barrier", "save", "done"}

LEMMA WaitsOrGoes ==
    ASSUME LoopInv, NEW r \in Ranks, ~CanGoOn(r)
    PROVE  Waits(r)
<1>1. pc[r] \in Places
  BY DEF LoopInv, LoopTypeOK, Places
<1>2. taken[r] <= config.batches /\ taken[r] \in Nat /\ epochSteps[r] \in Nat
  BY DEF LoopInv, Inside, LoopTypeOK
<1>3. config.batches \in Nat
  BY ConfigFacts DEF LoopInv, LoopTypeOK
<1>4. pc[r] # "micro" /\ pc[r] # "epochEnd"
  BY <1>2, <1>3 DEF CanGoOn
<1> QED
  BY <1>1, <1>4 DEF CanGoOn, Places, Waits

(* Two that wait are at the same place. *)
LEMMA SamePlace ==
    ASSUME SameCollective, NEW q \in Ranks, NEW u \in Ranks, Waits(q), Waits(u)
    PROVE  pc[q] = pc[u]
<1>1. Collective(q) # <<>> /\ Collective(u) # <<>>
  BY DEF Collective, Waits
<1>2. Collective(q) = Collective(u)
  BY <1>1 DEF SameCollective
<1>3. \A r \in {q, u} :
         Collective(r)[1] = IF pc[r] = "backward" THEN "reduce" ELSE pc[r]
  BY DEF Collective, Waits
<1> QED
  BY <1>2, <1>3 DEF Waits

LEMMA GoesOn == LoopInv /\ SameCollective /\ PumpTypeOK /\ LeadGone => JobGoesOn
<1> SUFFICES ASSUME LoopInv, SameCollective, PumpTypeOK, LeadGone,
                    ~LeadGoesOn, \A r \in Ranks \ {Lead} : ~CanGoOn(r)
             PROVE  \/ trainer = "train" /\ AllMeet
                    \/ /\ trainer \in {"upload", "finished", "exited"}
                       /\ \A r \in Ranks : pc[r] = "done"
  BY DEF JobGoesOn
<1>1. trainer \in {"train", "upload", "finished", "exited"}
  BY DEF PumpTypeOK, LeadGoesOn, Pending
<1>2. \A r \in Ranks \ {Lead} : Waits(r)
  BY WaitsOrGoes
<1>3. Waits(Lead)
  <2>1. CASE trainer = "train"
    BY <2>1, WaitsOrGoes, LeadAssumption DEF LeadGoesOn
  <2>2. CASE trainer # "train"
    BY <1>1, <2>2 DEF LeadGone, Waits
  <2> QED
    BY <2>1, <2>2
<1>4. \A r \in Ranks : Waits(r)
  BY <1>2, <1>3
<1>5. \A r \in Ranks : pc[r] = pc[Lead]
  BY <1>4, SamePlace, LeadAssumption
<1>6. CASE trainer = "train"
  <2>1. pc[Lead] # "done"
    BY <1>6 DEF LeadGoesOn
  <2>2. AllMeet
    BY <1>3, <1>4, <1>5, <2>1 DEF AllMeet, Waits
  <2> QED
    BY <1>6, <2>2
<1>7. CASE trainer \in {"upload", "finished", "exited"}
  BY <1>5, <1>7 DEF LeadGone
<1> QED
  BY <1>1, <1>6, <1>7

(* A job cannot deadlock before the last calls of finish(), for any ranks,  *)
(* configurations and settings, and with a server that answers nobody.      *)
THEOREM JobNeverSticks == JobSpec => []JobGoesOn
<1>1. JobInit => LeadGone
  BY LeadGoneInit
<1>2. LoopInv => LoopTypeOK
  BY DEF LoopInv
<1>3. IInv => PumpTypeOK
  BY DEF IInv
<1> QED
  BY <1>1, <1>2, <1>3, LeadGoneKeeps, GoesOn, JobIsALoop, LoopInvariant, RanksMeet,
     JobInvariant, PTL DEF JobSpec
=============================================================================
