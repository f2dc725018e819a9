---------------------------- MODULE ServingProofs ----------------------------
(***************************************************************************)
(* Why the cap on the concurrent requests of the Hugging Face backend      *)
(* (serve/app.py) is a cap on its generation threads, except for those of  *)
(* clients that have left: a request is ongoing from its dispatch until    *)
(* the streamer hands it the stop signal, and the thread puts that signal  *)
(* as the last thing it does.                                              *)
(***************************************************************************)
EXTENDS Serving, SequenceTheorems, FiniteSetTheorems, TLAPS

Places == {"out", "queued", "role", "start", "drain", "close", "answered",
           "failed", "left"}
Before == {"out", "queued", "role", "start"}

(* The state this argument is about. *)
Shape ==
    /\ at \in [Clients -> Places]
    /\ thread \in [Clients -> {"none", "run", "ending", "over", "dead"}]
    /\ pipe \in [Clients -> Seq(Vocabulary \cup {END})]

(* The stop signal is in the streamer only when the thread is over, and a   *)
(* request passes the place where it reads only after it has come.          *)
Signalled ==
    backend = "hf" =>
        \A c \in Clients :
            /\ at[c] \in Before => thread[c] = "none" /\ pipe[c] = <<>>
            /\ (\E i \in DOMAIN pipe[c] : pipe[c][i] = END) => thread[c] = "over"
            /\ c \in Generating => at[c] \in {"drain", "left"}

Capped == backend = "hf" => Cardinality(Ongoing) <= MaxConcurrent

IInv == Shape /\ Signalled /\ Capped
-----------------------------------------------------------------------------
LEMMA InitInv == ServeInit => IInv
<1> SUFFICES ASSUME ServeInit PROVE IInv
  OBVIOUS
<1>1. Shape
  <2>1. pipe \in [Clients -> Seq(Vocabulary \cup {END})]
    BY EmptySeq DEF ServeInit
  <2>2. at \in [Clients -> Places] /\ thread \in [Clients -> {"none"}]
    BY DEF ServeInit, Places
  <2> QED
    BY <2>1, <2>2 DEF Shape
<1>2. Signalled
  BY DEF ServeInit, Signalled, Generating, Before
<1>3. Capped
  <2>1. Ongoing = {}
    BY DEF ServeInit, Ongoing
  <2>2. MaxConcurrent \in Nat
    BY ServingAssumption
  <2> QED
    BY <2>1, <2>2, FS_EmptySet DEF Capped
<1> QED
  BY <1>1, <1>2, <1>3 DEF IInv

(* Only dispatching makes a request ongoing, and only below the cap.        *)
LEMMA OngoingFinite == IsFiniteSet(Ongoing)
  BY ServingAssumption, FS_Subset DEF Ongoing

LEMMA CappedDispatch ==
    ASSUME Shape, Capped, NEW c \in Clients, Dispatch(c) PROVE Capped'
<1> SUFFICES ASSUME backend = "hf" PROVE Cardinality(Ongoing') <= MaxConcurrent
  BY DEF Capped, Dispatch, request
<1>1. c \notin Ongoing /\ Ongoing' = Ongoing \cup {c}
  BY DEF Dispatch, Goto, Ongoing, Shape
<1>2. Cardinality(Ongoing') = Cardinality(Ongoing) + 1
  BY <1>1, OngoingFinite, FS_AddElement
<1>3. Cardinality(Ongoing) \in Nat /\ Cardinality(Ongoing) < MaxConcurrent
  BY OngoingFinite, FS_CardinalityType DEF Dispatch
<1>4. MaxConcurrent \in Nat
  BY ServingAssumption
<1> QED
  BY <1>2, <1>3, <1>4

LEMMA CappedShrinks ==
    ASSUME Capped, backend' = backend, Ongoing' \subseteq Ongoing PROVE Capped'
<1> SUFFICES ASSUME backend = "hf" PROVE Cardinality(Ongoing') <= MaxConcurrent
  BY DEF Capped
<1>1. IsFiniteSet(Ongoing') /\ Cardinality(Ongoing') <= Cardinality(Ongoing)
  BY OngoingFinite, FS_Subset
<1>2. Cardinality(Ongoing) \in Nat /\ Cardinality(Ongoing') \in Nat
  BY <1>1, OngoingFinite, FS_CardinalityType
<1>3. Cardinality(Ongoing) <= MaxConcurrent /\ MaxConcurrent \in Nat
  BY ServingAssumption DEF Capped
<1> QED
  BY <1>1, <1>2, <1>3

LEMMA CappedStep == ASSUME IInv, [ServeNext]_serveVars PROVE Capped'
<1>0. Shape /\ Capped
  BY DEF IInv
<1>1. ASSUME NEW c \in Clients, Dispatch(c) PROVE Capped'
  BY <1>0, <1>1, CappedDispatch
<1>2. ASSUME NEW c \in Clients, \/ Post(c) \/ Handle(c) \/ GenerateStep(c)
                                    \/ StopAtText(c) \/ Raise(c) \/ Leave(c)
      PROVE Capped'
  <2>1. backend' = backend
    BY <1>2 DEF Post, Handle, SendRole, Start, ReadStreamer, ReadDelta, ReadEnd,
       ReadError, Close, GenerateStep, Generate, EndGeneration, StopAtText, Raise, Leave,
       request
  <2>2. Ongoing' \subseteq Ongoing
    BY <1>0, <1>2 DEF Shape, Goto, Ongoing, Post, Handle, SendRole, Start, ReadStreamer,
       ReadDelta, ReadEnd, ReadError, Close, GenerateStep, Generate, EndGeneration,
       StopAtText, Raise, Leave
  <2> QED
    BY <1>0, <2>1, <2>2, CappedShrinks
<1>3. CASE UNCHANGED serveVars
  BY <1>0, <1>3, CappedShrinks DEF serveVars, Ongoing
<1> QED
  BY <1>1, <1>2, <1>3 DEF ServeNext, Quiet
-----------------------------------------------------------------------------
(* What the streamer hands out is what was put, in order.                   *)
LEMMA TailKeeps ==
    ASSUME NEW S, NEW s \in Seq(S), s # <<>>
    PROVE  /\ Tail(s) \in Seq(S)
           /\ \A i \in DOMAIN Tail(s) : \E j \in DOMAIN s : Tail(s)[i] = s[j]
<1>1. Tail(s) \in Seq(S) /\ Len(Tail(s)) = Len(s) - 1
      /\ \A i \in 1 .. Len(Tail(s)) : Tail(s)[i] = s[i + 1]
  BY HeadTailProperties
<1>2. DOMAIN s = 1 .. Len(s) /\ DOMAIN Tail(s) = 1 .. Len(Tail(s)) /\ Len(s) \in Nat
  BY <1>1, LenProperties
<1>3. ASSUME NEW i \in DOMAIN Tail(s) PROVE i + 1 \in DOMAIN s /\ Tail(s)[i] = s[i + 1]
  BY <1>1, <1>2, <1>3
<1> QED
  BY <1>1, <1>3

LEMMA AppendKeeps ==
    ASSUME NEW S, NEW s \in Seq(S), NEW x \in S
    PROVE  /\ Append(s, x) \in Seq(S)
           /\ \A i \in DOMAIN Append(s, x) :
                 Append(s, x)[i] = x \/ (i \in DOMAIN s /\ Append(s, x)[i] = s[i])
<1>1. /\ Append(s, x) \in Seq(S) /\ Len(Append(s, x)) = Len(s) + 1
      /\ \A i \in 1 .. Len(s) : Append(s, x)[i] = s[i]
      /\ Append(s, x)[Len(s) + 1] = x
  BY AppendProperties
<1>2. /\ DOMAIN s = 1 .. Len(s) /\ Len(s) \in Nat
      /\ DOMAIN Append(s, x) = 1 .. Len(Append(s, x))
  BY <1>1, LenProperties
<1> QED
  BY <1>1, <1>2

LEMMA SignalledStep ==
    ASSUME IInv, [ServeNext]_serveVars PROVE Shape' /\ Signalled'
<1>0. Shape /\ Signalled
  BY DEF IInv
<1> USE DEF Places
<1>1. ASSUME NEW c \in Clients, Post(c) \/ Dispatch(c) \/ SendRole(c) PROVE Shape' /\ Signalled'
  BY <1>0, <1>1, SMTT(30) DEF Post, Dispatch, SendRole, Goto, Shape, Signalled, Before, Generating,
     request
<1>2. ASSUME NEW c \in Clients, Start(c) PROVE Shape' /\ Signalled'
  BY <1>0, <1>2 DEF Start, Goto, Shape, Signalled, Before, Generating, request
<1>3. ASSUME NEW c \in Clients, Generate(c) PROVE Shape' /\ Signalled'
  <2>1. PICK tok \in Vocabulary :
          /\ thread' = [thread EXCEPT ![c] = IF Ends(c, Append(text[c], tok))
                                             THEN "ending" ELSE "run"]
          /\ pipe' = IF backend = "hf" THEN [pipe EXCEPT ![c] = Append(@, tok)] ELSE pipe
    BY <1>3 DEF Generate
  <2>2. /\ thread[c] = "run" /\ UNCHANGED <<at, backend>>
        /\ thread' \in [Clients -> {"none", "run", "ending", "over", "dead"}]
        /\ thread'[c] \in {"run", "ending"}
        /\ \A d \in Clients \ {c} : thread'[d] = thread[d]
    BY <1>0, <1>3, <2>1 DEF Generate, request, Shape
  <2>3. CASE backend = "hf"
    <3>1. pipe[c] \in Seq(Vocabulary \cup {END}) /\ tok \in Vocabulary \cup {END} /\ tok # END
      BY <1>0, EndAssumption DEF Shape
    <3>2. \A i \in DOMAIN pipe[c] : pipe[c][i] # END
      BY <1>0, <2>2, <2>3 DEF Signalled
    <3>3. Append(pipe[c], tok) \in Seq(Vocabulary \cup {END})
          /\ \A i \in DOMAIN Append(pipe[c], tok) : Append(pipe[c], tok)[i] # END
      BY <3>1, <3>2, AppendKeeps
    <3>4. /\ pipe'[c] = Append(pipe[c], tok)
          /\ \A d \in Clients \ {c} : pipe'[d] = pipe[d]
      BY <1>0, <2>1, <2>3 DEF Shape
    <3>5. Shape'
      BY <1>0, <2>1, <2>2, <2>3, <3>3 DEF Shape
    <3>6. at[c] \in {"drain", "left"}
      BY <1>0, <2>2, <2>3 DEF Signalled, Generating
    <3>7. Signalled'
      BY <1>0, <2>2, <2>3, <3>3, <3>4, <3>6, SMTT(30) DEF Signalled, Before, Generating
    <3> QED
      BY <3>5, <3>7
  <2>4. CASE backend # "hf"
    BY <1>0, <2>1, <2>2, <2>4 DEF Shape, Signalled
  <2> QED
    BY <2>3, <2>4
<1>4. ASSUME NEW c \in Clients, EndGeneration(c) PROVE Shape' /\ Signalled'
  <2>1. /\ thread[c] = "ending" /\ UNCHANGED <<at, backend>>
        /\ thread' = [thread EXCEPT ![c] = "over"]
    BY <1>4 DEF EndGeneration, request
  <2>2. Append(pipe[c], END) \in Seq(Vocabulary \cup {END})
    BY <1>0, AppendKeeps DEF Shape
  <2>3. pipe' = IF backend = "hf" THEN [pipe EXCEPT ![c] = Append(@, END)] ELSE pipe
    BY <1>4 DEF EndGeneration
  <2>4. Shape'
    BY <1>0, <2>1, <2>2, <2>3 DEF Shape
  <2>5. backend = "hf" => at[c] \in {"drain", "left"}
    BY <1>0, <2>1 DEF Signalled, Generating
  <2>6. \A d \in Clients \ {c} : pipe'[d] = pipe[d] /\ thread'[d] = thread[d]
    BY <1>0, <2>1, <2>3 DEF Shape
  <2>7. thread'[c] = "over"
    BY <1>0, <2>1 DEF Shape
  <2>8. Signalled'
    BY <1>0, <2>1, <2>5, <2>6, <2>7 DEF Signalled, Before, Generating
  <2> QED
    BY <2>4, <2>8
<1>5. ASSUME NEW c \in Clients, Raise(c) \/ StopAtText(c) PROVE Shape' /\ Signalled'
  <2>1. CASE Raise(c)
    BY <1>0, <2>1, ZenonT(60)
    DEF Raise, Shape, Signalled, Before, Generating, request
  <2>2. CASE StopAtText(c)
    BY <1>0, <2>2, ZenonT(60)
    DEF StopAtText, Shape, Signalled, Before, Generating, request
  <2> QED
    BY <1>5, <2>1, <2>2
<1>6. ASSUME NEW c \in Clients, ReadStreamer(c) PROVE Shape' /\ Signalled'
  <2>1. /\ at[c] = "drain" /\ backend = "hf" /\ pipe[c] # <<>>
        /\ pipe' = [pipe EXCEPT ![c] = Tail(@)] /\ UNCHANGED <<thread, backend>>
        /\ \/ Head(pipe[c]) = END /\ at' = [at EXCEPT ![c] = "close"]
           \/ at' = at
    BY <1>6 DEF ReadStreamer, Goto, request
  <2>2. /\ Tail(pipe[c]) \in Seq(Vocabulary \cup {END})
        /\ \A i \in DOMAIN Tail(pipe[c]) : \E j \in DOMAIN pipe[c] : Tail(pipe[c])[i] = pipe[c][j]
    BY <1>0, <2>1, TailKeeps DEF Shape
  <2>3. Head(pipe[c]) = pipe[c][1] /\ 1 \in DOMAIN pipe[c]
    BY <1>0, <2>1, LenProperties, HeadTailProperties, EmptySeq DEF Shape
  <2>4. Head(pipe[c]) = END => thread[c] = "over"
    BY <1>0, <2>1, <2>3 DEF Signalled
  <2>5. Shape'
    BY <1>0, <2>1, <2>2 DEF Shape
  <2>6. \A d \in Clients \ {c} : pipe'[d] = pipe[d] /\ at'[d] = at[d]
    BY <1>0, <2>1 DEF Shape
  <2>7. /\ pipe'[c] = Tail(pipe[c])
        /\ at'[c] = "drain" \/ (at'[c] = "close" /\ thread[c] = "over")
    BY <1>0, <2>1, <2>4 DEF Shape
  <2>8. (\E i \in DOMAIN pipe'[c] : pipe'[c][i] = END) => thread[c] = "over"
    BY <1>0, <2>1, <2>2, <2>7 DEF Signalled
  <2>9. Signalled'
    BY <1>0, <2>1, <2>6, <2>7, <2>8 DEF Signalled, Before, Generating
  <2> QED
    BY <2>5, <2>9
<1>7. ASSUME NEW c \in Clients, ReadDelta(c) \/ ReadEnd(c) \/ ReadError(c) PROVE Shape' /\ Signalled'
  BY <1>0, <1>7 DEF ReadDelta, ReadEnd, ReadError, Goto, Shape, Signalled, request
<1>8. ASSUME NEW c \in Clients, Close(c) PROVE Shape' /\ Signalled'
  BY <1>0, <1>8 DEF Close, Goto, Shape, Signalled, Before, Generating, request
<1>9. ASSUME NEW c \in Clients, Leave(c) PROVE Shape' /\ Signalled'
  BY <1>0, <1>9 DEF Leave, Goto, Shape, Signalled, Before, Generating, request, Ongoing
<1>10. CASE UNCHANGED serveVars
  BY <1>0, <1>10 DEF serveVars, Shape, Signalled, Generating
<1> QED
  BY <1>1, <1>2, <1>3, <1>4, <1>5, <1>6, <1>7, <1>8, <1>9, <1>10
     DEF ServeNext, Handle, GenerateStep, Quiet
-----------------------------------------------------------------------------
(* For any clients, stop sequences, errors and departures: where a request  *)
(* is, what its thread does and what its streamer holds agree.              *)
THEOREM InductiveInvariant == ServeSpec => []IInv
<1>1. IInv /\ [ServeNext]_serveVars => IInv'
  BY CappedStep, SignalledStep DEF IInv
<1> QED
  BY InitInv, <1>1, PTL DEF ServeSpec

(* The threads of clients that have not left are never more than the cap    *)
(* that build_app puts on concurrent requests.                              *)
THEOREM OneGeneration == ServeSpec => []OneGenerationPerStayer
<1>1. IInv => OneGenerationPerStayer
  <2> SUFFICES ASSUME IInv, backend = "hf"
               PROVE  Cardinality(Generating \ Left) <= MaxConcurrent
    BY DEF OneGenerationPerStayer
  <2>1. Generating \ Left \subseteq Ongoing
    BY DEF IInv, Signalled, Generating, Left, Ongoing
  <2>2. /\ IsFiniteSet(Generating \ Left)
        /\ Cardinality(Generating \ Left) <= Cardinality(Ongoing)
    BY <2>1, OngoingFinite, FS_Subset
  <2>3. Cardinality(Ongoing) \in Nat /\ Cardinality(Generating \ Left) \in Nat
    BY <2>2, OngoingFinite, FS_CardinalityType
  <2>4. Cardinality(Ongoing) <= MaxConcurrent /\ MaxConcurrent \in Nat
    BY ServingAssumption DEF IInv, Capped
  <2> QED
    BY <2>2, <2>3, <2>4
<1> QED
  BY InductiveInvariant, <1>1, PTL
-----------------------------------------------------------------------------
(***************************************************************************)
(* And why an answer is the text that was generated (serve/engine.py,      *)
(* serve/deployment.py): what a reader has taken and what the streamer     *)
(* still holds are one text cut in two, the stop signal comes behind its   *)
(* last token, and the thread stops at the first token it may stop at.     *)
(***************************************************************************)
(* The generation for c stops with the first token it may stop at. *)
TextEnds(c) ==
    /\ \A n \in 1 .. Len(text[c]) :
          Ends(c, SubSeq(text[c], 1, n)) => n = Len(text[c]) /\ thread[c] # "run"
    /\ backend = "hf" /\ thread[c] \in {"ending", "over"} =>
          text[c] # <<>> /\ Ends(c, text[c])

(* The client, or its answer, has got the first g tokens; the others wait,  *)
(* with the Hugging Face backend in the streamer.                           *)
Given(c, g) == IF stream[c] THEN sent[c] = <<"role">> \o Visible(SubSeq(text[c], 1, g))
                            ELSE body[c] = Visible(SubSeq(text[c], 1, g))
Signal(c) == IF thread[c] = "over" THEN <<END>> ELSE <<>>
Waiting(c, g) == IF backend = "hf" THEN pipe[c] = SubSeq(text[c], g + 1, Len(text[c])) \o Signal(c)
                                   ELSE seen[c] = g

NotStarted(c) ==
    /\ thread[c] = "none" /\ text[c] = <<>> /\ pipe[c] = <<>> /\ seen[c] = 0 /\ body[c] = <<>>
    /\ sent[c] = IF stream[c] /\ at[c] = "start" THEN <<"role">> ELSE <<>>
AllGiven(c) == \E g \in 0 .. Len(text[c]) :
    /\ Given(c, g)
    /\ \/ thread[c] = "over" /\ g = Len(text[c])
       \/ thread[c] = "dead" /\ stream[c]
Whole(c) ==
    \/ /\ thread[c] = "over" /\ sent[c] = Frame(c, Visible(text[c]))
    \/ /\ thread[c] = "dead" /\ stream[c]
       /\ \E n \in 0 .. Len(text[c]) : sent[c] = Frame(c, Visible(SubSeq(text[c], 1, n)))

Progress(c) ==
    /\ stops[c] \subseteq StopStrings /\ text[c] \in Seq(Vocabulary)
    /\ TextEnds(c)
    /\ at[c] \in Before => NotStarted(c) /\ (at[c] = "role" => stream[c])
    /\ at[c] = "drain" => \E g \in 0 .. Len(text[c]) : Given(c, g) /\ Waiting(c, g)
    /\ at[c] = "close" => AllGiven(c)
    /\ at[c] = "answered" => Whole(c)
AllProgress == \A c \in Clients : Progress(c)
-----------------------------------------------------------------------------
(* Stretches of a sequence, and what is visible of them.                    *)
LEMMA Stretch ==
    ASSUME NEW S, NEW t \in Seq(S), NEW m \in 1 .. Len(t) + 1, NEW n \in m - 1 .. Len(t)
    PROVE  /\ SubSeq(t, m, n) \in Seq(S) /\ Len(SubSeq(t, m, n)) = n - m + 1
           /\ \A i \in 1 .. n - m + 1 : SubSeq(t, m, n)[i] = t[m + i - 1]
<1>1. Len(t) \in Nat /\ m \in Nat /\ n \in Nat /\ m <= n + 1 /\ n <= Len(t) /\ m >= 1
  BY LenProperties
<1>2. \A i \in m .. n : t[i] \in S
  BY <1>1, ElementOfSeq
<1>3. /\ SubSeq(t, m, n) \in Seq(S)
      /\ Len(SubSeq(t, m, n)) = IF m <= n THEN n - m + 1 ELSE 0
      /\ \A i \in 1 .. n - m + 1 : SubSeq(t, m, n)[i] = t[m + i - 1]
  BY <1>1, <1>2, SubSeqProperties
<1> QED
  BY <1>1, <1>3, SMTT(30)

LEMMA VisibleStretch ==
    ASSUME NEW t \in Seq(Vocabulary), NEW m \in 1 .. Len(t) + 1, NEW n \in m - 1 .. Len(t)
    PROVE  Visible(SubSeq(t, m, n)) = IF m <= n /\ t[n] = Eos THEN SubSeq(t, m, n - 1)
                                                            ELSE SubSeq(t, m, n)
<1> DEFINE s == SubSeq(t, m, n)
<1>1. Len(t) \in Nat /\ m \in Nat /\ n \in Nat /\ m <= n + 1 /\ n <= Len(t) /\ m >= 1
  BY LenProperties
<1>2. /\ s \in Seq(Vocabulary) /\ Len(s) = n - m + 1
      /\ \A i \in 1 .. n - m + 1 : s[i] = t[m + i - 1]
  BY Stretch
<1>3. s # <<>> <=> m <= n
  BY <1>1, <1>2, EmptySeq
<1>4. CASE ~(m <= n)
  BY <1>3, <1>4 DEF Visible
<1>5. CASE m <= n
  <2>1. Last(s) = t[n]
    <3>1. n - m + 1 \in 1 .. n - m + 1 /\ m + (n - m + 1) - 1 = n
      BY <1>1, <1>5
    <3>2. s[n - m + 1] = t[n]
      BY <1>2, <3>1
    <3> QED
      BY <1>2, <3>2 DEF Last
  <2>2. Front(s) = SubSeq(t, m, n - 1)
    <3>1. Front(s) = SubSeq(s, 1, n - m)
      BY <1>1, <1>2 DEF Front
    <3>2. /\ 1 \in 1 .. Len(s) + 1 /\ n - m \in 1 - 1 .. Len(s)
          /\ n - 1 \in m - 1 .. Len(t) /\ (n - m) - 1 + 1 = n - m /\ (n - 1) - m + 1 = n - m
          /\ n - m \in Nat
      BY <1>1, <1>2, <1>5
    <3> HIDE DEF s
    <3>3. /\ SubSeq(s, 1, n - m) \in Seq(Vocabulary) /\ Len(SubSeq(s, 1, n - m)) = n - m
          /\ \A i \in 1 .. n - m : SubSeq(s, 1, n - m)[i] = s[1 + i - 1]
      BY <1>2, <3>2, Stretch
    <3>4. /\ SubSeq(t, m, n - 1) \in Seq(Vocabulary) /\ Len(SubSeq(t, m, n - 1)) = n - m
          /\ \A i \in 1 .. n - m : SubSeq(t, m, n - 1)[i] = t[m + i - 1]
      BY <1>2, <3>2, Stretch
    <3>5. \A i \in 1 .. n - m : SubSeq(s, 1, n - m)[i] = SubSeq(t, m, n - 1)[i]
      <4> TAKE i \in 1 .. n - m
      <4>1. i \in 1 .. n - m + 1 /\ 1 + i - 1 = i
        BY <3>2
      <4> QED
        BY <1>2, <3>3, <3>4, <4>1
    <3>6. SubSeq(s, 1, n - m) = SubSeq(t, m, n - 1)
      BY <3>3, <3>4, <3>5, SeqEqual
    <3> QED
      BY <3>1, <3>6
  <2> QED
    BY <1>3, <1>5, <2>1, <2>2 DEF Visible
<1> QED
  BY <1>4, <1>5

(* Before the end of the sequence nothing is invisible, so the visible      *)
(* parts of two stretches are those of the two together.                    *)
LEMMA VisibleTogether ==
    ASSUME NEW t \in Seq(Vocabulary), NEW g \in 0 .. Len(t), NEW h \in g + 1 .. Len(t),
           \A n \in 1 .. Len(t) - 1 : t[n] # Eos
    PROVE  /\ Visible(SubSeq(t, 1, g)) \in Seq(Vocabulary)
           /\ Visible(SubSeq(t, g + 1, h)) \in Seq(Vocabulary)
           /\ Visible(SubSeq(t, 1, g)) \o Visible(SubSeq(t, g + 1, h))
                = Visible(SubSeq(t, 1, h))
<1>1. /\ Len(t) \in Nat /\ g \in Nat /\ h \in Nat /\ g < h /\ h <= Len(t)
  BY LenProperties
<1>2. /\ 1 \in 1 .. Len(t) + 1 /\ g \in 1 - 1 .. Len(t) /\ g + 1 \in 1 .. Len(t) + 1
      /\ h \in (g + 1) - 1 .. Len(t) /\ h \in 1 - 1 .. Len(t) /\ h - 1 \in (g + 1) - 1 .. Len(t)
      /\ h \in g .. Len(t) /\ h - 1 \in g .. Len(t)
  BY <1>1
<1>3. Visible(SubSeq(t, 1, g)) = SubSeq(t, 1, g)
  <2>1. 1 <= g => t[g] # Eos
    BY <1>1
  <2> QED
    BY <1>2, <2>1, VisibleStretch
<1>4. Visible(SubSeq(t, g + 1, h)) = IF t[h] = Eos THEN SubSeq(t, g + 1, h - 1)
                                                 ELSE SubSeq(t, g + 1, h)
  BY <1>1, <1>2, VisibleStretch
<1>5. Visible(SubSeq(t, 1, h)) = IF t[h] = Eos THEN SubSeq(t, 1, h - 1) ELSE SubSeq(t, 1, h)
  BY <1>1, <1>2, VisibleStretch
<1>6. /\ SubSeq(t, 1, g) \in Seq(Vocabulary) /\ SubSeq(t, g + 1, h) \in Seq(Vocabulary)
      /\ SubSeq(t, g + 1, h - 1) \in Seq(Vocabulary)
  BY <1>2, Stretch
<1>7. /\ SubSeq(t, 1, g) \o SubSeq(t, g + 1, h) = SubSeq(t, 1, h)
      /\ SubSeq(t, 1, g) \o SubSeq(t, g + 1, h - 1) = SubSeq(t, 1, h - 1)
  BY <1>2, ConcatAdjacentSubSeq
<1> QED
  BY <1>3, <1>4, <1>5, <1>6, <1>7

(* What was said of the tokens so far holds of them when one is appended.   *)
LEMMA Appended ==
    ASSUME NEW S, NEW t \in Seq(S), NEW x \in S
    PROVE  /\ Append(t, x) \in Seq(S) /\ Len(Append(t, x)) = Len(t) + 1
           /\ \A n \in 0 .. Len(t) : SubSeq(Append(t, x), 1, n) = SubSeq(t, 1, n)
           /\ \A g \in 0 .. Len(t) : SubSeq(Append(t, x), g + 1, Len(t) + 1)
                                       = Append(SubSeq(t, g + 1, Len(t)), x)
<1> DEFINE u == Append(t, x)
           k == Len(t)
<1>1. /\ u \in Seq(S) /\ Len(u) = k + 1 /\ k \in Nat
      /\ (\A i \in 1 .. k : u[i] = t[i]) /\ u[k + 1] = x
  BY AppendProperties, LenProperties
<1> HIDE DEF u
<1>2. ASSUME NEW m \in 1 .. k + 1, NEW n \in m - 1 .. k
      PROVE  SubSeq(u, m, n) = SubSeq(t, m, n)
  <2>1. n \in m - 1 .. Len(u) /\ m \in 1 .. Len(u) + 1 /\ n - m + 1 \in Nat
    BY <1>1
  <2>2. /\ SubSeq(u, m, n) \in Seq(S) /\ Len(SubSeq(u, m, n)) = n - m + 1
        /\ \A i \in 1 .. n - m + 1 : SubSeq(u, m, n)[i] = u[m + i - 1]
    BY <1>1, <2>1, Stretch
  <2>3. /\ SubSeq(t, m, n) \in Seq(S) /\ Len(SubSeq(t, m, n)) = n - m + 1
        /\ \A i \in 1 .. n - m + 1 : SubSeq(t, m, n)[i] = t[m + i - 1]
    BY Stretch
  <2>4. \A i \in 1 .. n - m + 1 : u[m + i - 1] = t[m + i - 1]
    <3> TAKE i \in 1 .. n - m + 1
    <3>1. m + i - 1 \in 1 .. k
      BY <1>1
    <3> QED
      BY <1>1, <3>1
  <2> QED
    BY <2>2, <2>3, <2>4, SeqEqual
<1>3. \A n \in 0 .. k : SubSeq(u, 1, n) = SubSeq(t, 1, n)
  BY <1>1, <1>2
<1>4. ASSUME NEW g \in 0 .. k
      PROVE  SubSeq(u, g + 1, k + 1) = Append(SubSeq(t, g + 1, k), x)
  <2>1. g + 1 \in 1 .. Len(u) /\ k + 1 \in g + 1 .. Len(u) /\ (k + 1) - 1 = k
        /\ g + 1 \in 1 .. k + 1 /\ k \in (g + 1) - 1 .. k
    BY <1>1
  <2>2. SubSeq(u, g + 1, k + 1) = SubSeq(u, g + 1, k) \o <<x>>
    BY <1>1, <2>1, SubSeqRecursiveSecond
  <2>3. SubSeq(u, g + 1, k) = SubSeq(t, g + 1, k)
    BY <1>2, <2>1
  <2>4. SubSeq(t, g + 1, k) \in Seq(S)
    BY <2>1, Stretch
  <2>5. Append(SubSeq(t, g + 1, k), x) = SubSeq(t, g + 1, k) \o <<x>>
    BY <2>4, AppendIsConcat
  <2> QED
    BY <2>2, <2>3, <2>5
<1> QED
  BY <1>1, <1>3, <1>4 DEF u

(* The stop criteria, said of the text as it will be read.                  *)
LEMMA Reversed ==
    ASSUME NEW S, NEW s \in Seq(S)
    PROVE  /\ Reverse(s) \in Seq(S) /\ Len(Reverse(s)) = Len(s)
           /\ \A i \in 1 .. Len(s) : Reverse(s)[i] = s[(Len(s) - i) + 1]
<1>1. Len(s) \in Nat /\ \A i \in 1 .. Len(s) : s[i] \in S
  BY LenProperties, ElementOfSeq
<1> DEFINE k == Len(s)
           r == [i \in 1 .. k |-> s[(k - i) + 1]]
<1>2. \A i \in 1 .. k : (k - i) + 1 \in 1 .. k
  BY <1>1
<1>3. r \in [1 .. k -> S] /\ \A i \in 1 .. k : r[i] = s[(k - i) + 1]
  BY <1>1, <1>2
<1> HIDE DEF r
<1>4. r \in Seq(S) /\ Len(r) = k
  BY <1>1, <1>3
<1> QED
  BY <1>3, <1>4 DEF Reverse, r

LEMMA SuffixIsStretch ==
    ASSUME NEW S, NEW s \in Seq(S), NEW t \in Seq(S)
    PROVE  IsSuffix(s, t) <=> /\ Len(s) <= Len(t)
                              /\ s = SubSeq(t, (Len(t) - Len(s)) + 1, Len(t))
<1> DEFINE a == Len(s)
           b == Len(t)
           rs == Reverse(s)
           rt == Reverse(t)
<1>1. /\ a \in Nat /\ b \in Nat /\ rs \in Seq(S) /\ rt \in Seq(S)
      /\ Len(rs) = a /\ Len(rt) = b
      /\ \A i \in 1 .. a : rs[i] = s[(a - i) + 1]
      /\ \A i \in 1 .. b : rt[i] = t[(b - i) + 1]
  BY LenProperties, Reversed
<1>2. IsSuffix(s, t) <=> a <= b /\ SubSeq(rs, 1, a) = SubSeq(rt, 1, a)
  BY <1>1 DEF IsSuffix, IsPrefix
<1> HIDE DEF rs, rt
<1>3. SubSeq(rs, 1, a) = rs
  BY <1>1, SubSeqFull
<1> SUFFICES ASSUME a <= b
             PROVE  SubSeq(rt, 1, a) = rs <=> s = SubSeq(t, (b - a) + 1, b)
  BY <1>2, <1>3
<1> DEFINE p == SubSeq(rt, 1, a)
           q == SubSeq(t, (b - a) + 1, b)
<1>4. /\ p \in Seq(S) /\ Len(p) = a /\ \A i \in 1 .. a : p[i] = rt[i]
  <2>1. 1 \in 1 .. Len(rt) + 1 /\ a \in 1 - 1 .. Len(rt) /\ a - 1 + 1 = a
        /\ \A i \in 1 .. a : 1 + i - 1 = i
    BY <1>1
  <2>2. /\ p \in Seq(S) /\ Len(p) = a - 1 + 1
        /\ \A i \in 1 .. a - 1 + 1 : p[i] = rt[1 + i - 1]
    BY <1>1, <2>1, Stretch
  <2> QED
    BY <2>1, <2>2
<1>5. /\ q \in Seq(S) /\ Len(q) = a /\ \A i \in 1 .. a : q[i] = t[(b - a) + i]
  <2>1. (b - a) + 1 \in 1 .. Len(t) + 1 /\ b \in ((b - a) + 1) - 1 .. Len(t)
        /\ b - ((b - a) + 1) + 1 = a
        /\ \A i \in 1 .. a : ((b - a) + 1) + i - 1 = (b - a) + i
    BY <1>1
  <2>2. /\ q \in Seq(S) /\ Len(q) = b - ((b - a) + 1) + 1
        /\ \A i \in 1 .. b - ((b - a) + 1) + 1 : q[i] = t[((b - a) + 1) + i - 1]
    BY <2>1, Stretch
  <2> QED
    BY <2>1, <2>2
<1>6. ASSUME NEW i \in 1 .. a
      PROVE  /\ (a - i) + 1 \in 1 .. a /\ (a - ((a - i) + 1)) + 1 = i
             /\ i \in 1 .. b /\ (b - i) + 1 = (b - a) + ((a - i) + 1)
  BY <1>1
<1> HIDE DEF p, q
<1>7. ASSUME p = rs PROVE s = q
  <2>1. \A i \in 1 .. a : s[i] = q[i]
    <3> TAKE i \in 1 .. a
    <3> DEFINE j == (a - i) + 1
    <3>1. /\ j \in 1 .. a /\ (a - j) + 1 = i /\ j \in 1 .. b
          /\ (b - j) + 1 = (b - a) + ((a - j) + 1)
      BY <1>6
    <3> HIDE DEF j
    <3>2. rs[j] = s[i] /\ p[j] = t[(b - a) + i]
      BY <1>1, <1>4, <3>1
    <3> QED
      BY <1>5, <1>7, <3>2
  <2> QED
    BY <1>5, <2>1, SeqEqual
<1>8. ASSUME s = q PROVE p = rs
  <2>1. \A i \in 1 .. a : p[i] = rs[i]
    <3> TAKE i \in 1 .. a
    <3>1. /\ (a - i) + 1 \in 1 .. a /\ i \in 1 .. b /\ (b - i) + 1 = (b - a) + ((a - i) + 1)
      BY <1>6
    <3>2. p[i] = t[(b - a) + ((a - i) + 1)] /\ rs[i] = s[(a - i) + 1]
      BY <1>1, <1>4, <3>1
    <3>3. q[(a - i) + 1] = t[(b - a) + ((a - i) + 1)]
      BY <1>5, <3>1
    <3> QED
      BY <1>8, <3>2, <3>3
  <2> QED
    BY <1>1, <1>4, <2>1, SeqEqual
<1> QED
  BY <1>7, <1>8 DEF p, q

LEMMA EndsWhereWanted ==
    ASSUME NEW c \in Clients, stops[c] \subseteq StopStrings,
           NEW t \in Seq(Vocabulary), NEW n \in 1 .. Len(t)
    PROVE  Ends(c, SubSeq(t, 1, n)) <=>
             \/ n = MaxNew \/ t[n] = Eos
             \/ /\ backend = "hf"
                /\ \E s \in StopIds(c) : \E k \in 1 .. n : SubSeq(t, k, n) = s
<1> DEFINE u == SubSeq(t, 1, n)
<1>1. /\ Len(t) \in Nat /\ n \in Nat /\ 1 <= n /\ n <= Len(t)
      /\ 1 \in 1 .. Len(t) + 1 /\ n \in 1 - 1 .. Len(t) /\ n - 1 + 1 = n
      /\ \A i \in 1 .. n : 1 + i - 1 = i
  BY LenProperties
<1>2. u \in Seq(Vocabulary) /\ Len(u) = n /\ \A i \in 1 .. n : u[i] = t[i]
  <2>1. /\ u \in Seq(Vocabulary) /\ Len(u) = n - 1 + 1
        /\ \A i \in 1 .. n - 1 + 1 : u[i] = t[1 + i - 1]
    BY <1>1, Stretch
  <2> QED
    BY <1>1, <2>1
<1>3. Last(u) = t[n]
  BY <1>1, <1>2 DEF Last
<1>4. \A k \in 1 .. n : SubSeq(u, k, n) = SubSeq(t, k, n)
  <2> TAKE k \in 1 .. n
  <2>1. /\ k \in 1 .. Len(u) + 1 /\ n \in k - 1 .. Len(u) /\ k \in 1 .. Len(t) + 1
        /\ n \in k - 1 .. Len(t)
    BY <1>1, <1>2
  <2> HIDE DEF u
  <2>2. /\ SubSeq(u, k, n) \in Seq(Vocabulary) /\ Len(SubSeq(u, k, n)) = n - k + 1
        /\ \A i \in 1 .. n - k + 1 : SubSeq(u, k, n)[i] = u[k + i - 1]
    BY <1>2, <2>1, Stretch
  <2>3. /\ SubSeq(t, k, n) \in Seq(Vocabulary) /\ Len(SubSeq(t, k, n)) = n - k + 1
        /\ \A i \in 1 .. n - k + 1 : SubSeq(t, k, n)[i] = t[k + i - 1]
    BY <2>1, Stretch
  <2>4. \A i \in 1 .. n - k + 1 : u[k + i - 1] = t[k + i - 1]
    <3> TAKE i \in 1 .. n - k + 1
    <3>1. k + i - 1 \in 1 .. n
      BY <1>1
    <3> QED
      BY <1>2, <3>1
  <2> QED
    BY <2>2, <2>3, <2>4, SeqEqual
<1> HIDE DEF u
<1>0. \A s \in StopIds(c) : s \in Seq(Vocabulary) /\ s # <<>>
  BY ServingAssumption DEF StopIds
<1>5. StopsOn(c, u) <=> \E s \in StopIds(c) : \E k \in 1 .. n : SubSeq(t, k, n) = s
  <2>1. ASSUME NEW s \in StopIds(c), IsSuffix(s, u)
        PROVE  \E k \in 1 .. n : SubSeq(t, k, n) = s
    <3>1. /\ s \in Seq(Vocabulary) /\ Len(s) \in Nat \ {0} /\ Len(s) <= n
          /\ s = SubSeq(u, (n - Len(s)) + 1, n)
      BY <1>0, <1>2, <2>1, SuffixIsStretch, EmptySeq
    <3>2. (n - Len(s)) + 1 \in 1 .. n
      BY <1>1, <3>1
    <3> QED
      BY <1>4, <3>1, <3>2
  <2>2. ASSUME NEW s \in StopIds(c), NEW k \in 1 .. n, SubSeq(t, k, n) = s
        PROVE  IsSuffix(s, u)
    <3>1. s \in Seq(Vocabulary) /\ s = SubSeq(u, k, n)
      BY <1>0, <1>4, <2>2
    <3>2. k \in 1 .. Len(t) + 1 /\ n \in k - 1 .. Len(t)
      BY <1>1
    <3>3. Len(s) = n - k + 1
      BY <2>2, <3>2, Stretch
    <3>4. Len(s) <= n /\ (n - Len(s)) + 1 = k
      BY <1>1, <3>3
    <3> QED
      BY <1>2, <3>1, <3>4, SuffixIsStretch
  <2> QED
    BY <2>1, <2>2 DEF StopsOn
<1> QED
  BY <1>2, <1>3, <1>5 DEF Ends, u
-----------------------------------------------------------------------------
(* What happens to the others does not touch a request.                     *)
Untouched(c) ==
    /\ UNCHANGED <<backend, stream[c], stops[c], at[c], thread[c], text[c]>>
    /\ UNCHANGED <<pipe[c], seen[c], body[c], sent[c]>>

LEMMA UntouchedKeeps ==
    ASSUME NEW c \in Clients, Progress(c), Untouched(c) PROVE Progress(c)'
<1>1. TextEnds(c)'
  BY DEF Progress, TextEnds, Untouched, Ends, StopsOn, StopIds
<1>2. \A g : Given(c, g)' = Given(c, g) /\ Waiting(c, g)' = Waiting(c, g)
  BY DEF Untouched, Given, Waiting, Signal
<1>3. AllGiven(c)' = AllGiven(c)
  BY <1>2 DEF Untouched, AllGiven
<1>4. Whole(c)' = Whole(c) /\ NotStarted(c)' = NotStarted(c)
  BY DEF Untouched, Whole, NotStarted, Frame
<1> QED
  BY <1>1, <1>2, <1>3, <1>4 DEF Progress, Untouched

LEMMA NoneAfterTheEnd ==
    ASSUME NEW c \in Clients, Progress(c)
    PROVE  /\ \A n \in 1 .. Len(text[c]) - 1 : text[c][n] # Eos
           /\ thread[c] = "run" => \A n \in 1 .. Len(text[c]) : text[c][n] # Eos
<1>1. /\ stops[c] \subseteq StopStrings /\ text[c] \in Seq(Vocabulary)
      /\ Len(text[c]) \in Nat
  BY LenProperties DEF Progress
<1>2. \A n \in 1 .. Len(text[c]) : text[c][n] = Eos => n = Len(text[c]) /\ thread[c] # "run"
  BY <1>1, EndsWhereWanted DEF Progress, TextEnds
<1> QED
  BY <1>1, <1>2

(* The text grows only while nothing has ended it.                          *)
LEMMA GenerateKeeps ==
    ASSUME Shape, NEW c \in Clients, Progress(c), Generate(c), text \in [Clients -> Seq(Vocabulary)]
    PROVE  Progress(c)'
<1> DEFINE t == text[c]
           k == Len(text[c])
<1>1. PICK tok \in Vocabulary :
        /\ text' = [text EXCEPT ![c] = Append(text[c], tok)]
        /\ thread' = [thread EXCEPT ![c] = IF Ends(c, Append(text[c], tok)) THEN "ending" ELSE "run"]
        /\ pipe' = IF backend = "hf" THEN [pipe EXCEPT ![c] = Append(@, tok)] ELSE pipe
  BY DEF Generate
<1>2. /\ thread[c] = "run"
      /\ UNCHANGED <<backend, stream, stops, at, seen, body, sent>>
  BY DEF Generate, request
<1>3. /\ stops[c] \subseteq StopStrings /\ t \in Seq(Vocabulary) /\ k \in Nat
      /\ \A n \in 1 .. k : ~Ends(c, SubSeq(t, 1, n))
  BY <1>2, LenProperties DEF Progress, TextEnds
<1> DEFINE u == Append(t, tok)
<1>4. /\ u \in Seq(Vocabulary) /\ Len(u) = k + 1 /\ u # <<>>
      /\ \A n \in 0 .. k : SubSeq(u, 1, n) = SubSeq(t, 1, n)
      /\ \A g \in 0 .. k : SubSeq(u, g + 1, k + 1) = Append(SubSeq(t, g + 1, k), tok)
  <2> HIDE DEF t
  <2>1. u \in Seq(Vocabulary) /\ u # <<>> /\ Len(u) = Len(t) + 1
    BY <1>3, AppendProperties
  <2>2. /\ \A n \in 0 .. Len(t) : SubSeq(u, 1, n) = SubSeq(t, 1, n)
        /\ \A g \in 0 .. Len(t) : SubSeq(u, g + 1, Len(t) + 1) = Append(SubSeq(t, g + 1, Len(t)), tok)
    BY <1>3, Appended, Zenon
  <2> QED
    BY <2>1, <2>2 DEF t
<1>5. /\ text'[c] = u /\ thread'[c] = IF Ends(c, u) THEN "ending" ELSE "run"
      /\ backend = "hf" => pipe'[c] = Append(pipe[c], tok)
  BY <1>1 DEF Shape
<1> HIDE DEF u
<1>6. \A s : Ends(c, s)' = Ends(c, s)
  BY <1>2 DEF Ends, StopsOn, StopIds
<1>7. TextEnds(c)'
  <2>1. ASSUME NEW n \in 1 .. k + 1, Ends(c, SubSeq(u, 1, n))
        PROVE  n = k + 1 /\ thread'[c] # "run"
    <3>1. CASE n \in 1 .. k
      <4>1. n \in 0 .. k
        BY <1>3, <3>1
      <4>2. SubSeq(u, 1, n) = SubSeq(t, 1, n)
        BY <1>4, <4>1
      <4>3. ~Ends(c, SubSeq(t, 1, n))
        BY <1>3, <3>1
      <4> QED
        BY <2>1, <4>2, <4>3
    <3>2. CASE n = k + 1
      <4>1. SubSeq(u, 1, k + 1) = u
        BY <1>4, SubSeqFull
      <4>2. Ends(c, u)
        BY <2>1, <3>2, <4>1
      <4> QED
        BY <1>5, <3>2, <4>2
    <3> QED
      BY <1>3, <3>1, <3>2
  <2> QED
    BY <1>4, <1>5, <1>6, <2>1 DEF TextEnds
<1>8. at[c] \notin Before /\ at[c] \notin {"close", "answered"}
  BY <1>2 DEF Progress, NotStarted, AllGiven, Whole
<1>9. ASSUME at[c] = "drain"
      PROVE  \E g \in 0 .. Len(u) : Given(c, g)' /\ Waiting(c, g)'
  <2>1. PICK g \in 0 .. k : Given(c, g) /\ Waiting(c, g)
    BY <1>9 DEF Progress
  <2>2. Given(c, g)'
    BY <1>2, <1>4, <1>5, <2>1 DEF Given
  <2>3. Waiting(c, g)'
    <3>1. CASE backend = "hf"
      <4>1. SubSeq(t, g + 1, k) \in Seq(Vocabulary) /\ SubSeq(u, g + 1, k + 1) \in Seq(Vocabulary)
        <5>1. /\ g + 1 \in 1 .. Len(t) + 1 /\ k \in (g + 1) - 1 .. Len(t)
              /\ g + 1 \in 1 .. Len(u) + 1 /\ k + 1 \in (g + 1) - 1 .. Len(u)
          BY <1>3, <1>4
        <5> QED
          BY <1>3, <1>4, <5>1, Stretch
      <4>2. pipe[c] = SubSeq(t, g + 1, k)
        BY <1>2, <2>1, <3>1, <4>1, ConcatEmptySeq DEF Waiting, Signal
      <4>3. pipe'[c] = SubSeq(u, g + 1, k + 1)
        BY <1>4, <1>5, <2>1, <3>1, <4>2
      <4>4. pipe'[c] = SubSeq(u, g + 1, k + 1) \o <<>>
        BY <4>1, <4>3, ConcatEmptySeq
      <4> QED
        BY <1>2, <1>4, <1>5, <3>1, <4>4 DEF Waiting, Signal
    <3>2. CASE backend # "hf"
      BY <1>2, <2>1, <3>2 DEF Waiting
    <3> QED
      BY <3>1, <3>2
  <2>4. g \in 0 .. Len(u)
    BY <1>3, <1>4
  <2> QED
    BY <2>2, <2>3, <2>4
<1> QED
  BY <1>2, <1>3, <1>4, <1>5, <1>7, <1>8, <1>9 DEF Progress

(* vLLM may stop where no token tells why; what it handed out stays.        *)
LEMMA StopAtTextKeeps ==
    ASSUME Shape, NEW c \in Clients, Progress(c), StopAtText(c) PROVE Progress(c)'
<1>1. /\ thread[c] = "run" /\ thread'[c] = "ending" /\ backend = "vllm"
      /\ UNCHANGED <<backend, stream, stops, at, text, pipe, seen, body, sent>>
  BY DEF StopAtText, request, Shape
<1>2. at[c] \notin Before /\ at[c] \notin {"close", "answered"}
  BY <1>1 DEF Progress, NotStarted, AllGiven, Whole
<1>3. TextEnds(c)'
  BY <1>1 DEF Progress, TextEnds, Ends, StopsOn, StopIds
<1>4. \A g : (Given(c, g) => Given(c, g)') /\ (Waiting(c, g) => Waiting(c, g)')
  BY <1>1 DEF Given, Waiting
<1> QED
  BY <1>1, <1>2, <1>3, <1>4 DEF Progress

LEMMA EndGenerationKeeps ==
    ASSUME Shape, NEW c \in Clients, Progress(c), EndGeneration(c) PROVE Progress(c)'
<1>1. /\ thread[c] = "ending" /\ thread'[c] = "over"
      /\ pipe' = IF backend = "hf" THEN [pipe EXCEPT ![c] = Append(@, END)] ELSE pipe
      /\ UNCHANGED <<backend, stream, stops, at, text, seen, body, sent>>
  BY DEF EndGeneration, request, Shape
<1>2. at[c] \notin Before /\ at[c] \notin {"close", "answered"}
  BY <1>1 DEF Progress, NotStarted, AllGiven, Whole
<1>3. TextEnds(c)'
  BY <1>1 DEF Progress, TextEnds, Ends, StopsOn, StopIds
<1>4. ASSUME at[c] = "drain", NEW g \in 0 .. Len(text[c]), Given(c, g), Waiting(c, g)
      PROVE  Given(c, g)' /\ Waiting(c, g)'
  <2>1. Given(c, g)'
    BY <1>1, <1>4 DEF Given
  <2>2. CASE backend = "hf"
    <3> DEFINE rest == SubSeq(text[c], g + 1, Len(text[c]))
    <3>1. rest \in Seq(Vocabulary \cup {END})
      <4>1. text[c] \in Seq(Vocabulary) /\ Len(text[c]) \in Nat
        BY LenProperties DEF Progress
      <4>2. g + 1 \in 1 .. Len(text[c]) + 1 /\ Len(text[c]) \in (g + 1) - 1 .. Len(text[c])
        BY <4>1
      <4>3. rest \in Seq(Vocabulary)
        BY <4>1, <4>2, Stretch
      <4> QED
        BY <4>3, SeqMonotonic
    <3>2. pipe[c] = rest
      BY <1>1, <1>4, <2>2, <3>1, ConcatEmptySeq DEF Waiting, Signal
    <3>3. pipe'[c] = Append(rest, END)
      BY <1>1, <2>2, <3>2 DEF Shape
    <3>4. Append(rest, END) = rest \o <<END>>
      BY <3>1, AppendIsConcat, ZenonT(60)
    <3> QED
      BY <1>1, <2>1, <2>2, <3>3, <3>4 DEF Waiting, Signal
  <2>3. CASE backend # "hf"
    BY <1>1, <1>4, <2>1, <2>3 DEF Waiting
  <2> QED
    BY <2>2, <2>3
<1> QED
  BY <1>1, <1>2, <1>3, <1>4 DEF Progress

(* Reading hands over the next stretch, and what waits is the rest.         *)
LEMMA DeliverGives ==
    ASSUME NEW c \in Clients, Progress(c),
           NEW g \in 0 .. Len(text[c]), NEW h \in g + 1 .. Len(text[c]), Given(c, g),
           Deliver(c, SubSeq(text[c], g + 1, h)), UNCHANGED <<stream, text>>,
           body \in [Clients -> Seq(Vocabulary)], DOMAIN sent = Clients
    PROVE  Given(c, h)' /\ body' \in [Clients -> Seq(Vocabulary)] /\ DOMAIN sent' = Clients
<1> DEFINE t == text[c]
           V == Visible(SubSeq(t, 1, g))
           W == Visible(SubSeq(t, g + 1, h))
<1>1. V \in Seq(Vocabulary) /\ W \in Seq(Vocabulary) /\ V \o W = Visible(SubSeq(t, 1, h))
  BY NoneAfterTheEnd, VisibleTogether DEF Progress
<1> HIDE DEF V, W
<1>2. CASE stream[c]
  <2>1. sent[c] = <<"role">> \o V /\ sent' = [sent EXCEPT ![c] = @ \o W] /\ body' = body
    BY <1>2 DEF Given, Deliver, V, W
  <2>2. (<<"role">> \o V) \o W = <<"role">> \o (V \o W)
    <3> DEFINE S == Vocabulary \cup {"role"}
               r == <<"role">>
    <3>1. r \in Seq(S)
      OBVIOUS
    <3>2. V \in Seq(S) /\ W \in Seq(S)
      BY <1>1, SeqMonotonic
    <3> HIDE DEF r, S
    <3>3. (r \o V) \o W = r \o (V \o W)
      <4>1. \A s, u, v \in Seq(S) : (s \o u) \o v = s \o (u \o v)
        BY ConcatAssociative, SMTT(30)
      <4> QED
        BY <3>1, <3>2, <4>1, Zenon
    <3> QED
      BY <3>3 DEF r
  <2>3. sent'[c] = <<"role">> \o Visible(SubSeq(t, 1, h))
    BY <1>1, <2>1, <2>2
  <2> QED
    BY <1>2, <2>1, <2>3 DEF Given
<1>3. CASE ~stream[c]
  <2>1. body[c] = V /\ body' = [body EXCEPT ![c] = @ \o W] /\ sent' = sent
    BY <1>3 DEF Given, Deliver, V, W
  <2>2. body'[c] = Visible(SubSeq(t, 1, h)) /\ body' \in [Clients -> Seq(Vocabulary)]
    BY <1>1, <2>1, ConcatProperties
  <2> QED
    BY <1>3, <2>1, <2>2 DEF Given
<1> QED
  BY <1>2, <1>3

Types == /\ text \in [Clients -> Seq(Vocabulary)] /\ body \in [Clients -> Seq(Vocabulary)]
         /\ DOMAIN sent = Clients /\ DOMAIN seen = Clients

LEMMA ReadStreamerKeeps ==
    ASSUME Shape, Types, NEW c \in Clients, Progress(c), ReadStreamer(c)
    PROVE  Progress(c)' /\ Types'
<1> DEFINE t == text[c]
           k == Len(text[c])
<1>1. /\ at[c] = "drain" /\ backend = "hf" /\ pipe[c] # <<>> /\ pipe'[c] = Tail(pipe[c])
      /\ UNCHANGED <<backend, stream, stops, thread, text, seen>>
  BY DEF ReadStreamer, request, Shape
<1>2. t \in Seq(Vocabulary) /\ k \in Nat /\ stops[c] \subseteq StopStrings
  BY LenProperties DEF Progress
<1>3. PICK g \in 0 .. k :
        Given(c, g) /\ pipe[c] = SubSeq(t, g + 1, k) \o Signal(c)
  BY <1>1 DEF Progress, Waiting
<1>4. TextEnds(c)'
  BY <1>1 DEF Progress, TextEnds, Ends, StopsOn, StopIds
<1>5. CASE g = k
  <2>1. SubSeq(t, g + 1, k) = <<>>
    BY <1>2, <1>5, SubSeqEmpty
  <2>2. pipe[c] = Signal(c)
    <3>1. Signal(c) \in Seq({END})
      <4>1. <<END>> \in Seq({END}) /\ <<>> \in Seq({END})
        OBVIOUS
      <4> QED
        BY <4>1, Zenon DEF Signal
    <3> QED
      BY <1>3, <2>1, <3>1, ConcatEmptySeq
  <2>3. thread[c] = "over" /\ pipe[c] = <<END>>
    BY <1>1, <2>2 DEF Signal
  <2>4. at' = [at EXCEPT ![c] = "close"] /\ UNCHANGED <<body, sent>>
    BY <2>3 DEF ReadStreamer, Goto
  <2>5. AllGiven(c)'
    BY <1>1, <1>3, <1>5, <2>3, <2>4 DEF AllGiven, Given
  <2>6. at'[c] = "close"
    BY <2>4 DEF Shape
  <2> QED
    BY <1>1, <1>2, <1>4, <2>4, <2>5, <2>6 DEF Progress, Types, Before
<1>6. CASE g < k
  <2> DEFINE rest == SubSeq(t, g + 1, k)
             S == Vocabulary \cup {END}
             z == Signal(c)
  <2>1. /\ g + 1 \in 1 .. Len(t) + 1 /\ k \in (g + 1) - 1 .. Len(t) /\ g + 1 \in 1 .. Len(t)
        /\ k \in g + 1 .. Len(t) /\ g + 2 \in 1 .. Len(t) + 1 /\ k \in (g + 2) - 1 .. Len(t)
        /\ g + 1 \in g + 1 .. k /\ (g + 1) + 1 = g + 2
        /\ g + 1 \in (g + 1) - 1 .. Len(t) /\ k \in g + 1 .. Len(t)
    BY <1>2, <1>6
  <2>2. rest = <<t[g + 1]>> \o SubSeq(t, g + 2, k)
    BY <1>2, <2>1, SubSeqRecursiveFirst
  <2>3. t[g + 1] \in Vocabulary /\ SubSeq(t, g + 2, k) \in Seq(Vocabulary)
    BY <1>2, <2>1, Stretch, ElementOfSeq
  <2>4. t[g + 1] \in S /\ SubSeq(t, g + 2, k) \in Seq(S) /\ z \in Seq(S)
    <3>1. SubSeq(t, g + 2, k) \in Seq(S)
      BY <2>3, SeqMonotonic
    <3>2. <<END>> \in Seq(S) /\ <<>> \in Seq(S)
      OBVIOUS
    <3> HIDE DEF S
    <3>3. z \in Seq(S)
      BY <3>2 DEF Signal
    <3> QED
      BY <2>3, <3>1, <3>3 DEF S
  <2> DEFINE x == t[g + 1]
             more == SubSeq(t, g + 2, k)
  <2>5. pipe[c] = (<<x>> \o more) \o z /\ x \in S /\ more \in Seq(S) /\ z \in Seq(S)
    BY <1>3, <2>2, <2>4
  <2> HIDE DEF x, more, z, S
  <2>6. Head(pipe[c]) = x /\ Tail(pipe[c]) = more \o z
    <3>1. <<x>> \in Seq(S)
      BY <2>5
    <3>2. more \o z \in Seq(S) /\ (<<x>> \o more) \o z = <<x>> \o (more \o z)
      BY <2>5, <3>1, ConcatAssociative, ConcatProperties, SMTT(30)
    <3>3. pipe[c] = <<x>> \o (more \o z)
      BY <2>5, <3>2
    <3> HIDE <2>5
    <3>4. Head(pipe[c]) = x /\ Tail(pipe[c]) = more \o z
      <4> DEFINE y == more \o z
      <4>1. y \in Seq(S) /\ x \in S /\ pipe[c] = <<x>> \o y
        BY <2>5, <3>2, <3>3
      <4> HIDE DEF y
      <4>2. Head(<<x>> \o y) = x /\ Tail(<<x>> \o y) = y
        <5> DEFINE w == <<x>> \o y
        <5>1. /\ w \in Seq(S) /\ Len(w) = 1 + Len(y) /\ Len(y) \in Nat
              /\ w[1] = x /\ \A i \in 1 .. Len(y) : w[i + 1] = y[i]
          <6>1. <<x>> \in Seq(S) /\ Len(<<x>>) = 1 /\ Len(y) \in Nat
            BY <4>1, LenProperties
          <6>2. /\ w \in Seq(S) /\ Len(w) = Len(<<x>>) + Len(y)
                /\ \A i \in 1 .. Len(<<x>>) + Len(y) :
                     w[i] = IF i <= Len(<<x>>) THEN <<x>>[i] ELSE y[i - Len(<<x>>)]
            BY <4>1, <6>1, ConcatProperties
          <6> QED
            BY <6>1, <6>2
        <5> HIDE DEF w
        <5>2. w # <<>>
          BY <5>1, EmptySeq
        <5>3. Head(w) = w[1]
          BY <5>1, <5>2
        <5>4. /\ Tail(w) \in Seq(S) /\ Len(Tail(w)) = Len(w) - 1
              /\ \A i \in 1 .. Len(Tail(w)) : Tail(w)[i] = w[i + 1]
          BY <5>1, <5>2, HeadTailProperties
        <5>5. Len(Tail(w)) = Len(y) /\ \A i \in 1 .. Len(Tail(w)) : Tail(w)[i] = y[i]
          BY <5>1, <5>4
        <5>6. Tail(w) = y
          BY <4>1, <5>4, <5>5, SeqEqual
        <5> QED
          BY <5>1, <5>3, <5>6 DEF w
      <4> QED
        BY <4>1, <4>2 DEF y
    <3> QED
      BY <3>4
  <2>7. x # END
    BY <2>3, EndAssumption DEF x
  <2>8. at' = at /\ Deliver(c, <<x>>)
    BY <2>6, <2>7 DEF ReadStreamer
  <2>9. SubSeq(t, g + 1, g + 1) = <<x>>
    <3>1. /\ SubSeq(t, g + 1, g + 1) \in Seq(Vocabulary) /\ Len(SubSeq(t, g + 1, g + 1)) = 1
          /\ SubSeq(t, g + 1, g + 1)[1] = t[g + 1]
      <4>1. /\ SubSeq(t, g + 1, g + 1) \in Seq(Vocabulary)
            /\ Len(SubSeq(t, g + 1, g + 1)) = (g + 1) - (g + 1) + 1
            /\ \A i \in 1 .. (g + 1) - (g + 1) + 1 : SubSeq(t, g + 1, g + 1)[i] = t[(g + 1) + i - 1]
        BY <1>2, <2>1, Stretch
      <4>2. (g + 1) - (g + 1) + 1 = 1 /\ (g + 1) + 1 - 1 = g + 1
        BY <1>2
      <4> QED
        BY <4>1, <4>2
    <3>2. /\ <<x>> \in Seq(Vocabulary) /\ Len(<<x>>) = 1 /\ <<x>>[1] = x
          /\ \A i \in 1 .. 1 : i = 1
      BY <2>3 DEF x
    <3>3. SubSeq(t, g + 1, g + 1)[1] = x
      BY <3>1 DEF x
    <3> QED
      BY <3>1, <3>2, <3>3, SeqEqual
  <2>10. Given(c, g + 1)' /\ body' \in [Clients -> Seq(Vocabulary)] /\ DOMAIN sent' = Clients
    <3>1. g + 1 \in g + 1 .. Len(text[c]) /\ Deliver(c, SubSeq(text[c], g + 1, g + 1))
      BY <2>1, <2>8, <2>9
    <3> QED
      BY <1>1, <1>3, <3>1, DeliverGives DEF Types
  <2>11. Waiting(c, g + 1)'
    BY <1>1, <2>1, <2>6 DEF Waiting, Signal, more, z
  <2>12. g + 1 \in 0 .. Len(text'[c]) /\ Types'
    BY <1>1, <2>1, <2>10, SMTT(30) DEF Types
  <2> QED
    BY <1>1, <1>2, <1>4, <2>8, <2>10, <2>11, <2>12 DEF Progress, Before
<1> QED
  BY <1>2, <1>5, <1>6

LEMMA ReadDeltaKeeps ==
    ASSUME Shape, Types, NEW c \in Clients, Progress(c), ReadDelta(c)
    PROVE  Progress(c)' /\ Types'
<1> DEFINE k == Len(text[c])
<1>1. /\ at[c] = "drain" /\ backend = "vllm" /\ seen[c] < k
      /\ Deliver(c, SubSeq(text[c], seen[c] + 1, k))
      /\ seen' = [seen EXCEPT ![c] = k]
      /\ UNCHANGED <<backend, stream, stops, at, thread, text, pipe>>
  BY DEF ReadDelta, request
<1>2. text[c] \in Seq(Vocabulary) /\ k \in Nat
  BY LenProperties DEF Progress
<1>3. seen[c] \in 0 .. k /\ Given(c, seen[c])
  BY <1>1 DEF Progress, Waiting
<1>4. k \in seen[c] + 1 .. k
  BY <1>1, <1>2, <1>3
<1>5. Given(c, k)' /\ body' \in [Clients -> Seq(Vocabulary)] /\ DOMAIN sent' = Clients
  <2>1. PICK g \in 0 .. Len(text[c]) : g = seen[c]
    BY <1>3
  <2>2. PICK h \in g + 1 .. Len(text[c]) : h = k
    BY <1>4, <2>1
  <2>3. Given(c, g) /\ Deliver(c, SubSeq(text[c], g + 1, h))
    BY <1>1, <1>3, <2>1, <2>2
  <2>4. Given(c, h)' /\ body' \in [Clients -> Seq(Vocabulary)] /\ DOMAIN sent' = Clients
    BY <1>1, <2>3, DeliverGives DEF Types
  <2>5. k' = k
    BY <1>1
  <2> QED
    BY <2>2, <2>4, <2>5
<1>6. Waiting(c, k)' /\ Types'
  BY <1>1, <1>5 DEF Waiting, Types
<1>7. TextEnds(c)'
  BY <1>1 DEF Progress, TextEnds, Ends, StopsOn, StopIds
<1>8. k \in 0 .. k /\ k' = k
  BY <1>1, <1>2
<1> QED
  BY <1>1, <1>5, <1>6, <1>7, <1>8 DEF Progress, Before

LEMMA ReadRestKeeps ==
    ASSUME Shape, NEW c \in Clients, Progress(c), ReadEnd(c) \/ ReadError(c)
    PROVE  Progress(c)'
<1>1. /\ at[c] = "drain" /\ backend = "vllm"
      /\ UNCHANGED <<backend, stream, stops, thread, text, pipe, seen, body, sent>>
      /\ \/ seen[c] = Len(text[c]) /\ thread[c] = "over" /\ at'[c] = "close"
         \/ thread[c] = "dead" /\ at'[c] = IF stream[c] THEN "close" ELSE "failed"
  BY DEF ReadEnd, ReadError, Goto, request, Shape
<1>2. seen[c] \in 0 .. Len(text[c]) /\ Given(c, seen[c])
  BY <1>1 DEF Progress, Waiting
<1>3. at'[c] = "close" => AllGiven(c)'
  BY <1>1, <1>2 DEF AllGiven, Given
<1>4. TextEnds(c)'
  BY <1>1 DEF Progress, TextEnds, Ends, StopsOn, StopIds
<1> QED
  BY <1>1, <1>3, <1>4 DEF Progress, Before

LEMMA CloseKeeps ==
    ASSUME Shape, Types, NEW c \in Clients, Progress(c), Close(c)
    PROVE  Progress(c)' /\ Types'
<1>1. /\ at[c] = "close" /\ at'[c] = "answered"
      /\ sent'[c] = IF stream[c] THEN sent[c] \o Terminal ELSE body[c]
      /\ UNCHANGED <<backend, stream, stops, thread, text, pipe, seen, body>>
      /\ Types'
  BY DEF Close, Goto, request, Shape, Types
<1>2. PICK g \in 0 .. Len(text[c]) :
        /\ Given(c, g)
        /\ \/ thread[c] = "over" /\ g = Len(text[c])
           \/ thread[c] = "dead" /\ stream[c]
  BY <1>1 DEF Progress, AllGiven
<1>3. sent'[c] = Frame(c, Visible(SubSeq(text[c], 1, g)))
  BY <1>1, <1>2 DEF Given, Frame
<1>4. SubSeq(text[c], 1, Len(text[c])) = text[c]
  BY SubSeqFull DEF Progress
<1>5. Whole(c)'
  BY <1>1, <1>2, <1>3, <1>4 DEF Whole, Frame
<1>6. TextEnds(c)'
  BY <1>1 DEF Progress, TextEnds, Ends, StopsOn, StopIds
<1> QED
  BY <1>1, <1>5, <1>6 DEF Progress, Before

LEMMA StartKeeps ==
    ASSUME Shape, NEW c \in Clients, Progress(c), Start(c) PROVE Progress(c)'
<1>1. /\ at[c] = "start" /\ at'[c] = "drain" /\ thread'[c] = "run"
      /\ UNCHANGED <<backend, stream, stops, text, pipe, seen, body, sent>>
  BY DEF Start, Goto, request, Shape
<1>2. /\ text[c] = <<>> /\ pipe[c] = <<>> /\ seen[c] = 0 /\ body[c] = <<>>
      /\ sent[c] = IF stream[c] THEN <<"role">> ELSE <<>>
  BY <1>1 DEF Progress, NotStarted, Before
<1>3. /\ Len(<<>>) = 0 /\ SubSeq(<<>>, 1, 0) = <<>>
      /\ <<>> \o <<>> = <<>> /\ <<"role">> \o <<>> = <<"role">> /\ Visible(<<>>) = <<>>
  BY DEF Visible
<1>4. Given(c, 0)'
  <2>1. text'[c] = <<>>
    BY <1>1, <1>2
  <2>2. Visible(SubSeq(text'[c], 1, 0)) = <<>>
    BY <1>3, <2>1
  <2>3. (Visible(SubSeq(text[c], 1, 0)))' = <<>>
    BY <2>2 DEF Visible
  <2> QED
    BY <1>1, <1>2, <1>3, <2>3 DEF Given
<1>5. Waiting(c, 0)'
  <2>1. SubSeq(<<>>, 0 + 1, 0) = <<>>
    OBVIOUS
  <2> QED
    BY <1>1, <1>2, <1>3, <2>1 DEF Waiting, Signal
<1>6. TextEnds(c)' /\ 0 \in 0 .. Len(text'[c])
  BY <1>1, <1>2, <1>3 DEF TextEnds
<1> QED
  BY <1>1, <1>4, <1>5, <1>6 DEF Progress, Before

LEMMA ArriveKeeps ==
    ASSUME Shape, NEW c \in Clients, Progress(c),
           Post(c) \/ Dispatch(c) \/ SendRole(c), DOMAIN sent = Clients
    PROVE  Progress(c)'
<1>1. /\ at[c] \in Before
      /\ UNCHANGED <<backend, stream, stops, thread, text, pipe, seen, body>>
      /\ \/ at[c] = "out" /\ at'[c] = "queued" /\ sent' = sent
         \/ at[c] = "queued" /\ at'[c] = (IF stream[c] THEN "role" ELSE "start") /\ sent' = sent
         \/ at[c] = "role" /\ at'[c] = "start" /\ sent'[c] = <<"role">>
  BY DEF Post, Dispatch, SendRole, Goto, request, Shape, Before
<1>2. NotStarted(c)' /\ (at'[c] = "role" => stream[c]) /\ at'[c] \in Before
  BY <1>1 DEF Progress, NotStarted, Before
<1>3. TextEnds(c)'
  BY <1>1 DEF Progress, TextEnds, Ends, StopsOn, StopIds
<1> QED
  BY <1>1, <1>2, <1>3 DEF Progress, Before

LEMMA StopKeeps ==
    ASSUME Shape, NEW c \in Clients, Progress(c), Raise(c) \/ Leave(c) PROVE Progress(c)'
<1>1. /\ UNCHANGED <<backend, stream, stops, text, pipe, seen, body, sent>>
      /\ \/ thread[c] = "run" /\ thread'[c] = "dead" /\ at' = at
         \/ at'[c] = "left" /\ (thread'[c] = thread[c] \/ thread'[c] = "none")
  BY DEF Raise, Leave, Goto, request, Shape
<1>2. TextEnds(c)'
  BY <1>1 DEF Progress, TextEnds, Ends, StopsOn, StopIds
<1>3. CASE at'[c] = "left"
  BY <1>1, <1>2, <1>3 DEF Progress, Before
<1>4. CASE thread[c] = "run" /\ thread'[c] = "dead" /\ at' = at
  <2>1. at[c] \notin Before /\ at[c] \notin {"close", "answered"}
    BY <1>4 DEF Progress, NotStarted, AllGiven, Whole
  <2>2. \A g : (Given(c, g) => Given(c, g)') /\ (Waiting(c, g) => Waiting(c, g)')
    BY <1>1, <1>4 DEF Given, Waiting, Signal
  <2> QED
    BY <1>1, <1>2, <1>4, <2>1, <2>2 DEF Progress
<1> QED
  BY <1>1, <1>3, <1>4

AnswerInv == Shape /\ Types /\ AllProgress

LEMMA InitAnswer == ServeInit => AnswerInv
<1> SUFFICES ASSUME ServeInit PROVE AnswerInv
  OBVIOUS
<1>1. Types
  <2>1. <<>> \in Seq(Vocabulary)
    OBVIOUS
  <2> QED
    BY <2>1 DEF ServeInit, Types
<1>2. ASSUME NEW c \in Clients PROVE Progress(c)
  <2>1. /\ at[c] = "out" /\ thread[c] = "none" /\ text[c] = <<>> /\ pipe[c] = <<>>
        /\ seen[c] = 0 /\ body[c] = <<>> /\ sent[c] = <<>>
        /\ stops[c] \subseteq StopStrings
    BY ServingAssumption DEF ServeInit
  <2>2. <<>> \in Seq(Vocabulary) /\ Len(<<>>) = 0
    OBVIOUS
  <2> QED
    BY <2>1, <2>2 DEF Progress, TextEnds, NotStarted, Before
<1> QED
  BY <1>1, <1>2, InitInv DEF IInv, AnswerInv, AllProgress

LEMMA AnswerStep == ASSUME IInv, AnswerInv, [ServeNext]_serveVars PROVE AnswerInv'
<1>0. Shape /\ Types /\ (\A c \in Clients : Progress(c)) /\ Shape'
  BY SignalledStep DEF AnswerInv, AllProgress
<1>1. ASSUME NEW c \in Clients, Progress(c)', \A d \in Clients \ {c} : Untouched(d)
      PROVE  AllProgress'
  BY <1>0, <1>1, UntouchedKeeps DEF AllProgress
<1>2. ASSUME NEW c \in Clients, Post(c) \/ Dispatch(c) \/ SendRole(c) PROVE AllProgress' /\ Types'
  <2>1. Progress(c)'
    BY <1>0, <1>2, ArriveKeeps DEF Types
  <2>2. \A d \in Clients \ {c} : Untouched(d)
    BY <1>0, <1>2 DEF Post, Dispatch, SendRole, Goto, request, Untouched, Shape, Types
  <2>3. Types'
    BY <1>0, <1>2 DEF Post, Dispatch, SendRole, Types
  <2> QED
    BY <1>1, <2>1, <2>2, <2>3
<1>3. ASSUME NEW c \in Clients, Start(c) PROVE AllProgress' /\ Types'
  <2>1. Progress(c)'
    BY <1>0, <1>3, StartKeeps
  <2>2. \A d \in Clients \ {c} : Untouched(d)
    BY <1>0, <1>3 DEF Start, Goto, request, Untouched, Shape
  <2> QED
    BY <1>0, <1>1, <1>3, <2>1, <2>2 DEF Start, Types
<1>4. ASSUME NEW c \in Clients, Generate(c) PROVE AllProgress' /\ Types'
  <2>1. Progress(c)'
    BY <1>0, <1>4, GenerateKeeps DEF Types
  <2>2. PICK tok \in Vocabulary :
          /\ text' = [text EXCEPT ![c] = Append(text[c], tok)]
          /\ thread' = [thread EXCEPT ![c] = IF Ends(c, Append(text[c], tok)) THEN "ending" ELSE "run"]
          /\ pipe' = IF backend = "hf" THEN [pipe EXCEPT ![c] = Append(@, tok)] ELSE pipe
    BY <1>4 DEF Generate
  <2>3. Append(text[c], tok) \in Seq(Vocabulary)
    BY <1>0, AppendProperties DEF Types
  <2>4. \A d \in Clients \ {c} : Untouched(d)
    BY <1>0, <1>4, <2>2 DEF Generate, request, Untouched, Shape, Types
  <2> QED
    BY <1>0, <1>1, <1>4, <2>1, <2>2, <2>3, <2>4 DEF Generate, Types
<1>5. ASSUME NEW c \in Clients, EndGeneration(c) PROVE AllProgress' /\ Types'
  <2>1. Progress(c)'
    BY <1>0, <1>5, EndGenerationKeeps
  <2>2. \A d \in Clients \ {c} : Untouched(d)
    BY <1>0, <1>5 DEF EndGeneration, request, Untouched, Shape
  <2> QED
    BY <1>0, <1>1, <1>5, <2>1, <2>2 DEF EndGeneration, Types
<1>6. ASSUME NEW c \in Clients, StopAtText(c) \/ Raise(c) \/ Leave(c)
      PROVE  AllProgress' /\ Types'
  <2>1. Progress(c)'
    BY <1>0, <1>6, StopAtTextKeeps, StopKeeps
  <2>2. \A d \in Clients \ {c} : Untouched(d)
    BY <1>0, <1>6 DEF StopAtText, Raise, Leave, Goto, request, Untouched, Shape
  <2> QED
    BY <1>0, <1>1, <1>6, <2>1, <2>2 DEF StopAtText, Raise, Leave, Types
<1>7. ASSUME NEW c \in Clients, ReadStreamer(c) \/ ReadDelta(c) PROVE AllProgress' /\ Types'
  <2>1. Progress(c)' /\ Types'
    BY <1>0, <1>7, ReadStreamerKeeps, ReadDeltaKeeps
  <2>2. \A d \in Clients \ {c} : Untouched(d)
    BY <1>0, <1>7 DEF ReadStreamer, ReadDelta, Deliver, Goto, request, Untouched, Shape, Types
  <2> QED
    BY <1>1, <2>1, <2>2
<1>8. ASSUME NEW c \in Clients, ReadEnd(c) \/ ReadError(c) PROVE AllProgress' /\ Types'
  <2>1. Progress(c)'
    BY <1>0, <1>8, ReadRestKeeps
  <2>2. \A d \in Clients \ {c} : Untouched(d)
    BY <1>0, <1>8 DEF ReadEnd, ReadError, Goto, request, Untouched, Shape
  <2> QED
    BY <1>0, <1>1, <1>8, <2>1, <2>2 DEF ReadEnd, ReadError, Types
<1>9. ASSUME NEW c \in Clients, Close(c) PROVE AllProgress' /\ Types'
  <2>1. Progress(c)' /\ Types'
    BY <1>0, <1>9, CloseKeeps
  <2>2. \A d \in Clients \ {c} : Untouched(d)
    BY <1>0, <1>9 DEF Close, Goto, request, Untouched, Shape, Types
  <2> QED
    BY <1>1, <2>1, <2>2
<1>10. CASE UNCHANGED serveVars
  <2>1. \A d \in Clients : Untouched(d)
    BY <1>10 DEF serveVars, Untouched
  <2> QED
    <3>1. AllProgress'
      BY <1>0, <2>1, UntouchedKeeps DEF AllProgress
    <3>2. Types'
      BY <1>0, <1>10 DEF serveVars, Types
    <3> QED
      BY <1>0, <3>1, <3>2 DEF AnswerInv
<1> QED
  BY <1>0, <1>2, <1>3, <1>4, <1>5, <1>6, <1>7, <1>8, <1>9, <1>10
     DEF ServeNext, Handle, GenerateStep, Quiet, AnswerInv

(* An answer is the text that the backend handed out, once and in order,    *)
(* with either backend; and with the Hugging Face one the text ends at the  *)
(* first tokens that are a stop string's encoding, at the end of the        *)
(* sequence or at max_tokens: for any clients, prompts, stop strings, ways  *)
(* to encode them, limits and errors.                                       *)
THEOREM WholeAnswers == ServeSpec => []AnswersWhole
<1>1. AnswerInv => AnswersWhole
  <2> SUFFICES ASSUME AnswerInv, NEW c \in Clients, at[c] = "answered"
               PROVE  \/ /\ thread[c] = "over" /\ sent[c] = Frame(c, Visible(text[c]))
                         /\ backend = "hf" => Wanted(c, text[c])
                      \/ /\ thread[c] = "dead" /\ stream[c]
                         /\ \E n \in 0 .. Len(text[c]) :
                               sent[c] = Frame(c, Visible(SubSeq(text[c], 1, n)))
    BY DEF AnswersWhole
  <2>1. Progress(c) /\ Whole(c)
    BY DEF AnswerInv, AllProgress, Progress
  <2>2. ASSUME thread[c] = "over", backend = "hf" PROVE Wanted(c, text[c])
    <3> DEFINE t == text[c]
               k == Len(text[c])
    <3>1. /\ stops[c] \subseteq StopStrings /\ t \in Seq(Vocabulary) /\ k \in Nat
          /\ t # <<>> /\ Ends(c, t)
          /\ \A n \in 1 .. k : Ends(c, SubSeq(t, 1, n)) => n = k
      BY <2>1, <2>2, LenProperties DEF Progress, TextEnds
    <3>2. k \in 1 .. k /\ SubSeq(t, 1, k) = t
      BY <3>1, EmptySeq, SubSeqFull
    <3>3. \A n \in 1 .. k :
            Ends(c, SubSeq(t, 1, n)) <=>
              \/ n = MaxNew \/ t[n] = Eos
              \/ \E s \in StopIds(c) : \E j \in 1 .. n : SubSeq(t, j, n) = s
      BY <2>2, <3>1, EndsWhereWanted
    <3>4. \/ k = MaxNew \/ t[k] = Eos
          \/ \E s \in StopIds(c) : \E j \in 1 .. k : SubSeq(t, j, k) = s
      BY <3>1, <3>2, <3>3
    <3>5. \A n \in 1 .. k - 1 :
            ~ \/ n = MaxNew \/ t[n] = Eos
              \/ \E s \in StopIds(c) : \E j \in 1 .. n : SubSeq(t, j, n) = s
      <4> TAKE n \in 1 .. k - 1
      <4>1. n \in 1 .. k /\ n # k
        BY <3>1
      <4> QED
        BY <3>1, <3>3, <4>1
    <3> QED
      BY <3>1, <3>4, <3>5 DEF Wanted
  <2> QED
    BY <2>1, <2>2 DEF Whole
<1>2. IInv /\ AnswerInv /\ [ServeNext]_serveVars => AnswerInv'
  BY AnswerStep
<1> QED
  BY InductiveInvariant, InitAnswer, <1>1, <1>2, PTL DEF ServeSpec
-----------------------------------------------------------------------------
(***************************************************************************)
(* No deadlock: the half of AllServed that is about states.  The guards of *)
(* Dispatch and of what a request does itself (Handle); those of           *)
(* GenerateStep are that the thread is Generating.                         *)
(***************************************************************************)
CanDispatch(c) ==
    at[c] = "queued" /\ (backend = "hf" => Cardinality(Ongoing) < MaxConcurrent)

CanRead(c) ==
    \/ backend = "hf" /\ pipe[c] # <<>>
    \/ backend = "vllm" /\ seen[c] < Len(text[c])
    \/ backend = "vllm" /\ seen[c] = Len(text[c]) /\ thread[c] = "over"
    \/ backend = "vllm" /\ thread[c] = "dead"

CanHandle(c) == at[c] \in {"role", "start", "close"} \/ (at[c] = "drain" /\ CanRead(c))

(* Every request that counts against the cap can go on without any other:   *)
(* itself, or the thread it reads from; the one exception is a thread of    *)
(* the Hugging Face backend that has raised.  And what waits outside waits  *)
(* for requests that count, so for one that can go on (serve/engine.py,     *)
(* build_app in serve/app.py).                                              *)
NoneWaitsInVain ==
    /\ \A c \in Ongoing : \/ CanHandle(c) \/ c \in Generating
                          \/ backend = "hf" /\ Stuck(c)
    /\ \A c \in Clients : at[c] = "queued" => CanDispatch(c) \/ Ongoing # {}

(* A request that reads has a generation to read from. *)
Begun == /\ backend \in {"hf", "vllm"}
         /\ \A c \in Clients : at[c] = "drain" => thread[c] # "none"

LEMMA InitBegun == ServeInit => Begun
  BY ServingAssumption DEF ServeInit, Begun

LEMMA BegunStep == ASSUME Shape, Begun, [ServeNext]_serveVars PROVE Begun'
<1>1. ASSUME NEW c \in Clients, Post(c) \/ Dispatch(c) \/ SendRole(c) PROVE Begun'
  BY <1>1 DEF Post, Dispatch, SendRole, Goto, request, Begun, Shape
<1>2. ASSUME NEW c \in Clients, Start(c) PROVE Begun'
  BY <1>2 DEF Start, Goto, request, Begun, Shape
<1>3. ASSUME NEW c \in Clients, Generate(c) PROVE Begun'
  <2>1. PICK to \in {"run", "ending"} : thread' = [thread EXCEPT ![c] = to]
    BY <1>3 DEF Generate
  <2> QED
    BY <1>3, <2>1 DEF Generate, request, Begun, Shape
<1>4. ASSUME NEW c \in Clients, EndGeneration(c) \/ StopAtText(c) \/ Raise(c) PROVE Begun'
  BY <1>4 DEF EndGeneration, StopAtText, Raise, request, Begun, Shape
<1>5. ASSUME NEW c \in Clients, Leave(c) PROVE Begun'
  BY <1>5 DEF Leave, Goto, request, Begun, Shape
<1>6. ASSUME NEW c \in Clients, ReadStreamer(c) \/ ReadDelta(c) PROVE Begun'
  <2>1. /\ at' = at \/ at' = [at EXCEPT ![c] = "close"]
        /\ UNCHANGED <<backend, thread>>
    BY <1>6 DEF ReadStreamer, ReadDelta, Goto, request
  <2> QED
    BY <2>1 DEF Begun, Shape
<1>7. ASSUME NEW c \in Clients, ReadEnd(c) \/ ReadError(c) \/ Close(c) PROVE Begun'
  BY <1>7 DEF ReadEnd, ReadError, Close, Goto, request, Begun, Shape
<1>8. CASE Quiet \/ UNCHANGED serveVars
  BY <1>8 DEF Quiet, serveVars, Begun
<1> QED
  BY <1>1, <1>2, <1>3, <1>4, <1>5, <1>6, <1>7, <1>8 DEF ServeNext, Handle, GenerateStep

(* When the thread is over, the stop signal is still to be read. *)
LEMMA SignalWaits ==
    ASSUME Shape, NEW c \in Clients, Progress(c), backend = "hf", at[c] = "drain",
           thread[c] = "over"
    PROVE  pipe[c] # <<>>
<1> DEFINE t == text[c]
           k == Len(text[c])
<1>1. t \in Seq(Vocabulary) /\ k \in Nat
  BY LenProperties DEF Progress
<1>2. PICK g \in 0 .. k : pipe[c] = SubSeq(t, g + 1, k) \o <<END>>
  BY DEF Progress, Waiting, Signal
<1>3. SubSeq(t, g + 1, k) \in Seq(Vocabulary)
  BY <1>1, Stretch
<1> DEFINE rest == SubSeq(t, g + 1, k)
<1>4. rest \in Seq(Vocabulary \cup {END}) /\ <<END>> \in Seq(Vocabulary \cup {END})
  BY <1>3
<1> HIDE DEF rest
<1>5. Len(rest \o <<END>>) = Len(rest) + 1 /\ Len(rest) \in Nat
  BY <1>4, LenProperties, ConcatProperties
<1>6. Len(pipe[c]) # 0
  BY <1>2, <1>5 DEF rest
<1> QED
  BY <1>6

LEMMA OngoingGoesOn ==
    ASSUME AnswerInv, Begun, NEW c \in Ongoing
    PROVE  CanHandle(c) \/ c \in Generating \/ (backend = "hf" /\ Stuck(c))
<1>0. c \in Clients /\ at[c] \in {"role", "start", "drain", "close"}
  BY DEF Ongoing
<1>1. Shape /\ Progress(c) /\ backend \in {"hf", "vllm"}
  BY <1>0 DEF AnswerInv, AllProgress, Begun
<1>2. CASE at[c] \in {"role", "start", "close"}
  BY <1>2 DEF CanHandle
<1>3. CASE at[c] = "drain"
  <2>1. thread[c] \in {"run", "ending", "over", "dead"}
    BY <1>0, <1>1, <1>3 DEF Shape, Begun
  <2>2. CASE thread[c] \in {"run", "ending"}
    BY <1>0, <2>2 DEF Generating
  <2>3. CASE backend = "hf" /\ thread[c] \in {"over", "dead"}
    BY <1>0, <1>1, <1>3, <2>3, SignalWaits DEF CanHandle, CanRead, Stuck
  <2>4. CASE backend = "vllm" /\ thread[c] \in {"over", "dead"}
    <3>1. seen[c] \in 0 .. Len(text[c]) /\ Len(text[c]) \in Nat
      BY <1>1, <1>3, <2>4, LenProperties DEF Progress, Waiting
    <3>2. seen[c] < Len(text[c]) \/ seen[c] = Len(text[c])
      BY <3>1
    <3> QED
      BY <1>3, <2>4, <3>2 DEF CanHandle, CanRead
  <2> QED
    BY <1>1, <2>1, <2>2, <2>3, <2>4
<1> QED
  BY <1>0, <1>2, <1>3

(* No request waits in vain, for any clients, cap, errors and departures    *)
(* and with either backend: one that was begun can go on by itself or by    *)
(* its thread (unless that is a thread of the Hugging Face backend that     *)
(* raised), and one in the queue can be dispatched or waits for such a one. *)
THEOREM RequestsNeverStick == ServeSpec => []NoneWaitsInVain
<1>1. AnswerInv /\ Begun => NoneWaitsInVain
  <2> SUFFICES ASSUME AnswerInv, Begun PROVE NoneWaitsInVain
    OBVIOUS
  <2>1. ASSUME Ongoing = {} PROVE Cardinality(Ongoing) < MaxConcurrent
    BY <2>1, FS_EmptySet, ServingAssumption
  <2> QED
    BY <2>1, OngoingGoesOn DEF NoneWaitsInVain, CanDispatch
<1>2. IInv /\ AnswerInv /\ [ServeNext]_serveVars => AnswerInv'
  BY AnswerStep
<1>3. IInv /\ Begun /\ [ServeNext]_serveVars => Begun'
  BY BegunStep DEF IInv
<1> QED
  BY InductiveInvariant, InitAnswer, InitBegun, <1>1, <1>2, <1>3, PTL DEF ServeSpec
=============================================================================
