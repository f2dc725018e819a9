------------------------- MODULE InferenceEngineProofs -------------------------
(***************************************************************************)
(* Why a layer reads the whole context of its request and nothing else,    *)
(* and what a speculative loop has fed to the target model.  Between two   *)
(* updates of a forward pass every layer behind the current one holds the  *)
(* context and this pass, every layer from it on the context alone; what   *)
(* an exception leaves in the cache is never looked at, because a request  *)
(* begins with reset().                                                    *)
(***************************************************************************)
EXTENDS InferenceEngine, SequenceTheorems, TLAPS

Row == Nat \X Nat   \* a token as the cache sees it, or Zero

CacheTypes ==
    /\ strategy \in {"static", "turboquant"} /\ seqLen \in Nat
    /\ slots \in [Layers -> [1 .. MaxSeqLen -> Row]]
    /\ window \in [Layers -> Seq(Row)] /\ decoded \in [Layers -> Seq(Row)]
    /\ \E rows : read \in [Layers -> rows]

PassTypes ==
    /\ number \in Nat /\ (phase # "idle" => backend = "hf")
    /\ phase = "forward" => /\ layer \in 1 .. NumLayers + 1
                            /\ context \in Seq(Row)
                            /\ feed \in Seq(Row) /\ feed # <<>>

(* The rows of layer l hold the tokens toks, in turboquant the last of them *)
(* in the window.                                                           *)
InWindow(toks) == IF Len(toks) > ResidualWindow THEN ResidualWindow ELSE Len(toks)
HeldQuantized(l, toks) ==
    decoded[l] \o window[l] = toks /\ Len(window[l]) = InWindow(toks)
HeldStatic(l, toks) ==
    Len(toks) <= MaxSeqLen /\ \A i \in 1 .. Len(toks) : slots[l][i] = toks[i]
Held(l, toks) == IF strategy = "static" THEN HeldStatic(l, toks)
                                        ELSE HeldQuantized(l, toks)

Tracked == phase = "forward" /\ (strategy = "turboquant" \/ request.how = "direct")
LayersTrack ==
    Tracked => /\ strategy = "static" => seqLen = Len(context)
               /\ \A l \in Layers : Held(l, IF l < layer THEN context \o feed ELSE context)

ReadInv == CacheTypes /\ PassTypes /\ LayersTrack /\ ReadsWholeContext
-----------------------------------------------------------------------------
(* Cutting the window: what goes into the decoded rows and what stays.      *)
CutApart(d, w, a, n) ==
    LET g    == w \o a
        kept == SubSeq(g, n + 1, Len(g))
        past == d \o SubSeq(g, 1, n)
    IN  /\ kept \in Seq(Row) /\ Len(kept) = Len(g) - n
        /\ past \in Seq(Row) /\ Len(past) = Len(d) + n
        /\ past \o kept = (d \o w) \o a

LEMMA Cut ==
    ASSUME NEW d \in Seq(Row), NEW w \in Seq(Row), NEW a \in Seq(Row),
           NEW n \in 0 .. Len(w \o a)
    PROVE  CutApart(d, w, a, n)
<1> DEFINE g == w \o a
<1>1. g \in Seq(Row) /\ Len(g) = Len(w) + Len(a) /\ Len(g) \in Nat /\ n \in Nat
      /\ \A i \in 1 .. Len(g) : g[i] \in Row
  BY ConcatProperties, LenProperties, ElementOfSeq
<1>2. (d \o w) \o a = d \o g
  BY ConcatAssociative, SMTT(30)
<1> HIDE DEF g
<1> DEFINE first == SubSeq(g, 1, n)
           kept  == SubSeq(g, n + 1, Len(g))
<1>3. first \in Seq(Row) /\ Len(first) = n
  <2>1. \A i \in 1 .. n : g[i] \in Row
    BY <1>1 DEF g
  <2>2. /\ SubSeq(g, 1, n) \in Seq(Row)
        /\ Len(SubSeq(g, 1, n)) = IF 1 <= n THEN n - 1 + 1 ELSE 0
    BY <1>1, <2>1, SubSeqProperties
  <2> QED
    BY <1>1, <2>2
<1>4. kept \in Seq(Row) /\ Len(kept) = Len(g) - n
  <2>1. \A i \in n + 1 .. Len(g) : g[i] \in Row
    BY <1>1
  <2>2. /\ SubSeq(g, n + 1, Len(g)) \in Seq(Row)
        /\ Len(SubSeq(g, n + 1, Len(g))) = IF n + 1 <= Len(g) THEN Len(g) - (n + 1) + 1 ELSE 0
    BY <1>1, <2>1, SubSeqProperties
  <2>3. n <= Len(g)
    BY DEF g
  <2> QED
    BY <1>1, <2>2, <2>3
<1>5. first \o kept = g
  <2>1. 1 \in 1 .. Len(g) + 1 /\ n \in 1 - 1 .. Len(g) /\ Len(g) \in n .. Len(g)
    BY <1>1 DEF g
  <2>2. first \o kept = SubSeq(g, 1, Len(g))
    BY <1>1, <2>1, ConcatAdjacentSubSeq
  <2> QED
    BY <1>1, <2>2, SubSeqFull
<1> HIDE DEF first, kept
<1>6. (d \o first) \o kept = d \o g
  <2>1. (d \o first) \o kept = d \o (first \o kept)
    BY <1>3, <1>4, ConcatAssociative, SMTT(30)
  <2> QED
    BY <1>5, <2>1
<1>7. d \o first \in Seq(Row) /\ Len(d \o first) = Len(d) + n
  BY <1>3, ConcatProperties
<1> QED
  BY <1>1, <1>2, <1>4, <1>6, <1>7 DEF CutApart, g, first, kept

(* What a layer that holds the tokens toks returns: in turboquant, the last *)
(* of them are exact.                                                       *)
Returned(toks) ==
    [i \in 1 .. Len(toks) |-> IF strategy = "static" \/ i > Len(toks) - ResidualWindow
                              THEN Exact(toks[i]) ELSE Lossy(toks[i])]

LEMMA RowsOf ==
    ASSUME NEW R, NEW n \in Nat, NEW f \in [1 .. n -> R] PROVE f \in Seq(R) /\ Len(f) = n
  OBVIOUS

LEMMA ReturnedInParts ==
    ASSUME NEW past \in Seq(Row), NEW kept \in Seq(Row), strategy = "turboquant",
           Len(kept) = InWindow(past \o kept)
    PROVE  [i \in 1 .. Len(past) |-> Lossy(past[i])]
               \o [i \in 1 .. Len(kept) |-> Exact(kept[i])] = Returned(past \o kept)
<1> DEFINE all == past \o kept
           lossy == [i \in 1 .. Len(past) |-> Lossy(past[i])]
           exact == [i \in 1 .. Len(kept) |-> Exact(kept[i])]
           Read  == {Lossy(t) : t \in Row} \cup {Exact(t) : t \in Row}
<1>1. /\ Len(past) \in Nat /\ Len(kept) \in Nat /\ ResidualWindow \in Nat
      /\ \A i \in 1 .. Len(past) : past[i] \in Row
      /\ \A i \in 1 .. Len(kept) : kept[i] \in Row
  BY LenProperties, ElementOfSeq, CacheAssumption
<1>2. /\ all \in Seq(Row) /\ Len(all) = Len(past) + Len(kept)
      /\ \A i \in 1 .. Len(past) + Len(kept) :
           all[i] = IF i <= Len(past) THEN past[i] ELSE kept[i - Len(past)]
  BY ConcatProperties
<1>3. lossy \in [1 .. Len(past) -> Read] /\ exact \in [1 .. Len(kept) -> Read]
  BY <1>1
<1> HIDE DEF Read
<1>4. /\ lossy \in Seq(Read) /\ Len(lossy) = Len(past)
      /\ exact \in Seq(Read) /\ Len(exact) = Len(kept)
  BY <1>1, <1>3, RowsOf, ZenonT(60)
<1>5. /\ \A i \in 1 .. Len(past) : lossy[i] = Lossy(past[i])
      /\ \A i \in 1 .. Len(kept) : exact[i] = Exact(kept[i])
  OBVIOUS
<1> HIDE DEF lossy, exact, all
<1>6. /\ lossy \o exact \in Seq(Read)
      /\ Len(lossy \o exact) = Len(past) + Len(kept)
      /\ \A i \in 1 .. Len(past) + Len(kept) :
           (lossy \o exact)[i] = IF i <= Len(past) THEN lossy[i] ELSE exact[i - Len(past)]
  <2>1. /\ lossy \o exact \in Seq(Read)
        /\ Len(lossy \o exact) = Len(lossy) + Len(exact)
        /\ \A i \in 1 .. Len(lossy) + Len(exact) :
             (lossy \o exact)[i] = IF i <= Len(lossy) THEN lossy[i]
                                                     ELSE exact[i - Len(lossy)]
    BY <1>4, ConcatProperties, Zenon
  <2> QED
    BY <1>4, <2>1
<1>7. lossy \o exact = [i \in 1 .. Len(past) + Len(kept) |-> (lossy \o exact)[i]]
  BY <1>6, LenProperties
<1>8. ASSUME NEW i \in 1 .. Len(past) + Len(kept)
      PROVE  (lossy \o exact)[i] = IF i > Len(all) - ResidualWindow
                                   THEN Exact(all[i]) ELSE Lossy(all[i])
  <2>1. Len(kept) = IF Len(all) > ResidualWindow THEN ResidualWindow ELSE Len(all)
    BY DEF InWindow, all
  <2>2. i <= Len(past) <=> ~(i > Len(all) - ResidualWindow)
    BY <1>1, <1>2, <2>1
  <2>3. CASE i <= Len(past)
    <3>1. i \in 1 .. Len(past)
      BY <1>1, <2>3
    <3> QED
      BY <1>2, <1>5, <1>6, <2>2, <2>3, <3>1
  <2>4. CASE ~(i <= Len(past))
    <3>1. i - Len(past) \in 1 .. Len(kept)
      BY <1>1, <2>4
    <3> QED
      BY <1>2, <1>5, <1>6, <2>2, <2>4, <3>1
  <2> QED
    BY <2>3, <2>4
<1>9. lossy \o exact = [i \in 1 .. Len(all) |-> IF i > Len(all) - ResidualWindow
                                                THEN Exact(all[i]) ELSE Lossy(all[i])]
  BY <1>2, <1>7, <1>8, SMTT(30)
<1> QED
  BY <1>9 DEF Returned, lossy, exact, all

(* A turboquant update of a layer that holds c: afterwards it holds c and   *)
(* the new tokens, and has returned them.                                   *)
LEMMA TurboHolds ==
    ASSUME NEW l \in Layers, NEW new \in Seq(Row), NEW batch, NEW c \in Seq(Row),
           CacheTypes, TurboUpdate(l, new, batch)
    PROVE  /\ CacheTypes'
           /\ \A k \in Layers \ {l} : /\ window'[k] = window[k] /\ decoded'[k] = decoded[k]
                                      /\ read'[k] = read[k]
           /\ new # <<>> /\ HeldQuantized(l, c) =>
                HeldQuantized(l, c \o new)' /\ read'[l] = Returned(c \o new)
<1> DEFINE n == Evicted(l, new)
           grown == window[l] \o new
           kept == SubSeq(grown, n + 1, Len(grown))
           past == decoded[l] \o SubSeq(grown, 1, n)
           out == [i \in 1 .. Len(past) |-> Lossy(past[i])]
                    \o [i \in 1 .. Len(kept) |-> Exact(kept[i])]
<1>1. /\ strategy = "turboquant" /\ UNCHANGED <<strategy, seqLen, slots>>
      /\ window' = [window EXCEPT ![l] = kept]
      /\ decoded' = [decoded EXCEPT ![l] = past]
      /\ read' = [read EXCEPT ![l] = out]
  BY DEF TurboUpdate, Grown
<1>2. decoded[l] \in Seq(Row) /\ window[l] \in Seq(Row)
  BY DEF CacheTypes
<1>3. /\ Len(window[l]) \in Nat /\ Len(new) \in Nat /\ Len(decoded[l]) \in Nat
      /\ Len(grown) = Len(window[l]) + Len(new) /\ ResidualWindow \in Nat
  BY <1>2, LenProperties, ConcatProperties, CacheAssumption, SMTT(30)
<1>4. n = IF Len(grown) > ResidualWindow THEN Len(grown) - ResidualWindow ELSE 0
  BY <1>3 DEF Evicted, Grown
<1>5. n \in 0 .. Len(grown) /\ Len(grown) - n = InWindow(grown)
  BY <1>3, <1>4 DEF InWindow
<1>6. /\ kept \in Seq(Row) /\ Len(kept) = Len(grown) - n
      /\ past \in Seq(Row) /\ Len(past) = Len(decoded[l]) + n
      /\ past \o kept = (decoded[l] \o window[l]) \o new
  <2>1. CutApart(decoded[l], window[l], new, n)
    <3> HIDE DEF n
    <3> QED
      BY <1>2, <1>5, Cut
  <2> QED
    BY <2>1 DEF CutApart
<1> HIDE DEF n, grown, kept, past
<1>7. CacheTypes'
  <2>1. PICK rows : read \in [Layers -> rows]
    BY DEF CacheTypes
  <2> HIDE DEF out
  <2>2. read' \in [Layers -> rows \cup {out}]
    BY <1>1, <2>1
  <2> QED
    BY <1>1, <1>6, <2>2 DEF CacheTypes
<1>8. /\ window'[l] = kept /\ decoded'[l] = past /\ read'[l] = out
      /\ \A k \in Layers \ {l} : /\ window'[k] = window[k] /\ decoded'[k] = decoded[k]
                                 /\ read'[k] = read[k]
  <2> HIDE DEF out
  <2> QED
    BY <1>1 DEF CacheTypes
<1>9. ASSUME new # <<>>, HeldQuantized(l, c)
      PROVE  HeldQuantized(l, c \o new)' /\ read'[l] = Returned(c \o new)
  <2>1. decoded[l] \o window[l] = c /\ Len(window[l]) = InWindow(c)
    BY <1>9 DEF HeldQuantized
  <2>2. past \o kept = c \o new
    BY <1>6, <2>1
  <2>3. /\ Len(c) = Len(decoded[l]) + Len(window[l]) /\ Len(c \o new) = Len(c) + Len(new)
        /\ Len(new) > 0 /\ Len(c) \in Nat
    <3>1. Len(decoded[l] \o window[l]) = Len(decoded[l]) + Len(window[l])
      BY <1>2, ConcatProperties
    <3>2. Len(c \o new) = Len(c) + Len(new) /\ Len(new) > 0
      BY <1>9, ConcatProperties, EmptySeq
    <3> QED
      BY <2>1, <3>1, <3>2, LenProperties
  <2>4. Len(kept) = InWindow(c \o new)
    <3> DEFINE p == Len(c)
               q == Len(c \o new)
               m == Len(new)
               w == Len(window[l])
               k == Len(kept)
    <3>1. /\ p \in Nat /\ m \in Nat /\ m > 0 /\ q = p + m
          /\ w = IF p > ResidualWindow THEN ResidualWindow ELSE p
          /\ k = IF w + m > ResidualWindow THEN ResidualWindow ELSE w + m
      <4>1. k = IF w + m > ResidualWindow THEN ResidualWindow ELSE w + m
        BY <1>3, <1>5, <1>6 DEF InWindow
      <4>2. w = IF p > ResidualWindow THEN ResidualWindow ELSE p
        BY <2>1 DEF InWindow
      <4> QED
        BY <1>3, <2>3, <4>1, <4>2
    <3> HIDE DEF p, q, m, w, k
    <3>2. k = IF q > ResidualWindow THEN ResidualWindow ELSE q
      BY <1>3, <3>1
    <3> QED
      BY <3>2 DEF InWindow, q, k
  <2>5. HeldQuantized(l, c \o new)'
    BY <1>8, <2>2, <2>4 DEF HeldQuantized, InWindow
  <2>6. out = Returned(c \o new)
    BY <1>1, <1>6, <2>2, <2>4, ReturnedInParts, ZenonT(60)
  <2> QED
    BY <1>8, <2>5, <2>6
<1> QED
  BY <1>7, <1>8, <1>9

(* The same of the static cache, if the rows before seqLen are those of c.  *)
LEMMA StaticHolds ==
    ASSUME NEW l \in Layers, NEW new \in Seq(Row), NEW batch, NEW c \in Seq(Row),
           CacheTypes, StaticUpdate(l, new, batch)
    PROVE  /\ CacheTypes'
           /\ \A k \in Layers \ {l} : slots'[k] = slots[k] /\ read'[k] = read[k]
           /\ seqLen = Len(c) /\ HeldStatic(l, c) =>
                HeldStatic(l, c \o new)' /\ read'[l] = Returned(c \o new)
<1> DEFINE end == seqLen + Len(new)
           rows == [i \in 1 .. MaxSeqLen |->
                      IF i \in seqLen + 1 .. end THEN new[i - seqLen] ELSE slots[l][i]]
           out == [i \in 1 .. end |-> Exact(rows[i])]
<1>1. /\ strategy = "static" /\ UNCHANGED <<strategy, seqLen, window, decoded>>
      /\ slots' = [slots EXCEPT ![l] = rows]
      /\ read' = [read EXCEPT ![l] = out]
      /\ ~Overflows(new, batch)
  BY DEF StaticUpdate
<1>2. /\ seqLen \in Nat /\ Len(new) \in Nat /\ MaxSeqLen \in Nat /\ end \in Nat
      /\ end <= MaxSeqLen /\ \A i \in 1 .. Len(new) : new[i] \in Row
  BY <1>1, LenProperties, ElementOfSeq, CacheAssumption DEF CacheTypes, Overflows
<1>3. rows \in [1 .. MaxSeqLen -> Row]
  <2>1. slots[l] \in [1 .. MaxSeqLen -> Row]
    BY DEF CacheTypes
  <2>2. ASSUME NEW i \in seqLen + 1 .. end PROVE new[i - seqLen] \in Row
    <3>1. i - seqLen \in 1 .. Len(new)
      BY <1>2
    <3> QED
      BY <1>2, <3>1
  <2> QED
    BY <2>1, <2>2
<1>4. CacheTypes'
  <2>1. PICK old : read \in [Layers -> old]
    BY DEF CacheTypes
  <2> HIDE DEF out, rows
  <2>2. read' \in [Layers -> old \cup {out}]
    BY <1>1, <2>1
  <2> QED
    BY <1>1, <1>3, <2>2 DEF CacheTypes
<1>5. /\ slots'[l] = rows /\ read'[l] = out
      /\ \A k \in Layers \ {l} : slots'[k] = slots[k] /\ read'[k] = read[k]
  <2> HIDE DEF out, rows
  <2> QED
    BY <1>1 DEF CacheTypes
<1>6. ASSUME seqLen = Len(c), HeldStatic(l, c)
      PROVE  HeldStatic(l, c \o new)' /\ read'[l] = Returned(c \o new)
  <2>1. /\ Len(c \o new) = end
        /\ \A i \in 1 .. end :
             (c \o new)[i] = IF i <= seqLen THEN c[i] ELSE new[i - seqLen]
    BY <1>6, ConcatProperties
  <2>2. \A i \in 1 .. end : rows[i] = (c \o new)[i]
    <3> SUFFICES ASSUME NEW i \in 1 .. end PROVE rows[i] = (c \o new)[i]
      OBVIOUS
    <3>1. i \in 1 .. MaxSeqLen
      BY <1>2
    <3>2. CASE i <= seqLen
      <4>1. rows[i] = slots[l][i] /\ i \in 1 .. Len(c)
        BY <1>2, <1>6, <3>1, <3>2
      <4> QED
        BY <1>6, <2>1, <3>2, <4>1 DEF HeldStatic
    <3>3. CASE ~(i <= seqLen)
      BY <1>2, <2>1, <3>1, <3>3
    <3> QED
      BY <3>2, <3>3
  <2> HIDE DEF rows
  <2>3. HeldStatic(l, c \o new)'
    BY <1>2, <1>5, <2>1, <2>2 DEF HeldStatic
  <2>4. out = Returned(c \o new)
    BY <1>1, <2>1, <2>2 DEF Returned
  <2> QED
    BY <1>5, <2>3, <2>4
<1> QED
  BY <1>4, <1>5, <1>6

LEMMA UpdateHolds ==
    ASSUME NEW l \in Layers, NEW new \in Seq(Row), NEW batch, NEW c \in Seq(Row),
           CacheTypes, Update(l, new, batch)
    PROVE  /\ CacheTypes' /\ strategy' = strategy /\ seqLen' = seqLen
           /\ \A k \in Layers \ {l} : /\ slots'[k] = slots[k] /\ window'[k] = window[k]
                                      /\ decoded'[k] = decoded[k] /\ read'[k] = read[k]
           /\ new # <<>> /\ (strategy = "static" => seqLen = Len(c)) /\ Held(l, c) =>
                Held(l, c \o new)' /\ read'[l] = Returned(c \o new)
<1>1. CASE StaticUpdate(l, new, batch)
  <2>1. strategy = "static" /\ UNCHANGED <<strategy, seqLen, window, decoded>>
    BY <1>1 DEF StaticUpdate
  <2> QED
    BY <1>1, <2>1, StaticHolds DEF Held
<1>2. CASE TurboUpdate(l, new, batch)
  <2>1. strategy = "turboquant" /\ UNCHANGED <<strategy, seqLen, slots>>
    BY <1>2 DEF TurboUpdate
  <2> QED
    BY <1>2, <2>1, TurboHolds DEF Held
<1> QED
  BY <1>1, <1>2 DEF Update
-----------------------------------------------------------------------------
LEMMA InitRead == EngineInit => ReadInv
<1> SUFFICES ASSUME EngineInit PROVE ReadInv
  OBVIOUS
<1>1. CacheTypes
  <2>1. Zero \in Row /\ read \in [Layers -> {<<>>}] /\ <<>> \in Seq(Row)
    BY DEF EngineInit, CacheInit, Zero, Row, Empty
  <2> QED
    BY <2>1, CacheAssumption DEF EngineInit, CacheInit, CacheTypes, Blank, Empty
<1>2. phase = "idle" /\ number \in Nat
  BY DEF EngineInit
<1> QED
  BY <1>1, <1>2 DEF ReadInv, PassTypes, LayersTrack, Tracked, ReadsWholeContext

LEMMA AttendStep == ReadInv /\ Attend => ReadInv'
<1> SUFFICES ASSUME ReadInv, Attend PROVE ReadInv'
  OBVIOUS
<1>1. /\ phase = "forward" /\ layer <= NumLayers /\ layer' = layer + 1
      /\ Update(layer, feed, request.batch)
      /\ UNCHANGED <<phase, request, number, feed, context, backend>>
  BY DEF Attend
<1>2. /\ layer \in 1 .. NumLayers + 1 /\ NumLayers \in Nat /\ number \in Nat
      /\ context \in Seq(Row) /\ feed \in Seq(Row) /\ feed # <<>>
  BY <1>1, CacheAssumption DEF ReadInv, PassTypes
<1>3. layer \in Layers /\ layer' \in 1 .. NumLayers + 1
  BY <1>1, <1>2 DEF Layers
<1>4. PICK l \in Layers, c \in Seq(Row), new \in Seq(Row), batch \in {request.batch} :
        l = layer /\ c = context /\ new = feed
  BY <1>2, <1>3
<1>5. Update(l, new, batch) /\ new # <<>> /\ CacheTypes
  BY <1>1, <1>2, <1>4 DEF ReadInv
<1>6. /\ CacheTypes' /\ strategy' = strategy /\ seqLen' = seqLen
      /\ \A k \in Layers \ {l} : /\ slots'[k] = slots[k] /\ window'[k] = window[k]
                                 /\ decoded'[k] = decoded[k] /\ read'[k] = read[k]
      /\ (strategy = "static" => seqLen = Len(c)) /\ Held(l, c) =>
            Held(l, c \o new)' /\ read'[l] = Returned(c \o new)
  BY <1>5, UpdateHolds
<1>7. PassTypes'
  BY <1>1, <1>2, <1>3 DEF ReadInv, PassTypes
<1>8. ASSUME Tracked
      PROVE  /\ strategy = "static" => seqLen = Len(c)
             /\ \A k \in Layers : Held(k, IF k < layer THEN c \o new ELSE c)
             /\ Held(l, c \o new)' /\ read'[l] = Returned(c \o new)
  <2>1. /\ strategy = "static" => seqLen = Len(c)
        /\ \A k \in Layers : Held(k, IF k < layer THEN c \o new ELSE c)
    BY <1>4, <1>8 DEF ReadInv, LayersTrack
  <2>2. Held(l, c)
    BY <1>2, <1>4, <2>1
  <2> QED
    BY <1>6, <2>1, <2>2
<1>9. LayersTrack'
  <2> SUFFICES ASSUME Tracked'
               PROVE  /\ strategy' = "static" => seqLen' = Len(c)
                      /\ \A k \in Layers : Held(k, IF k < l + 1 THEN c \o new ELSE c)'
    BY <1>1, <1>4 DEF LayersTrack
  <2>1. Tracked
    BY <1>1, <1>6 DEF Tracked
  <2>2. ASSUME NEW k \in Layers
        PROVE  Held(k, IF k < l + 1 THEN c \o new ELSE c)'
    <3>1. CASE k = l
      BY <1>2, <1>4, <1>8, <2>1, <3>1
    <3>2. CASE k # l
      <4>1. k < l + 1 <=> k < layer
        BY <1>2, <1>4, <3>2 DEF Layers
      <4>2. Held(k, IF k < l + 1 THEN c \o new ELSE c)
        BY <1>8, <2>1, <4>1
      <4> QED
        BY <1>6, <3>2, <4>2 DEF Held, HeldStatic, HeldQuantized
    <3> QED
      BY <3>1, <3>2
  <2> QED
    BY <1>4, <1>6, <1>8, <2>1, <2>2
<1>10. ReadsWholeContext'
  <2> SUFFICES ASSUME Tracked', NEW k \in 1 .. layer
               PROVE  read'[k] = Returned(c \o new)'
    BY <1>1, <1>2, <1>4 DEF ReadsWholeContext, Tracked, Returned
  <2>1. Tracked /\ Returned(c \o new)' = Returned(c \o new)
    BY <1>1, <1>6 DEF Tracked, Returned
  <2>2. CASE k = l
    BY <1>8, <2>1, <2>2
  <2>3. CASE k # l
    <3>1. k \in 1 .. layer - 1 /\ k \in Layers \ {l}
      BY <1>2, <1>1, <1>4, <2>3 DEF Layers
    <3>2. read[k] = Returned(c \o new)
      BY <1>4, <2>1, <3>1, SMTT(30) DEF ReadInv, ReadsWholeContext, Tracked, Returned
    <3> QED
      BY <1>6, <2>1, <3>1, <3>2
  <2> QED
    BY <2>2, <2>3
<1> QED
  BY <1>6, <1>7, <1>9, <1>10 DEF ReadInv

LEMMA SampleStep == ReadInv /\ Sample => ReadInv'
<1> SUFFICES ASSUME ReadInv, Sample PROVE ReadInv'
  OBVIOUS
<1>1. /\ phase = "forward" /\ layer = NumLayers + 1 /\ layer' = 1
      /\ context' = context \o feed /\ feed' = <<<<number, Len(context') + 1>>>>
      /\ IF request.how = "direct" THEN Advance(Len(feed)) ELSE UNCHANGED cacheVars
      /\ UNCHANGED <<request, number, backend>>
  BY DEF Sample, Token
<1>2. /\ NumLayers \in Nat \ {0} /\ number \in Nat
      /\ context \in Seq(Row) /\ feed \in Seq(Row) /\ feed # <<>>
      /\ Len(feed) \in Nat /\ Len(context) \in Nat
  BY <1>1, CacheAssumption, LenProperties DEF ReadInv, PassTypes
<1>3. context' \in Seq(Row) /\ Len(context') = Len(context) + Len(feed)
  BY <1>1, <1>2, ConcatProperties
<1>4. feed' \in Seq(Row) /\ feed' # <<>>
  <2>1. Len(context') + 1 \in Nat
    BY <1>2, <1>3
  <2>2. <<number, Len(context') + 1>> \in Row
    BY <1>2, <2>1 DEF Row
  <2> HIDE DEF Row
  <2> QED
    BY <1>1, <2>2
<1>5. /\ UNCHANGED <<strategy, slots, window, decoded, read>>
      /\ seqLen' = IF request.how = "direct" THEN seqLen + Len(feed) ELSE seqLen
  BY <1>1 DEF Advance, cacheVars
<1>6. CacheTypes'
  <2>1. seqLen' \in Nat
    BY <1>2, <1>5 DEF ReadInv, CacheTypes
  <2> QED
    BY <1>5, <2>1 DEF ReadInv, CacheTypes
<1>7. PassTypes'
  BY <1>1, <1>2, <1>3, <1>4 DEF ReadInv, PassTypes
<1>8. LayersTrack'
  <2> SUFFICES ASSUME Tracked'
               PROVE  /\ strategy = "static" => seqLen' = Len(context')
                      /\ \A k \in Layers : Held(k, IF k < layer THEN context \o feed
                                                                ELSE context)'
    BY <1>5 DEF LayersTrack
  <2>1. Tracked /\ (strategy = "static" => request.how = "direct")
    BY <1>1, <1>5 DEF Tracked
  <2>2. /\ strategy = "static" => seqLen = Len(context)
        /\ \A k \in Layers : Held(k, IF k < layer THEN context \o feed ELSE context)
    BY <2>1 DEF ReadInv, LayersTrack
  <2>3. ASSUME NEW k \in Layers
        PROVE  Held(k, IF k < layer THEN context \o feed ELSE context)'
    <3>1. k < layer /\ ~(k < layer')
      BY <1>1, <1>2 DEF Layers
    <3>2. Held(k, context \o feed)
      BY <2>2, <3>1
    <3>3. Held(k, context)'
      BY <1>1, <1>5, <3>2 DEF Held, HeldStatic, HeldQuantized
    <3> QED
      BY <3>1, <3>3
  <2> QED
    BY <1>3, <1>5, <2>1, <2>2, <2>3
<1>9. ReadsWholeContext'
  BY <1>1 DEF ReadsWholeContext
<1> QED
  BY <1>6, <1>7, <1>8, <1>9 DEF ReadInv

(* A request begins with an empty cache, and an empty context.              *)
LEMMA AcceptStep ==
    ASSUME ReadInv, NEW q \in Requests, Begin(q) \/ BeginParam2(q) PROVE ReadInv'
<1>1. Accept(q) /\ phase' \in {"speculate", "idle", "forward"}
  BY DEF Begin, BeginParam2
<1>2. /\ backend = "hf" /\ backend' = "hf" /\ Reset /\ number' = number + 1
      /\ feed' = [i \in 1 .. q.prompt |-> <<number + 1, i>>]
      /\ layer' = 1 /\ context' = <<>>
  BY <1>1 DEF Accept
<1>3. q.prompt \in Nat \ {0} /\ NumLayers \in Nat \ {0} /\ MaxSeqLen \in Nat
      /\ ResidualWindow \in Nat /\ number \in Nat
  BY EngineAssumption, CacheAssumption DEF Request, ReadInv, PassTypes
<1>4. <<>> \in Seq(Row) /\ Len(<<>>) = 0
  OBVIOUS
<1>5. feed' \in Seq(Row) /\ feed' # <<>>
  <2>1. feed' \in [1 .. q.prompt -> Row]
    BY <1>2, <1>3 DEF Row
  <2>2. feed' \in Seq(Row) /\ Len(feed') = q.prompt
    BY <1>3, <2>1, RowsOf
  <2> QED
    BY <1>3, <2>2
<1>6. /\ seqLen' = 0 /\ strategy' = strategy /\ slots' = Blank
      /\ window' = Empty /\ decoded' = Empty /\ read' = Empty
  BY <1>2 DEF Reset
<1>7. CacheTypes'
  <2>1. Zero \in Row /\ read' \in [Layers -> {<<>>}]
    BY <1>6 DEF Zero, Row, Empty
  <2> QED
    BY <1>3, <1>4, <1>6, <2>1 DEF ReadInv, CacheTypes, Blank, Empty
<1>8. PassTypes'
  BY <1>2, <1>3, <1>4, <1>5 DEF PassTypes
<1>9. LayersTrack'
  <2>1. \A k \in Layers : decoded'[k] = <<>> /\ window'[k] = <<>> /\ ~(k < layer')
    BY <1>2, <1>6 DEF Empty, Layers
  <2>2. \A k \in Layers : Held(k, context)'
    <3>1. <<>> \o <<>> = <<>> /\ InWindow(<<>>) = 0
      BY <1>3, <1>4 DEF InWindow
    <3> QED
      BY <1>2, <1>3, <1>4, <2>1, <3>1 DEF Held, HeldStatic, HeldQuantized, InWindow
  <2> QED
    BY <1>2, <1>4, <1>6, <2>1, <2>2 DEF LayersTrack
<1>10. ReadsWholeContext'
  BY <1>2 DEF ReadsWholeContext
<1> QED
  BY <1>7, <1>8, <1>9, <1>10 DEF ReadInv

LEMMA CacheFailsStep == ReadInv /\ CacheFails => ReadInv'
<1> SUFFICES ASSUME ReadInv, CacheFails PROVE ReadInv'
  OBVIOUS
<1>1. /\ phase = "forward" /\ phase' = "idle" /\ layer <= NumLayers
      /\ UpdateRaises(layer, feed, request.batch)
      /\ UNCHANGED <<number, backend>>
  BY DEF CacheFails
<1>2. CacheTypes /\ PassTypes /\ layer \in Layers /\ feed \in Seq(Row)
  BY <1>1, CacheAssumption DEF ReadInv, PassTypes, Layers
<1>3. CacheTypes'
  <2> DEFINE g == Grown(layer, feed)
             n == Evicted(layer, feed)
             kept == SubSeq(g, n + 1, Len(g))
  <2>1. UNCHANGED <<strategy, seqLen, slots, decoded, read>>
    BY <1>1 DEF UpdateRaises
  <2>2. window' = window \/ window' = [window EXCEPT ![layer] = kept]
    BY <1>1 DEF UpdateRaises
  <2>3. kept \in Seq(Row)
    <3>1. window[layer] \in Seq(Row)
      BY <1>2 DEF CacheTypes
    <3>2. g \in Seq(Row) /\ Len(g) \in Nat
      BY <1>2, <3>1, ConcatProperties, LenProperties DEF Grown
    <3>3. n \in Nat
      BY <3>2, CacheAssumption DEF Evicted
    <3> HIDE DEF g, n
    <3>4. \A i \in n + 1 .. Len(g) : g[i] \in Row
      BY <3>2, <3>3, ElementOfSeq
    <3> QED
      BY <3>2, <3>3, <3>4, SubSeqProperties
  <2> HIDE DEF kept
  <2> QED
    BY <1>2, <2>1, <2>2, <2>3 DEF CacheTypes
<1> QED
  BY <1>1, <1>2, <1>3 DEF ReadInv, PassTypes, LayersTrack, Tracked, ReadsWholeContext

LEMMA ReadStep == ReadInv /\ [EngineNext]_engineVars => ReadInv'
<1> SUFFICES ASSUME ReadInv, [EngineNext]_engineVars PROVE ReadInv'
  OBVIOUS
<1> USE DEF ReadInv, CacheTypes, PassTypes, LayersTrack, Tracked, ReadsWholeContext,
            Held, HeldStatic, HeldQuantized, cacheVars
<1>1. CASE Load
  BY <1>1 DEF Load
<1>2. CASE \E q \in Requests : Begin(q) \/ BeginParam2(q)
  <2> HIDE DEF ReadInv
  <2> QED
    BY <1>2, AcceptStep
<1>3. CASE \E q \in Requests : Delegate(q)
  <2>1. /\ backend = "vllm" /\ number' \in Nat
        /\ UNCHANGED <<cacheVars, backend, phase>>
    BY <1>3 DEF Delegate
  <2>2. phase = "idle"
    BY <2>1
  <2>3. CacheTypes'
    BY <2>1
  <2> QED
    BY <2>1, <2>2, <2>3
<1>4. CASE Attend
  <2> HIDE DEF ReadInv
  <2> QED
    BY <1>4, AttendStep
<1>5. CASE Sample
  <2> HIDE DEF ReadInv
  <2> QED
    BY <1>5, SampleStep
<1>6. CASE Speculate
  BY <1>6 DEF Speculate
<1>7. CASE CacheFails
  <2> HIDE DEF ReadInv
  <2> QED
    BY <1>7, CacheFailsStep
<1>8. CASE ModelFails
  BY <1>8 DEF ModelFails
<1>9. CASE UNCHANGED engineVars
  BY <1>9 DEF engineVars
<1> QED
  BY <1>1, <1>2, <1>3, <1>4, <1>5, <1>6, <1>7, <1>8, <1>9 DEF EngineNext, EngineOver

(* A layer attends to the whole context of its request in order and to      *)
(* nothing else, whatever batch, exception or cache failure came before it. *)
THEOREM LayersReadTheWholeContext == EngineSpec => []ReadsWholeContext
<1>1. ReadInv => ReadsWholeContext
  BY DEF ReadInv
<1> QED
  BY <1>1, InitRead, ReadStep, PTL DEF EngineSpec
-----------------------------------------------------------------------------
(* The speculative loop.  While nothing is rejected, what the target has    *)
(* been fed with and is fed next is the text of every item.                 *)
Word == Vocabulary \cup {"prompt"}

SpecTypes ==
    /\ items = {} \/ 1 \in items
    /\ items # {} => /\ text \in [items -> Seq(Word)]
                     /\ input \in [items -> Seq(Word)]
                     /\ targetCtx \in [items -> Seq(Word)]
                     /\ \/ \A b \in items : proposal[b] = <<>>
                        \/ proposal \in [items -> [1 .. DraftTokens -> Vocabulary]]
SpecInv == SpecTypes /\ LosslessUntilRejection

(* What _rejection_sample returns: at least one token of every item, and if *)
(* nothing is rejected all drafts and one more.                             *)
LEMMA OutcomeShape ==
    ASSUME NEW p \in [items -> [1 .. DraftTokens -> Vocabulary]], NEW o \in Outcomes(p)
    PROVE  /\ \E n \in Nat \ {0} : o.new \in [items -> [1 .. n -> Vocabulary]]
           /\ ~o.reject => /\ o.new \in [items -> [1 .. DraftTokens + 1 -> Vocabulary]]
                           /\ \A b \in items : SubSeq(o.new[b], 1, DraftTokens)
                                                 = SubSeq(p[b], 1, DraftTokens)
<1> DEFINE lengths(n) == [items -> [1 .. n -> Vocabulary]]
<1>1. DraftTokens \in Nat \ {0} /\ DraftTokens + 1 \in Nat \ {0}
  BY SpecAssumption
<1>2. CASE \E out \in lengths(DraftTokens + 1) :
              /\ o = [new |-> out, reject |-> FALSE]
              /\ \A b \in items : SubSeq(out[b], 1, DraftTokens)
                                    = SubSeq(p[b], 1, DraftTokens)
  BY <1>1, <1>2
<1>3. CASE \E n \in 1 .. DraftTokens : \E out \in lengths(n) :
              o = [new |-> out, reject |-> TRUE]
  <2>1. PICK n \in 1 .. DraftTokens :
          \E out \in lengths(n) : o = [new |-> out, reject |-> TRUE]
    BY <1>3
  <2>2. n \in Nat \ {0} /\ o.new \in lengths(n) /\ o.reject = TRUE
    BY <1>1, <2>1
  <2> QED
    BY <2>2
<1> QED
  BY <1>2, <1>3 DEF Outcomes

LEMMA LastOf ==
    ASSUME NEW n \in Nat \ {0}, NEW new \in [1 .. n -> Vocabulary]
    PROVE  /\ new \in Seq(Word) /\ Len(new) = n
           /\ Last(new) = new[n] /\ Last(new) \in Vocabulary /\ <<Last(new)>> \in Seq(Word)
<1>1. new \in [1 .. n -> Word]
  BY DEF Word
<1>2. new \in Seq(Word) /\ Len(new) = n
  BY <1>1, RowsOf
<1>3. Last(new) = new[n] /\ new[n] \in Vocabulary
  BY <1>2 DEF Last
<1> QED
  BY <1>2, <1>3 DEF Word

(* The drafts and one more: fed with the drafts, and the one more is next.  *)
LEMMA FedAll ==
    ASSUME NEW x \in Seq(Word), NEW y \in Seq(Word),
           NEW p \in [1 .. DraftTokens -> Vocabulary],
           NEW new \in [1 .. DraftTokens + 1 -> Vocabulary],
           SubSeq(new, 1, DraftTokens) = SubSeq(p, 1, DraftTokens)
    PROVE  ((x \o y) \o p) \o <<Last(new)>> = (x \o y) \o new
<1> DEFINE k == DraftTokens
<1>1. k \in Nat \ {0} /\ k + 1 \in Nat \ {0} /\ 1 \in 1 .. k + 2 /\ k \in 0 .. k + 1
      /\ k + 1 \in k .. k + 1
  BY SpecAssumption
<1> HIDE DEF k
<1>2. /\ p \in Seq(Word) /\ Len(p) = k /\ new \in Seq(Word) /\ Len(new) = k + 1
      /\ Last(new) = new[k + 1] /\ <<Last(new)>> \in Seq(Word)
  BY <1>1, LastOf DEF k
<1>3. SubSeq(new, 1, k) = p
  BY <1>2, SubSeqFull DEF k
<1>4. SubSeq(new, 1, k + 1) = SubSeq(new, 1, k) \o <<new[k + 1]>>
  <2>1. 1 \in 1 .. Len(new) /\ k + 1 \in 1 .. Len(new) /\ (k + 1) - 1 = k
    BY <1>1, <1>2
  <2> QED
    BY <1>2, <2>1, SubSeqRecursiveSecond
<1>5. SubSeq(new, 1, k + 1) = new
  BY <1>2, SubSeqFull
<1>6. new = p \o <<Last(new)>>
  BY <1>2, <1>3, <1>4, <1>5
<1>7. x \o y \in Seq(Word)
  BY ConcatProperties
<1>8. ((x \o y) \o p) \o <<Last(new)>> = (x \o y) \o (p \o <<Last(new)>>)
  <2> DEFINE t == x \o y
             one == <<Last(new)>>
  <2>1. t \in Seq(Word) /\ one \in Seq(Word) /\ p \in Seq(Word)
    BY <1>2, <1>7
  <2> HIDE DEF t, one
  <2>2. (t \o p) \o one = t \o (p \o one)
    BY <2>1, ConcatAssociative, SMTT(30)
  <2> QED
    BY <2>2 DEF t, one
<1> QED
  BY <1>6, <1>8

LEMMA VerifyStep == SpecInv /\ Verify => SpecInv'
<1> SUFFICES ASSUME SpecInv, Verify PROVE SpecInv'
  OBVIOUS
<1>1. PICK o \in Outcomes(proposal) :
        Take(o.new) /\ rejected' = (rejected \/ o.reject)
  BY DEF Verify
<1>2. /\ items # {} /\ 1 \in items /\ items' = items
      /\ targetCtx' = [b \in items |-> targetCtx[b] \o input[b] \o proposal[b]]
      /\ proposal' = [b \in items |-> <<>>]
      /\ proposal \in [items -> [1 .. DraftTokens -> Vocabulary]]
      /\ text \in [items -> Seq(Word)] /\ input \in [items -> Seq(Word)]
      /\ targetCtx \in [items -> Seq(Word)]
  BY DEF Verify, SpecInv, SpecTypes
<1>3. /\ text' = [b \in items |-> text[b] \o o.new[b]]
      /\ input' = [b \in items |-> <<Last(o.new[b])>>]
  BY <1>1 DEF Take
<1>4. PICK n \in Nat \ {0} : o.new \in [items -> [1 .. n -> Vocabulary]]
  BY <1>2, OutcomeShape
<1>5. \A b \in items : o.new[b] \in Seq(Word) /\ <<Last(o.new[b])>> \in Seq(Word)
                       /\ proposal[b] \in Seq(Word)
  <2> TAKE b \in items
  <2>1. proposal[b] \in [1 .. DraftTokens -> Vocabulary] /\ DraftTokens \in Nat \ {0}
    BY <1>2, SpecAssumption
  <2>2. proposal[b] \in Seq(Word)
    BY <2>1, LastOf
  <2>3. o.new[b] \in [1 .. n -> Vocabulary]
    BY <1>4
  <2> QED
    BY <2>2, <2>3, LastOf
<1>6. SpecTypes'
  <2>1. \A b \in items : /\ text[b] \o o.new[b] \in Seq(Word)
                         /\ targetCtx[b] \o input[b] \o proposal[b] \in Seq(Word)
    <3> TAKE b \in items
    <3>1. text[b] \in Seq(Word) /\ input[b] \in Seq(Word) /\ targetCtx[b] \in Seq(Word)
      BY <1>2
    <3>2. targetCtx[b] \o input[b] \in Seq(Word)
      BY <3>1, ConcatProperties
    <3> QED
      BY <1>5, <3>1, <3>2, ConcatProperties
  <2>2. text' \in [items -> Seq(Word)] /\ targetCtx' \in [items -> Seq(Word)]
    BY <1>2, <1>3, <2>1
  <2>3. input' \in [items -> Seq(Word)]
    BY <1>3, <1>5
  <2>4. \A b \in items : proposal'[b] = <<>>
    BY <1>2
  <2> QED
    BY <1>2, <2>2, <2>3, <2>4 DEF SpecTypes
<1>7. LosslessUntilRejection'
  <2> SUFFICES ASSUME ~rejected', NEW b \in items
               PROVE  targetCtx'[b] \o input'[b] = text'[b]
    BY <1>2 DEF LosslessUntilRejection, Lossless
  <2>1. ~o.reject /\ targetCtx[b] \o input[b] = text[b]
    BY <1>1, <1>2 DEF SpecInv, LosslessUntilRejection, Lossless
  <2> DEFINE x == targetCtx[b]
             y == input[b]
             p == proposal[b]
             new == o.new[b]
  <2>2. /\ x \in Seq(Word) /\ y \in Seq(Word) /\ p \in [1 .. DraftTokens -> Vocabulary]
        /\ new \in [1 .. DraftTokens + 1 -> Vocabulary]
        /\ SubSeq(new, 1, DraftTokens) = SubSeq(p, 1, DraftTokens)
    BY <1>2, <2>1, OutcomeShape
  <2>3. /\ targetCtx'[b] = (x \o y) \o p /\ input'[b] = <<Last(new)>>
        /\ text'[b] = (x \o y) \o new
    BY <1>2, <1>3, <2>1
  <2> HIDE DEF x, y, p, new
  <2>4. ((x \o y) \o p) \o <<Last(new)>> = (x \o y) \o new
    BY <2>2, FedAll, ZenonT(60)
  <2> QED
    BY <2>3, <2>4
<1> QED
  BY <1>6, <1>7 DEF SpecInv

LEMMA StandardStepKeeps == SpecInv /\ StandardStep => SpecInv'
<1> SUFFICES ASSUME SpecInv, StandardStep PROVE SpecInv'
  OBVIOUS
<1>1. PICK new \in [items -> [1 .. 1 -> Vocabulary]] : Take(new)
  BY DEF StandardStep
<1>2. /\ items # {} /\ 1 \in items /\ UNCHANGED <<items, proposal, rejected>>
      /\ targetCtx' = [b \in items |-> targetCtx[b] \o input[b]]
      /\ text \in [items -> Seq(Word)] /\ input \in [items -> Seq(Word)]
      /\ targetCtx \in [items -> Seq(Word)]
      /\ text' = [b \in items |-> text[b] \o new[b]]
      /\ input' = [b \in items |-> <<Last(new[b])>>]
  BY <1>1 DEF StandardStep, SpecInv, SpecTypes, Take
<1>3. \A b \in items : /\ new[b] \in Seq(Word) /\ <<Last(new[b])>> \in Seq(Word)
                       /\ new[b] = <<Last(new[b])>>
  <2> TAKE b \in items
  <2>1. new[b] \in [1 .. 1 -> Vocabulary] /\ 1 \in Nat \ {0}
    OBVIOUS
  <2>2. /\ new[b] \in Seq(Word) /\ Len(new[b]) = 1 /\ Last(new[b]) = new[b][1]
        /\ <<Last(new[b])>> \in Seq(Word)
    BY <2>1, LastOf
  <2>3. new[b] = <<new[b][1]>>
    BY <2>1
  <2> QED
    BY <2>2, <2>3
<1>4. SpecTypes'
  <2>1. \A b \in items : /\ text[b] \o new[b] \in Seq(Word)
                         /\ targetCtx[b] \o input[b] \in Seq(Word)
    BY <1>2, <1>3, ConcatProperties
  <2>2. text' \in [items -> Seq(Word)] /\ targetCtx' \in [items -> Seq(Word)]
    BY <1>2, <2>1
  <2>3. input' \in [items -> Seq(Word)]
    BY <1>2, <1>3
  <2> QED
    BY <1>2, <2>2, <2>3 DEF SpecInv, SpecTypes
<1>5. LosslessUntilRejection'
  BY <1>2, <1>3 DEF SpecInv, LosslessUntilRejection, Lossless
<1> QED
  BY <1>4, <1>5 DEF SpecInv

LEMMA ProposeStep == SpecInv /\ Propose => SpecInv'
<1> SUFFICES ASSUME SpecInv, Propose PROVE SpecInv'
  OBVIOUS
<1>1. /\ proposal' \in [items -> [1 .. DraftTokens -> Vocabulary]]
      /\ UNCHANGED <<items, text, input, targetCtx, rejected>>
  BY DEF Propose
<1> QED
  BY <1>1 DEF SpecInv, SpecTypes, LosslessUntilRejection, Lossless

LEMMA SpecBeginStep ==
    ASSUME NEW batch \in Nat \ {0}, NEW prompt \in Nat, NEW max, SpecBegin(batch, prompt, max)
    PROVE  SpecInv'
<1> DEFINE words == [i \in 1 .. prompt |-> "prompt"]
<1>1. /\ items' = 1 .. batch /\ ~rejected'
      /\ text' = [b \in 1 .. batch |-> words] /\ input' = text'
      /\ targetCtx' = [b \in 1 .. batch |-> <<>>] /\ proposal' = targetCtx'
  BY DEF SpecBegin
<1>2. words \in Seq(Word)
  BY DEF Word
<1>3. <<>> \in Seq(Word) /\ <<>> \o words = words
  BY <1>2, ConcatEmptySeq
<1> HIDE DEF words
<1>4. SpecTypes'
  BY <1>1, <1>2, <1>3 DEF SpecTypes
<1>5. LosslessUntilRejection'
  BY <1>1, <1>3 DEF LosslessUntilRejection, Lossless
<1> QED
  BY <1>4, <1>5 DEF SpecInv

LEMMA SpecInvStep == SpecInv /\ [EngineNext]_engineVars => SpecInv'
<1> SUFFICES ASSUME SpecInv, [EngineNext]_engineVars PROVE SpecInv'
  OBVIOUS
<1>1. CASE UNCHANGED specVars
  BY <1>1 DEF SpecInv, SpecTypes, LosslessUntilRejection, Lossless, specVars
<1>2. CASE \E q \in Requests : SpecBegin(q.batch, q.prompt, q.max)
  BY <1>2, SpecBeginStep, EngineAssumption DEF Request
<1>3. CASE SpecStep
  BY <1>3, ProposeStep, VerifyStep, StandardStepKeeps DEF SpecStep
<1>4. UNCHANGED specVars \/ SpecStep \/ \E q \in Requests : SpecBegin(q.batch, q.prompt, q.max)
  <2>1. CASE UNCHANGED engineVars
    BY <2>1 DEF engineVars
  <2>2. CASE \E q \in Requests : Begin(q)
    BY <2>2 DEF Begin
  <2>3. CASE EngineNext /\ ~\E q \in Requests : Begin(q)
    BY <2>3 DEF EngineNext, Load, BeginParam2, Delegate, Attend, Sample, Speculate,
                CacheFails, ModelFails, EngineOver, engineVars
  <2> QED
    BY <2>1, <2>2, <2>3
<1> QED
  BY <1>1, <1>2, <1>3, <1>4

(* Until a draft of this batch is rejected, every item's target model has   *)
(* been fed with exactly the text before its next input: with however many  *)
(* items, whichever of them are finished, with a draft model or without.    *)
THEOREM SpeculationIsLosslessUntilRejection == EngineSpec => []LosslessUntilRejection
<1>1. EngineInit => SpecInv
  BY DEF EngineInit, SpecIdle, SpecInv, SpecTypes, LosslessUntilRejection, Lossless
<1>2. SpecInv => LosslessUntilRejection
  BY DEF SpecInv
<1> QED
  BY <1>1, <1>2, SpecInvStep, PTL DEF EngineSpec
================================================================================
