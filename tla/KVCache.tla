------------------------------- MODULE KVCache -------------------------------
(***************************************************************************)
(* The key-value caches of the inference engine (inference/kv_cache.py):   *)
(* one StaticKVCache or TurboQuantKVCache, allocated once and used by all  *)
(* requests in turn.  What is cached of a token is the token itself; what  *)
(* was quantized and decoded again is marked as not exact.                 *)
(***************************************************************************)
EXTENDS Naturals, Sequences, SequencesExt

CONSTANTS NumLayers,       \* num_layers
          MaxSeqLen,       \* max_seq_len of the static cache
          CacheBatch,      \* batch_size of the static cache
          ResidualWindow,  \* residual_window of the turboquant cache
          Strategies       \* kv_cache settings considered

ASSUME CacheAssumption ==
    /\ NumLayers \in Nat \ {0} /\ MaxSeqLen \in Nat /\ ResidualWindow \in Nat
    /\ CacheBatch \in Nat \ {0}
    /\ Strategies \subseteq {"static", "turboquant"}

VARIABLES strategy,  \* which of the two was built
          seqLen,    \* _seq_len, what get_seq_length() answers
          slots,     \* static: the rows of a layer
          window, decoded,  \* turboquant: the window, and what was evicted from it
          shape,     \* turboquant: batch size the rows were allocated for, 0 = none
          read       \* what a layer's last update has returned
cacheVars == <<strategy, seqLen, slots, window, decoded, shape, read>>

Layers == 1 .. NumLayers
Zero == <<0, 0>>    \* a row that is all zeros
Exact(tok) == [tok |-> tok, exact |-> TRUE]
Lossy(tok) == [tok |-> tok, exact |-> FALSE]
Empty == [l \in Layers |-> <<>>]
Blank == [l \in Layers |-> [i \in 1 .. MaxSeqLen |-> Zero]]

(* build_kv_cache *)
CacheInit ==
    /\ strategy \in Strategies
    /\ seqLen = 0
    /\ slots = Blank
    /\ window = Empty /\ decoded = Empty
    /\ shape = [l \in Layers |-> 0]
    /\ read = Empty
-----------------------------------------------------------------------------
(* StaticKVCache.update: the new tokens go behind the seqLen first rows,    *)
(* and everything up to them is returned.                                   *)
(* One item is broadcast to all rows, several must be CacheBatch.           *)
Overflows(new, batch) == /\ strategy = "static"
                         /\ seqLen + Len(new) > MaxSeqLen \/ batch \notin {1, CacheBatch}

StaticUpdate(l, new, batch) ==
    /\ strategy = "static" /\ ~Overflows(new, batch)
    /\ LET end == seqLen + Len(new)
           rows == [i \in 1 .. MaxSeqLen |->
                      IF i \in seqLen + 1 .. end THEN new[i - seqLen] ELSE slots[l][i]]
       IN  /\ slots' = [slots EXCEPT ![l] = rows]
           /\ read' = [read EXCEPT ![l] = [i \in 1 .. end |-> Exact(rows[i])]]
    /\ UNCHANGED <<strategy, seqLen, window, decoded, shape>>

(* _LayerKVStore.store_and_get: the window takes the new tokens and gives   *)
(* its oldest ones to the quantized rows, which exist in the shape of the   *)
(* first batch this layer has ever seen.                                    *)
Grown(l, new) == window[l] \o new
Evicted(l, new) == LET over == Len(Grown(l, new)) - ResidualWindow
                   IN  IF over > 0 THEN over ELSE 0
Allocated(l, batch) == IF shape[l] = 0 THEN batch ELSE shape[l]
Misfits(l, new, batch) ==
    /\ strategy = "turboquant"
    /\ Evicted(l, new) > 0 /\ Allocated(l, batch) # batch

TurboUpdate(l, new, batch) ==
    /\ strategy = "turboquant" /\ ~Misfits(l, new, batch)
    /\ LET n == Evicted(l, new)
           kept == SubSeq(Grown(l, new), n + 1, Len(Grown(l, new)))
           past == decoded[l] \o SubSeq(Grown(l, new), 1, n)
       IN  /\ window' = [window EXCEPT ![l] = kept]
           /\ decoded' = [decoded EXCEPT ![l] = past]
           /\ read' = [read EXCEPT ![l] =
                 [i \in 1 .. Len(past) |-> Lossy(past[i])]
                 \o [i \in 1 .. Len(kept) |-> Exact(kept[i])]]
    /\ shape' = [shape EXCEPT ![l] = Allocated(l, batch)]
    /\ UNCHANGED <<strategy, seqLen, slots>>

Update(l, new, batch) == StaticUpdate(l, new, batch) \/ TurboUpdate(l, new, batch)

(* An update that raises; the turboquant window has been cut by then.       *)
UpdateRaises(l, new, batch) ==
    /\ Overflows(new, batch) \/ Misfits(l, new, batch)
    /\ window' = IF strategy = "static" THEN window
                 ELSE [window EXCEPT ![l] = SubSeq(Grown(l, new),
                        Evicted(l, new) + 1, Len(Grown(l, new)))]
    /\ UNCHANGED <<strategy, seqLen, slots, decoded, shape, read>>

Advance(n) ==
    /\ seqLen' = seqLen + n
    /\ UNCHANGED <<strategy, slots, window, decoded, shape, read>>

(* Faulty variant: the decoded copy of evicted tokens outlives the request. *)
ResetRowsOnly ==
    /\ seqLen' = 0
    /\ slots' = Blank
    /\ window' = Empty /\ read' = Empty
    /\ UNCHANGED <<strategy, shape, decoded>>

(* Both reset(): all rows are emptied, the allocation stays.                *)
Reset ==
    /\ seqLen' = 0
    /\ slots' = Blank
    /\ window' = Empty /\ decoded' = Empty /\ read' = Empty
    /\ UNCHANGED <<strategy, shape>>
=============================================================================
