----------------------------- MODULE Speculative -----------------------------
(***************************************************************************)
(* Speculative decoding (inference/speculative.py) and the loop around it, *)
(* _generate_speculative of the engine: a draft model proposes DraftTokens *)
(* tokens, the target model judges them in one pass, the first rejected    *)
(* one is drawn again.  All requests of a batch go in step.                *)
(*                                                                         *)
(* The context of a model is what it was fed with; its cache is the one    *)
(* the model makes itself when it is given none (external).                *)
(***************************************************************************)
EXTENDS Naturals, Sequences, SequencesExt, FiniteSets

CONSTANTS DraftTokens,  \* num_draft_tokens
          Vocabulary, Eos

ASSUME SpecAssumption ==
    DraftTokens \in Nat \ {0} /\ Eos \in Vocabulary /\ Cardinality(Vocabulary) > 1

VARIABLES hasDraft,   \* a draft model is there
          items,      \* requests in the batch
          maxNew,     \* max_new_tokens
          text,       \* the tokens of an item, prompt included
          promptLen,
          input,      \* cur_input
          targetCtx, draftCtx,  \* what target_past_kv and draft_past_kv hold
          proposal,   \* draft tokens the target has not judged yet
          finished,   \* items that have had an end-of-sequence token
          rejected    \* has any item rejected a draft so far
specVars == <<hasDraft, items, maxNew, text, promptLen, input, targetCtx,
              draftCtx, proposal, finished, rejected>>

SpecIdle(draft) ==
    /\ hasDraft = draft
    /\ items = {} /\ maxNew = 0 /\ promptLen = 0 /\ finished = {}
    /\ text = <<>> /\ input = <<>> /\ targetCtx = <<>> /\ draftCtx = <<>>
    /\ proposal = <<>> /\ rejected = FALSE

(* The beginning of _generate_speculative: fresh contexts, the whole prompt *)
(* as input.                                                                *)
SpecBegin(batch, prompt, max) ==
    LET all == 1 .. batch
    IN  /\ items' = all /\ maxNew' = max /\ promptLen' = prompt
        /\ text' = [b \in all |-> [i \in 1 .. prompt |-> "prompt"]]
        /\ input' = text'
        /\ targetCtx' = [b \in all |-> <<>>]
        /\ draftCtx' = targetCtx' /\ proposal' = targetCtx'
        /\ finished' = {} /\ rejected' = FALSE
        /\ UNCHANGED hasDraft

TotalNew == Len(text[1]) - promptLen
SpecOver == TotalNew >= maxNew \/ finished = items

(* _draft_generate: every proposed token but the last is fed to the draft.  *)
Propose ==
    /\ items # {} /\ ~SpecOver
    /\ hasDraft /\ proposal[1] = <<>>
    /\ proposal' \in [items -> [1 .. DraftTokens -> Vocabulary]]
    /\ draftCtx' = [b \in items |->
                      draftCtx[b] \o input[b] \o Front(proposal'[b])]
    /\ UNCHANGED <<hasDraft, items, maxNew, text, promptLen, input, targetCtx,
                   finished, rejected>>

(* _rejection_sample: the outcomes for the proposal p.  Drafts are taken up *)
(* to the first position at which an item rejects its own; there it draws   *)
(* another token (one the draft model was too sure of has no weight left),  *)
(* and the others keep theirs.  If all are taken the target adds one.       *)
Outcomes(p) ==
    LET taken(n, out) == \A b \in items : SubSeq(out[b], 1, n) = SubSeq(p[b], 1, n)
        lengths(n) == [items -> [1 .. n -> Vocabulary]]
    IN  {[new |-> out, reject |-> FALSE] :
            out \in {o \in lengths(DraftTokens + 1) : taken(DraftTokens, o)}}
        \cup UNION {{[new |-> out, reject |-> TRUE] :
            out \in {o \in lengths(n) : taken(n - 1, o) /\ \E b \in items : o[b][n] # p[b][n]}} :
                    n \in 1 .. DraftTokens}

(* Faulty variant: the first of the new tokens is fed next.                 *)
TakeFirst(new) ==
    /\ text' = [b \in items |-> text[b] \o new[b]]
    /\ finished' = finished \cup {b \in items : Eos \in ToSet(new[b])}
    /\ input' = [b \in items |-> <<new[b][1]>>]

(* The tail of the loop: the tokens are appended for every item, also for   *)
(* those that had their end of sequence before; the last one is fed next.   *)
Take(new) ==
    /\ text' = [b \in items |-> text[b] \o new[b]]
    /\ finished' = finished \cup {b \in items : Eos \in ToSet(new[b])}
    /\ input' = [b \in items |-> <<Last(new[b])>>]

(* _speculative_step: the target is fed with the input and all drafts.      *)
Verify ==
    /\ items # {} /\ hasDraft /\ proposal[1] # <<>>
    /\ targetCtx' = [b \in items |-> targetCtx[b] \o input[b] \o proposal[b]]
    /\ \E o \in Outcomes(proposal) :
          /\ Take(o.new)
          /\ rejected' = (rejected \/ o.reject)
    /\ proposal' = [b \in items |-> <<>>]
    /\ UNCHANGED <<hasDraft, items, maxNew, promptLen, draftCtx>>

(* _standard_step, without a draft model. *)
StandardStep ==
    /\ items # {} /\ ~SpecOver /\ ~hasDraft
    /\ targetCtx' = [b \in items |-> targetCtx[b] \o input[b]]
    /\ \E new \in [items -> [1 .. 1 -> Vocabulary]] : Take(new)
    /\ UNCHANGED <<hasDraft, items, maxNew, promptLen, draftCtx, proposal, rejected>>

SpecStep == Propose \/ Verify \/ StandardStep
-----------------------------------------------------------------------------
(* speculative.py:16: the output is that of the target model alone, which   *)
(* means that the target judges a token in the context of the tokens before *)
(* it: what it has been fed with and is fed next is the text.               *)
Lossless == items # {} => \A b \in items : targetCtx[b] \o input[b] = text[b]

(* That holds until a draft is rejected: the context then keeps the drafts  *)
(* that were discarded, in this request, and in no later one.               *)
LosslessUntilRejection == ~rejected => Lossless
=============================================================================
