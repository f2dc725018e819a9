--------------------------- MODULE InferenceEngine ---------------------------
(***************************************************************************)
(* The inference engine (inference/engine.py): loading of a backend, and   *)
(* requests one after the other, each a prompt that goes through all       *)
(* layers of the model and then one token at a time, with the engine's one *)
(* KVCache, or a Speculative loop.  A request may raise anywhere on the    *)
(* way; the next one finds the cache as it was left.                       *)
(*                                                                         *)
(* The model and its generate() are external: it updates the layers in     *)
(* order, each once for a token, and never calls advance().                *)
(***************************************************************************)
EXTENDS KVCache, Speculative

CONSTANTS Setups,       \* see Setup
          Requests,     \* see Request
          MaxRequests,  \* bound: requests
          MaxDeaths     \* bound: exceptions out of the model

(* speculative is what the configuration enables, named whether it names a  *)
(* draft model, and draft whether that model loads.                         *)
Setup == [vllm : BOOLEAN, param2 : BOOLEAN, speculative : BOOLEAN, named : BOOLEAN,
          draft : BOOLEAN]
(* "direct" is a caller that drives the cache itself, as the tests do.      *)
Request == [how : {"generate", "param2", "direct"}, batch : Nat \ {0},
            prompt : Nat \ {0}, max : Nat \ {0}]
ASSUME EngineAssumption == /\ Setups \subseteq Setup /\ Requests \subseteq Request
                           /\ MaxRequests \in Nat /\ MaxDeaths \in Nat

VARIABLES setup,    \* configuration, and what is installed
          backend,  \* _backend, "none" before load()
          phase,    \* what the engine is at
          request, number,  \* the current request and its number
          layer,    \* the layer whose update is next
          feed,     \* tokens that go through the layers
          context,  \* tokens that went through before
          produced, deaths
engineVars == <<cacheVars, specVars, setup, backend, phase, request, number,
                layer, feed, context, produced, deaths>>

EngineInit ==
    /\ CacheInit
    /\ setup \in Setups /\ SpecIdle(setup.draft)
    /\ backend = "none" /\ phase = "idle"
    /\ request = (CHOOSE q \in Requests : TRUE) /\ number = 0
    /\ layer = 0 /\ feed = <<>> /\ context = <<>>
    /\ produced = 0 /\ deaths = 0

(* load(): vLLM if it is there and nothing speculates; if its construction  *)
(* raises, the Hugging Face backend.                                        *)
Load ==
    /\ backend = "none"
    /\ \/ setup.vllm /\ ~setup.speculative /\ backend' = "vllm"
       \/ backend' = "hf"
    /\ UNCHANGED <<cacheVars, specVars, setup, phase, request, number, layer,
                   feed, context, produced, deaths>>

(* The model is Param2, whose generate() takes its own cache.               *)
Bypasses == setup.param2
Token(i) == <<number, i>>

Accept(q) ==
    /\ backend = "hf" /\ phase = "idle" /\ number < MaxRequests
    /\ Reset      \* the cache is reset before every request
    /\ request' = q /\ number' = number + 1
    /\ feed' = [i \in 1 .. q.prompt |-> <<number + 1, i>>]
    /\ layer' = 1 /\ context' = <<>> /\ produced' = 0
    /\ UNCHANGED <<setup, backend, deaths>>

(* build_speculative_decoder: without the name of a draft model there is no *)
(* decoder; with one that does not load there is one that drafts nothing.   *)
Speculates == setup.speculative /\ setup.named

(* generate(): a speculative loop with caches of the two models, a          *)
(* generate() of the model's own, or one with the engine's cache.           *)
Begin(q) ==
    /\ q.how # "param2"
    /\ Accept(q)
    /\ LET spec == Speculates /\ q.how = "generate"
       IN  /\ phase' = IF spec THEN "speculate"
                       ELSE IF Bypasses /\ q.how = "generate" THEN "idle" ELSE "forward"
           /\ IF spec THEN SpecBegin(q.batch, q.prompt, q.max) ELSE UNCHANGED specVars

(* generate_param2(): one prompt at a time, always with the engine's cache, *)
(* speculation or not.                                                      *)
BeginParam2(q) ==
    /\ q.how = "param2" /\ q.batch = 1
    /\ Accept(q)
    /\ phase' = "forward"
    /\ UNCHANGED specVars

(* vLLM takes the whole request; generate_param2 will have the other one.   *)
Delegate(q) ==
    /\ backend = "vllm" /\ number < MaxRequests
    /\ number' = number + 1 /\ request' = q
    /\ UNCHANGED <<cacheVars, specVars, setup, backend, phase, layer, feed,
                   context, produced, deaths>>

Attend ==
    /\ phase = "forward" /\ layer <= NumLayers
    /\ Update(layer, feed, request.batch)
    /\ layer' = layer + 1
    /\ UNCHANGED <<specVars, setup, backend, phase, request, number, feed,
                   context, produced, deaths>>

(* All layers are through: the next token is drawn, unless it is the last.  *)
Sample ==
    /\ phase = "forward" /\ layer = NumLayers + 1
    /\ context' = context \o feed
    /\ produced' = produced + 1
    /\ IF request.how = "direct" THEN Advance(Len(feed)) ELSE UNCHANGED cacheVars
    /\ \/ produced' < request.max /\ phase' = "forward"
       \/ phase' = "idle"                \* the end of the sequence, or enough
    /\ feed' = <<Token(Len(context') + 1)>> /\ layer' = 1
    /\ UNCHANGED <<specVars, setup, backend, request, number, deaths>>

Speculate ==
    /\ phase = "speculate"
    /\ IF SpecOver THEN phase' = "idle" /\ UNCHANGED specVars
                   ELSE SpecStep /\ UNCHANGED phase
    /\ UNCHANGED <<cacheVars, setup, backend, request, number, layer, feed,
                   context, produced, deaths>>

(* The cache raises, or the model does. *)
CacheFails ==
    /\ phase = "forward" /\ layer <= NumLayers
    /\ UpdateRaises(layer, feed, request.batch)
    /\ phase' = "idle"
    /\ UNCHANGED <<specVars, setup, backend, request, number, layer, feed,
                   context, produced, deaths>>
ModelFails ==
    /\ phase # "idle" /\ deaths < MaxDeaths
    /\ deaths' = deaths + 1 /\ phase' = "idle"
    /\ UNCHANGED <<cacheVars, specVars, setup, backend, request, number, layer,
                   feed, context, produced>>

EngineOver == phase = "idle" /\ number = MaxRequests /\ UNCHANGED engineVars
EngineNext ==
    \/ Load \/ (\E q \in Requests : Begin(q) \/ BeginParam2(q) \/ Delegate(q))
    \/ Attend \/ Sample \/ Speculate \/ CacheFails \/ ModelFails \/ EngineOver
EngineSpec == EngineInit /\ [][EngineNext]_engineVars
-----------------------------------------------------------------------------
(* What a layer attends to is the whole context of its request in order and *)
(* nothing else, whatever batch or exception came before: with turboquant,  *)
(* exactly the last ResidualWindow tokens as they were; with the static     *)
(* cache all of them, if somebody advances it once a forward pass is over.  *)
(* (generate() never does, and then the static cache returns only the       *)
(* tokens of this pass.)                                                    *)
ReadsWholeContext ==
    phase = "forward" /\ (strategy = "turboquant" \/ request.how = "direct") =>
        LET all == context \o feed
            fresh(i) == strategy = "static" \/ i > Len(all) - ResidualWindow
        IN  \A l \in 1 .. layer - 1 :
                read[l] = [i \in 1 .. Len(all) |-> IF fresh(i) THEN Exact(all[i])
                                                               ELSE Lossy(all[i])]
=============================================================================
