----------------------------- MODULE ModelSetup -----------------------------
(***************************************************************************)
(* What a training worker does to a model before it trains it: build_model *)
(* (models/loader.py) with the introspection of the module tree            *)
(* (introspect.py) and LoRA (models/lora.py), then wrap_model with FSDP2   *)
(* or DDP (distributed/).                                                  *)
(*                                                                         *)
(* A model is the sequence of its modules in the order of named_modules(); *)
(* the name of a module is the sequence of the parts between the dots.     *)
(* Loading, PEFT and FSDP2 are external.                                   *)
(***************************************************************************)
EXTENDS Naturals, Sequences, FiniteSets, SequencesExt

CONSTANTS Models,  \* models, see ModelType
          Configs  \* configurations, see Config

(* list is an nn.ModuleList, linear an nn.Linear, leaf another module with  *)
(* a weight of its own, block a module without.                             *)
Module == [name : Seq(STRING), cls : STRING, kind : {"list", "linear", "leaf", "block"}]
(* moe is what _detect_moe_from_config finds, layers num_hidden_layers, and *)
(* routers are the modules that really are routers.                         *)
ModelType == [modules : Seq(Module), moe : BOOLEAN, layers : Nat,
              dtype : {"bfloat16", "float32"}, routers : SUBSET Seq(STRING)]
Config == [strategy : {"fsdp", "ddp"}, dtype : {"auto", "bfloat16", "float32"},
           quantized : BOOLEAN, lora : BOOLEAN, targets : SUBSET STRING,
           includeExperts : BOOLEAN, freezeRouter : BOOLEAN,
           shardExperts : BOOLEAN, layerCls : SUBSET STRING]

ASSUME SetupAssumption ==
    /\ Models \subseteq ModelType /\ Configs \subseteq Config
    /\ \A t \in Models : \A i, j \in DOMAIN t.modules :
           t.modules[i].name = t.modules[j].name => i = j

VARIABLES model, config,
          stage,     \* what is done next
          profile,   \* ModelProfile
          params,    \* parameters
          unit       \* unit[p.at] is the FSDP unit that holds the parameters at
                     \* this module
setupVars == <<model, config, stage, profile, params, unit>>
-----------------------------------------------------------------------------
(* The tree. *)
Modules(t) == ToSet(t.modules)
Leaf(n) == Last(n.name)
Parent(n) == Front(n.name)
ChildrenOf(t, n) == {k \in Modules(t) : Parent(k) = n.name}
Inside(name, n) == IsPrefix(n.name, name)
OfClass(t, c) == {n \in Modules(t) : n.cls = c}
Weights(t, n) == {k \in Modules(t) : k.kind \in {"linear", "leaf"} /\ Inside(k.name, n)}

(* The names the code looks for, as those of the modules modelled here that *)
(* match: by equality, or as a substring of the last part.                  *)
ExpertLeafNames == {"experts", "local_experts", "routed_experts"}
SharedExpertHints == {"shared_expert", "shared_experts", "shared_expert_gate"}
LooksLikeRouter == {"gate", "router", "shared_expert_gate"}
RouterKeywords == LooksLikeRouter \cup {"gate_proj"}

(* _find_moe_components *)
Containers(t) == {n \in Modules(t) : /\ Leaf(n) \in ExpertLeafNames /\ n.kind = "list"
                                     /\ Cardinality(ChildrenOf(t, n)) >= 2}
Shared(t) == {n \in Modules(t) : Leaf(n) \in SharedExpertHints /\ Weights(t, n) # {}}
SharedLists(t) == {n \in Shared(t) : n.kind = "list"}
Routed(t) == UNION {ChildrenOf(t, n) : n \in Containers(t)}
Experts(t) == Routed(t) \cup (UNION {ChildrenOf(t, n) : n \in SharedLists(t)})
                  \cup (Shared(t) \ SharedLists(t))
ExpertParents(t) == {Parent(n) : n \in Containers(t) \cup Shared(t)}

(* Faulty variant, which the code once had: any name with a router's        *)
(* keyword in it, anywhere in the model.                                    *)
RoutersAnywhere(t) == {n \in Modules(t) : Leaf(n) \in RouterKeywords}
Routers(t) == {n \in Modules(t) : /\ Parent(n) \in ExpertParents(t)
                                  /\ Leaf(n) \in LooksLikeRouter
                                  /\ Weights(t, n) # {}}

(* _find_decoder_layer_cls: a list of layers of one class and of the number *)
(* config.json gives, at a place where they usually are, or else the first  *)
(* there is.                                                                *)
UsualPlaces == {<<"model", "layers">>, <<"transformer", "h">>,
                <<"gpt_neox", "layers">>, <<"model", "decoder", "layers">>}
Layered(t, n) == /\ n.kind = "list"
                 /\ Cardinality({k.cls : k \in ChildrenOf(t, n)}) = 1
                 /\ t.layers \in {0, Cardinality(ChildrenOf(t, n))}
Candidates(t) == LET usual == {n \in Modules(t) : n.name \in UsualPlaces /\ Layered(t, n)}
                 IN  IF usual # {} THEN usual
                     ELSE {n \in Modules(t) : t.layers > 0 /\ Layered(t, n)}
First(t, S) == t.modules[CHOOSE i \in DOMAIN t.modules :
                            /\ t.modules[i] \in S
                            /\ \A j \in 1 .. i - 1 : t.modules[j] \notin S]
DecoderLayers(t) ==
    IF Candidates(t) = {} THEN {}
    ELSE LET layer == CHOOSE k \in ChildrenOf(t, First(t, Candidates(t))) : TRUE
         IN  OfClass(t, layer.cls)

(* _find_lora_targets: the linear modules of the first layer, by their last *)
(* name, without those that a router has.                                   *)
LoraTargets(t) ==
    IF DecoderLayers(t) = {} THEN {}
    ELSE {Leaf(n) : n \in {k \in Modules(t) : /\ k.kind = "linear"
                                              /\ Inside(k.name, First(t, DecoderLayers(t)))}}
             \ {Leaf(r) : r \in Routers(t)}

(* The models this code is written for have no expert inside an expert and  *)
(* no layer inside a layer, be it found or named in the configuration, and  *)
(* no expert is named as a layer.                                           *)
Apart(S) == \A m, n \in S : Inside(m.name, n) => m = n
ASSUME NestingAssumption ==
    \A t \in Models :
        /\ Apart(Experts(t)) /\ Apart(DecoderLayers(t))
        /\ \A c \in UNION {f.layerCls : f \in Configs} :
               Apart(OfClass(t, c)) /\ OfClass(t, c) \cap Experts(t) = {}

(* RoutersFrozen is for models each of whose routers is found by its place  *)
(* or has, anywhere in its name, a part to be known by.  A router with      *)
(* neither would train: the code has no other way to tell it.               *)
ASSUME RouterAssumption ==
    \A t \in Models : \A r \in t.routers :
        (\E n \in Routers(t) : n.name = r) \/ ToSet(r) \cap RouterKeywords # {}

(* The layers of a model have the linear modules of the first one, as far   *)
(* as their last names go, and only routers are called as routers are.      *)
ASSUME LikenessAssumption ==
    \A t \in Models : \A l \in DecoderLayers(t) : \A n \in Modules(t) :
        n.kind = "linear" /\ Inside(n.name, l) =>
            IF n.name \in t.routers
            THEN Experts(t) # {} => \E r \in Routers(t) : Leaf(r) = Leaf(n)
            ELSE /\ Leaf(n) \notin LooksLikeRouter
                 /\ \E k \in Modules(t) : /\ k.kind = "linear" /\ Leaf(k) = Leaf(n)
                                          /\ Inside(k.name, First(t, DecoderLayers(t)))

NoProfile == [isMoe |-> FALSE, experts |-> {}, routers |-> {}, layers |-> {},
              targets |-> {}, dtype |-> "bfloat16"]
-----------------------------------------------------------------------------
(* The order in which worker_fn, build_model, apply_lora and wrap_fsdp2 do  *)
(* things.  Faulty variants: routers frozen before the cast; the root       *)
(* sharded first.                                                           *)
OrderFreezeFirst == <<"load", "introspect", "lora", "freeze", "cast", "experts",
                      "layers", "root", "done">>
OrderRootFirst == <<"load", "introspect", "lora", "cast", "freeze", "root",
                    "layers", "experts", "done">>
Order == <<"load", "introspect", "lora", "cast", "freeze", "experts",
           "layers", "root", "done">>
Advance == stage' = Order[1 + CHOOSE i \in DOMAIN Order : Order[i] = stage]

SetupInit ==
    /\ model \in Models /\ config \in Configs
    /\ stage = "load"
    /\ profile = NoProfile
    /\ params = {} /\ unit = << >>

(* build_quantization_config refuses FSDP2.  4-bit weights are integers.    *)
LoadDtype == IF config.quantized THEN "int4"
             ELSE IF config.dtype = "auto" THEN model.dtype ELSE config.dtype
LoadModel ==
    /\ stage = "load"
    /\ IF config.quantized /\ config.strategy = "fsdp"
       THEN stage' = "failed" /\ UNCHANGED params
       ELSE /\ params' = {[at |-> n.name, part |-> "base", dtype |-> LoadDtype,
                           trainable |-> TRUE] :
                             n \in {k \in Modules(model) : k.kind \in {"linear", "leaf"}}}
            /\ Advance
    /\ UNCHANGED <<model, config, profile, unit>>

Introspect ==
    /\ stage = "introspect"
    /\ profile' = [isMoe |-> model.moe \/ Experts(model) # {},
                   experts |-> Experts(model), routers |-> Routers(model),
                   layers |-> DecoderLayers(model), targets |-> LoraTargets(model),
                   dtype |-> IF config.dtype = "auto" THEN model.dtype ELSE config.dtype]
    /\ Advance
    /\ UNCHANGED <<model, config, params, unit>>

(* apply_lora: targets of the configuration, or those found; PEFT's own if  *)
(* none were.  Experts are added to configured targets only.                *)
AutoTargets == config.targets = {"auto"}
PeftDefaults == {"q_proj", "v_proj"}
Sample == First(model, IF Routed(model) # {} THEN Routed(model) ELSE profile.experts)
ExpertLinears == {Leaf(n) : n \in {k \in Modules(model) :
                     k.kind = "linear" /\ profile.experts # {} /\ Inside(k.name, Sample)}}
Targets == IF AutoTargets THEN IF profile.targets = {} THEN PeftDefaults ELSE profile.targets
           ELSE config.targets \cup
                (IF profile.isMoe /\ config.includeExperts THEN ExpertLinears ELSE {})

(* get_peft_model: everything is frozen, and each linear module with a      *)
(* target's name gets an adapter in float32; a target that is no linear     *)
(* module, or none at all, is an error.                                     *)
Adapted == {n \in Modules(model) : Leaf(n) \in Targets /\ n.kind # "list"}
ApplyLora ==
    /\ stage = "lora"
    /\ IF ~config.lora
       THEN Advance /\ UNCHANGED params
       ELSE IF Adapted = {} \/ \E n \in Adapted : n.kind # "linear"
       THEN stage' = "failed" /\ UNCHANGED params
       ELSE /\ params' = {[p EXCEPT !.trainable = FALSE] : p \in params} \cup
                         {[at |-> n.name, part |-> "lora", dtype |-> "float32",
                           trainable |-> TRUE] : n \in Adapted}
            /\ Advance
    /\ UNCHANGED <<model, config, profile, unit>>

(* Under FSDP2 what is trainable takes the dtype of the base. *)
CastAdapters ==
    /\ stage = "cast"
    /\ params' = IF config.lora /\ config.strategy = "fsdp"
                 THEN {IF p.trainable THEN [p EXCEPT !.dtype = profile.dtype] ELSE p :
                         p \in params}
                 ELSE params
    /\ Advance
    /\ UNCHANGED <<model, config, profile, unit>>

(* _freeze_router_weights: what is in a router that was found, and whatever *)
(* has a router's keyword in its name.                                      *)
InRouter(p) == \E r \in profile.routers : Inside(p.at, r)
(* Faulty variant: the names that introspection has found, and no other.    *)
RouterParamFound(p) == InRouter(p)
RouterParam(p) == InRouter(p) \/ ToSet(p.at) \cap RouterKeywords # {}
FreezeRouters ==
    /\ stage = "freeze"
    /\ params' = IF config.lora /\ profile.isMoe /\ config.freezeRouter
                 THEN {IF RouterParam(p) THEN [p EXCEPT !.trainable = FALSE] ELSE p :
                         p \in params}
                 ELSE params
    /\ Advance
    /\ UNCHANGED <<model, config, profile, unit>>

(* fully_shard of the modules S: a unit holds the parameters inside its     *)
(* module that no unit holds yet.                                           *)
FullyShard(S) ==
    LET new == {p \in params : p.at \notin DOMAIN unit /\ \E n \in S : Inside(p.at, n)}
        of(at) == (CHOOSE n \in S : Inside(at, n)).name
    IN  unit' = [at \in DOMAIN unit \cup {p.at : p \in new} |->
                   IF at \in DOMAIN unit THEN unit[at] ELSE of(at)]

ShardExperts ==
    /\ stage = "experts"
    /\ IF config.strategy = "fsdp" /\ profile.isMoe /\ config.shardExperts
       THEN FullyShard(profile.experts) ELSE UNCHANGED unit
    /\ Advance
    /\ UNCHANGED <<model, config, profile, params>>

(* _resolve_decoder_cls: the first class of the model that the              *)
(* configuration names or, if it names none there is, the one found.        *)
Named == {n \in Modules(model) : n.cls \in config.layerCls}
Layers == IF Named = {} THEN profile.layers ELSE OfClass(model, First(model, Named).cls)
ShardLayers ==
    /\ stage = "layers"
    /\ IF config.strategy = "fsdp" THEN FullyShard(Layers) ELSE UNCHANGED unit
    /\ Advance
    /\ UNCHANGED <<model, config, profile, params>>

ShardRoot ==
    /\ stage = "root"
    /\ IF config.strategy = "fsdp"
       THEN FullyShard({[name |-> <<>>, cls |-> "model", kind |-> "block"]})
       ELSE UNCHANGED unit
    /\ Advance
    /\ UNCHANGED <<model, config, profile, params>>

SetUp == stage \in {"done", "failed"} /\ UNCHANGED setupVars
SetupNext == \/ LoadModel \/ Introspect \/ ApplyLora \/ CastAdapters \/ FreezeRouters
             \/ ShardExperts \/ ShardLayers \/ ShardRoot \/ SetUp

SetupSpec == SetupInit /\ [][SetupNext]_setupVars
-----------------------------------------------------------------------------
Done == stage = "done"

(* lora.py:9-14: FSDP2 fails unless all parameters of a unit have one       *)
(* dtype; under DDP adapters that train keep float32 for AdamW.             *)
DtypesFit ==
    Done => IF config.strategy = "fsdp"
            THEN \A p, q \in params : unit[p.at] = unit[q.at] => p.dtype = q.dtype
            ELSE \A p \in params : p.part = "lora" /\ p.trainable => p.dtype = "float32"

(* fsdp.py:8: the forward pass gathers only the experts it uses.  The       *)
(* parameters of an expert are a unit, a layer's others are one, and every  *)
(* parameter is in a unit.                                                  *)
ExpertsGatheredAlone ==
    Done /\ config.strategy = "fsdp" /\ config.shardExperts =>
        \A p \in params :
            LET mine == {n \in profile.experts : Inside(p.at, n)}
            IN  /\ p.at \in DOMAIN unit
                /\ \A n \in mine : unit[p.at] = n.name
                /\ mine = {} => \A n \in Layers : Inside(p.at, n) => unit[p.at] = n.name

(* lora.py:138: no router of a mixture of experts trains under LoRA, be it  *)
(* found by its place in the tree or not, and be its name among the targets *)
(* or not.                                                                  *)
RoutersFrozen ==
    Done /\ config.lora /\ config.freezeRouter /\ profile.isMoe =>
        \A p \in params : (\E r \in model.routers : IsPrefix(r, p.at)) => ~p.trainable

(* introspect.py:28: every projection of the decoder layers gets an adapter *)
(* and, where the experts are found, no router does.                        *)
AutoReachesProjections ==
    Done /\ config.lora /\ AutoTargets /\ profile.layers # {} =>
        \A n \in Modules(model) :
            n.kind = "linear" /\ (\E l \in profile.layers : Inside(n.name, l)) =>
                IF n.name \in model.routers
                THEN profile.experts # {} => ~\E p \in params : p.at = n.name /\ p.part = "lora"
                ELSE \E p \in params : p.at = n.name /\ p.part = "lora"

(* ARCHITECTURE.md:289: keywords freeze something only if no router was     *)
(* found by its place.                                                      *)
KeywordsOnlyAsFallback ==
    Done /\ config.lora /\ profile.routers # {} =>
        \A p \in params : p.part = "lora" /\ ~p.trainable => InRouter(p)
=============================================================================
