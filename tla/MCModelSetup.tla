---------------------------- MODULE MCModelSetup ----------------------------
(* Four architectures with two layers each: dense; experts beside a gate;   *)
(* a dense layer below one with routed and shared experts and two gates;    *)
(* experts fused into one module, which only config.json tells of.  The     *)
(* layers are found, or named; a class that is named may be no layer, and   *)
(* may be in no model.                                                      *)
EXTENDS ModelSetup

Mod(name, cls, kind) == [name |-> name, cls |-> cls, kind |-> kind]
Layer(i) == <<"model", "layers", i>>
Linears(at, names) == [k \in DOMAIN names |-> Mod(Append(at, names[k]), "Linear", "linear")]
MLP(at) == <<Mod(at, "MLP", "block")>> \o Linears(at, <<"gate_proj", "down_proj">>)
Attention(i) == Linears(Layer(i), <<"q_proj", "v_proj">>)
Trunk(first, second) ==
    <<Mod(<<"model", "embed">>, "Embedding", "leaf"),
      Mod(<<"model", "layers">>, "ModuleList", "list"),
      Mod(Layer("0"), "Layer", "block")>> \o Attention("0") \o first
    \o <<Mod(Layer("1"), "Layer", "block")>> \o Attention("1") \o second
    \o <<Mod(<<"lm_head">>, "Linear", "linear")>>
ExpertPair(at) == <<Mod(Append(at, "experts"), "ModuleList", "list")>>
    \o MLP(at \o <<"experts", "0">>) \o MLP(at \o <<"experts", "1">>)
At(i) == Append(Layer(i), "mlp")
Sparse(i, kind) == <<Mod(At(i), "MoE", "block"), Mod(Append(At(i), "gate"), "Gate", kind)>>
                       \o ExpertPair(At(i))
SharedPart(i) == MLP(Append(At(i), "shared_expert"))
    \o Linears(At(i), <<"shared_expert_gate">>)
Fused(i) == <<Mod(At(i), "MoE", "block")>> \o Linears(At(i), <<"gate">>)
    \o <<Mod(Append(At(i), "experts"), "FusedExperts", "leaf")>>
Gate(i) == Append(At(i), "gate")

MCModel(modules, moe, dtype, routers) ==
    [modules |-> modules, moe |-> moe, layers |-> 2, dtype |-> dtype, routers |-> routers]
MCModels ==
    {MCModel(Trunk(MLP(At("0")), MLP(At("1"))), FALSE, "bfloat16", {}),
     MCModel(Trunk(Sparse("0", "linear"), Sparse("1", "linear")), TRUE, "bfloat16",
             {Gate("0"), Gate("1")}),
     MCModel(Trunk(MLP(At("0")), Sparse("1", "leaf") \o SharedPart("1")), TRUE,
             "float32", {Gate("1"), Append(At("1"), "shared_expert_gate")}),
     MCModel(Trunk(Fused("0"), Fused("1")), TRUE, "bfloat16", {Gate("0"), Gate("1")})}
MCConfigs ==
    [strategy : {"fsdp", "ddp"}, dtype : {"auto", "bfloat16"}, quantized : BOOLEAN,
     lora : BOOLEAN, targets : {{"auto"}, {"q_proj"}, {"gate", "v_proj"}},
     includeExperts : BOOLEAN, freezeRouter : BOOLEAN, shardExperts : BOOLEAN,
     layerCls : {{}, {"Layer", "Norm"}, {"MoE", "Norm"}}]
=============================================================================
