-------------------------- MODULE MCInferenceEngine --------------------------
(* Two layers; batches of one and two; prompts that fit into the residual   *)
(* window and ones that do not, requests long enough to evict from it, and  *)
(* speculation with two drafts in a batch of one and of two, with a draft   *)
(* model that does not load, and with none named.                           *)
EXTENDS InferenceEngine
Plain == [vllm |-> FALSE, param2 |-> FALSE, speculative |-> FALSE, named |-> FALSE,
          draft |-> FALSE]
MCSetups == {Plain, [Plain EXCEPT !.vllm = TRUE], [Plain EXCEPT !.param2 = TRUE],
             [Plain EXCEPT !.speculative = TRUE],
             [Plain EXCEPT !.speculative = TRUE, !.named = TRUE],
             [Plain EXCEPT !.speculative = TRUE, !.named = TRUE, !.draft = TRUE]}
MCRequests == [how : {"generate", "direct"}, batch : 1 .. 2, prompt : {1, 3}, max : {2}]
              \cup [how : {"param2"}, batch : {1}, prompt : {2}, max : {2}]

(* A speculating engine does not use its own cache.                         *)
MCInit == EngineInit /\ (Speculates => strategy = "static")
MCSpec == MCInit /\ [][EngineNext]_engineVars
=============================================================================
