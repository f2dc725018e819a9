---------------------------- MODULE MCTrainingJob ----------------------------
(* Two ranks.  Every way the synchronisation can be switched, shards that   *)
(* do and do not fill their windows and epochs without a step, with a       *)
(* logger that publishes nothing; and a few of them with a worker, a queue  *)
(* of one and an error of the store.                                        *)
EXTENDS TrainingJob
Fsdp == [strategy |-> "fsdp", static |-> FALSE, unused |-> FALSE, moe |-> FALSE]
Ddp == [Fsdp EXCEPT !.strategy = "ddp"]
MCWrappers == {Fsdp, Ddp, [Ddp EXCEPT !.static = TRUE],
               [Ddp EXCEPT !.static = TRUE, !.moe = TRUE]}
Sized(w, h, a, b, e) ==
    [strategy |-> w.strategy, helper |-> h, static |-> w.static,
     unused |-> w.unused, moe |-> w.moe, accum |-> a, epochs |-> e,
     maxSteps |-> 3, batches |-> b, saves |-> b # 1, interval |-> 3 - a]
Short == Sized(Ddp, TRUE, 1, 2, 1)
MCConfigs == {Short} \cup
    {Sized(w, h, a, b, 3) : w \in MCWrappers, h \in BOOLEAN,
                            a \in 1 .. 2, b \in {1, 2, 3}}

Publishing == [trackers |-> {"mlflow"}, dashboard |-> TRUE, rank |-> 0,
               allRanks |-> FALSE, importable |-> Trackers, storeUp |-> TRUE,
               fileOk |-> TRUE]
MCSettings == {Publishing, [Publishing EXCEPT !.fileOk = FALSE],
               [Publishing EXCEPT !.storeUp = FALSE]}
MCInit == JobInit /\ (Available(setting) <=> config = Short)
MCSpec == MCInit /\ [][JobNext]_jobVars /\ JobFairness
=============================================================================
