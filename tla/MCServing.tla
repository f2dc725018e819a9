------------------------------ MODULE MCServing ------------------------------
(* Two clients, one of which may leave, and one exception: a request waits  *)
(* behind one that ends, fails, hangs or is left.  The stop string "aa" is  *)
(* encoded as two tokens, the first of which the prompt ends with; the      *)
(* token "aa" has the same text.                                            *)
EXTENDS Serving
MCPrompt == <<"a">>
MCStopStrings == {"aa"}
MCEncode == [s \in MCStopStrings |-> <<"a", "a">>]
MCStopSets == {{}, {"aa"}}
CONSTANT Plain   \* the client that gives no stop string
MCInit == ServeInit /\ stops[Plain] = {}
MCSpec == MCInit /\ [][ServeNext]_serveVars /\ ServeFairness
=============================================================================
