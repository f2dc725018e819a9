---------------------------- MODULE MCTokenCache ----------------------------
(* Five rows in batches of two, one batch without words, at one path and    *)
(* three rows at another that a command may give for the same split; three  *)
(* commands.                                                                *)
EXTENDS TokenCache
MCRows(s) == [words |-> s[1], turns |-> s[2]]
MCPaths == {"old", "new", "held"}
MCSource == [p \in MCPaths \cup {"hub"} |->
               CASE p = "old"  -> <<MCRows(<<1, 1>>), MCRows(<<0, 0>>), MCRows(<<0, 0>>),
                                    MCRows(<<0, 0>>), MCRows(<<4, 2>>)>>
                 [] p = "new"  -> <<MCRows(<<2, 1>>), MCRows(<<0, 0>>), MCRows(<<1, 2>>)>>
                 [] p = "held" -> <<MCRows(<<2, 0>>), MCRows(<<3, 1>>)>>
                 [] p = "hub"  -> <<MCRows(<<1, 1>>)>>]
MCChoice(d, s, f, o) == [dataset |-> d, split |-> s, format |-> f, overwrite |-> o,
                         paths |-> [train |-> "old", val |-> "held"]]
MCMoved(s, o) == [MCChoice("local", s, "chatml", o) EXCEPT
                    !.paths = [train |-> "new", val |-> ""]]
MCChoices == {MCChoice("local", "both", "chatml", FALSE),
              MCChoice("local", "both", "chatml", TRUE),
              MCChoice("local", "", "alpaca", FALSE),
              MCChoice("hub", "val", "none", TRUE),
              MCMoved("both", TRUE), MCMoved("train", FALSE)}
=============================================================================
