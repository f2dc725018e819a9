------------------------------- MODULE Serving -------------------------------
(***************************************************************************)
(* One replica of the chat service (serve/): Ray Serve hands it requests,  *)
(* LLMDeployment formats the answer, at once or as a stream of events, and *)
(* the engine generates.  With the Hugging Face backend a daemon thread    *)
(* runs model.generate() and fills a TextIteratorStreamer that the request *)
(* reads through asyncio.to_thread; vLLM has its own loop and is read by   *)
(* differences of its text.                                                *)
(*                                                                         *)
(* Ray Serve, the model and vLLM are external: a request whose client      *)
(* leaves is cancelled, generation may raise at any token.                 *)
(***************************************************************************)
EXTENDS Naturals, Sequences, SequencesExt, FiniteSets

CONSTANTS Clients,       \* each sends one request
          Backends,      \* cfg.serve.backend
          MaxConcurrent, \* serve.hf.max_concurrent_queries
          Vocabulary, Eos,
          Prompt,        \* the tokens of the prompt
          StopStrings,   \* the strings that requests give as stop
          Encode,        \* the tokens a stop string is made of, encoded alone
          StopSets,      \* what a request gives
          MaxNew,        \* max_tokens
          MaxErrors,     \* bound: exceptions in generation
          MaxLeaves      \* bound: clients that leave

ASSUME ServingAssumption ==
    /\ IsFiniteSet(Clients)
    /\ Backends \subseteq {"hf", "vllm"} /\ MaxConcurrent \in Nat \ {0}
    /\ Eos \in Vocabulary /\ Prompt \in Seq(Vocabulary)
    /\ Encode \in [StopStrings -> Seq(Vocabulary)]
    /\ StopSets \subseteq SUBSET StopStrings
    /\ MaxNew \in Nat \ {0} /\ MaxErrors \in Nat /\ MaxLeaves \in Nat

VARIABLES backend,
          stream, stops, \* of the requests: stream, stop
          at,            \* where the request of a client is
          thread,        \* the generation for it
          text,          \* what has been generated; with vLLM, for the client
          pipe,          \* the queue of the streamer
          seen,          \* prev_len of the vLLM wrapper
          body,          \* generate_full: what has been collected
          sent           \* what the client has received
serveVars == <<backend, stream, stops, at, thread, text, pipe, seen, body, sent>>
request == <<backend, stream, stops>>

END == "END"      \* the streamer's stop signal, which is no token
ASSUME EndAssumption == END \notin Vocabulary
Terminal == <<"finish", "DONE">>

(* Requests that count against max_ongoing_requests. *)
Ongoing == {c \in Clients : at[c] \in {"role", "start", "drain", "close"}}
Left == {c \in Clients : at[c] = "left"}
Generating == {c \in Clients : thread[c] \in {"run", "ending"}}
Raised == {c \in Clients : thread[c] = "dead"}
Goto(c, there) == at' = [at EXCEPT ![c] = there]

ServeInit ==
    /\ backend \in Backends
    /\ stream \in [Clients -> BOOLEAN] /\ stops \in [Clients -> StopSets]
    /\ at = [c \in Clients |-> "out"]
    /\ thread = [c \in Clients |-> "none"]
    /\ text = [c \in Clients |-> <<>>] /\ pipe = [c \in Clients |-> <<>>]
    /\ seen = [c \in Clients |-> 0]
    /\ body = [c \in Clients |-> <<>>] /\ sent = [c \in Clients |-> <<>>]
-----------------------------------------------------------------------------
Post(c) ==
    /\ at[c] = "out"
    /\ Goto(c, "queued")
    /\ UNCHANGED <<request, thread, text, pipe, seen, body, sent>>

(* Faulty variant: the cap is left out for both backends.                   *)
DispatchUncapped(c) ==
    /\ at[c] = "queued"
    /\ Goto(c, IF stream[c] THEN "role" ELSE "start")
    /\ UNCHANGED <<request, thread, text, pipe, seen, body, sent>>

(* build_app caps the concurrent requests of the Hugging Face backend; what *)
(* is over the cap waits.  chat_completions branches on stream.             *)
Dispatch(c) ==
    /\ at[c] = "queued"
    /\ backend = "hf" => Cardinality(Ongoing) < MaxConcurrent
    /\ Goto(c, IF stream[c] THEN "role" ELSE "start")
    /\ UNCHANGED <<request, thread, text, pipe, seen, body, sent>>

SendRole(c) ==
    /\ at[c] = "role"
    /\ sent' = [sent EXCEPT ![c] = <<"role">>]
    /\ Goto(c, "start")
    /\ UNCHANGED <<request, thread, text, pipe, seen, body>>

Start(c) ==
    /\ at[c] = "start"
    /\ thread' = [thread EXCEPT ![c] = "run"]
    /\ Goto(c, "drain")
    /\ UNCHANGED <<request, text, pipe, seen, body, sent>>

(* stop_ids_list: each string encoded by itself.  The same text may come in *)
(* other tokens, and such an occurrence is none for _StopOnStrings.         *)
StopIds(c) == {Encode[s] : s \in stops[c]} \ {<<>>}

(* Faulty variant: the prompt is looked at as well.                         *)
StopsInAll(c, new) == \E ids \in StopIds(c) : IsSuffix(ids, Prompt \o new)

(* _StopOnStrings: the tokens of a stop string are the last ones generated; *)
(* they have been handed out by then.                                       *)
StopsOn(c, new) == \E ids \in StopIds(c) : IsSuffix(ids, new)
Ends(c, new) == \/ Len(new) = MaxNew \/ Last(new) = Eos
                \/ backend = "hf" /\ StopsOn(c, new)

(* A token; it is in the streamer before the criteria are looked at.        *)
Generate(c) ==
    /\ thread[c] = "run"
    /\ \E tok \in Vocabulary :
          LET new == Append(text[c], tok)
          IN  /\ text' = [text EXCEPT ![c] = new]
              /\ thread' = [thread EXCEPT ![c] = IF Ends(c, new) THEN "ending" ELSE "run"]
              /\ pipe' = IF backend = "hf" THEN [pipe EXCEPT ![c] = Append(@, tok)] ELSE pipe
    /\ UNCHANGED <<request, at, seen, body, sent>>

(* vLLM is given the strings.  It looks for them in the text itself, ends   *)
(* at one it finds, and hands out nothing of it.                            *)
StopAtText(c) ==
    /\ thread[c] = "run" /\ backend = "vllm" /\ stops[c] # {}
    /\ thread' = [thread EXCEPT ![c] = "ending"]
    /\ UNCHANGED <<request, at, text, pipe, seen, body, sent>>

(* Faulty variant: nothing tells the reader that this was all.              *)
EndSilently(c) ==
    /\ thread[c] = "ending"
    /\ thread' = [thread EXCEPT ![c] = "over"]
    /\ UNCHANGED <<request, at, text, pipe, seen, body, sent>>

EndGeneration(c) ==
    /\ thread[c] = "ending"
    /\ thread' = [thread EXCEPT ![c] = "over"]
    /\ pipe' = IF backend = "hf" THEN [pipe EXCEPT ![c] = Append(@, END)] ELSE pipe
    /\ UNCHANGED <<request, at, text, seen, body, sent>>

(* An exception ends the thread without a word to the streamer.             *)
Raise(c) ==
    /\ thread[c] = "run" /\ Cardinality(Raised) < MaxErrors
    /\ thread' = [thread EXCEPT ![c] = "dead"]
    /\ UNCHANGED <<request, at, text, pipe, seen, body, sent>>

(* New text goes to the client as an event, or to the rest of the answer;   *)
(* the token that ends the sequence, after which none comes, is no text.    *)
Visible(s) == IF s # <<>> /\ Last(s) = Eos THEN Front(s) ELSE s
Deliver(c, new) ==
    IF stream[c] THEN sent' = [sent EXCEPT ![c] = @ \o Visible(new)] /\ UNCHANGED body
                 ELSE body' = [body EXCEPT ![c] = @ \o Visible(new)] /\ UNCHANGED sent

ReadStreamer(c) ==
    /\ at[c] = "drain" /\ backend = "hf" /\ pipe[c] # <<>>
    /\ pipe' = [pipe EXCEPT ![c] = Tail(@)]
    /\ IF Head(pipe[c]) = END
       THEN Goto(c, "close") /\ UNCHANGED <<body, sent>>
       ELSE Deliver(c, <<Head(pipe[c])>>) /\ UNCHANGED at
    /\ UNCHANGED <<request, thread, text, seen>>

(* vLLM hands out the text so far; the part behind prev_len is new.         *)
ReadDelta(c) ==
    /\ at[c] = "drain" /\ backend = "vllm" /\ seen[c] < Len(text[c])
    /\ Deliver(c, SubSeq(text[c], seen[c] + 1, Len(text[c])))
    /\ seen' = [seen EXCEPT ![c] = Len(text[c])]
    /\ UNCHANGED <<request, at, thread, text, pipe>>
ReadEnd(c) ==
    /\ at[c] = "drain" /\ backend = "vllm" /\ seen[c] = Len(text[c])
    /\ thread[c] = "over"
    /\ Goto(c, "close")
    /\ UNCHANGED <<request, thread, text, pipe, seen, body, sent>>

(* vLLM's exceptions do arrive: a stream ends as if it were finished, a     *)
(* single answer becomes status 500.                                        *)
ReadError(c) ==
    /\ at[c] = "drain" /\ backend = "vllm" /\ thread[c] = "dead"
    /\ Goto(c, IF stream[c] THEN "close" ELSE "failed")
    /\ UNCHANGED <<request, thread, text, pipe, seen, body, sent>>

Close(c) ==
    /\ at[c] = "close"
    /\ sent' = [sent EXCEPT ![c] = IF stream[c] THEN @ \o Terminal ELSE body[c]]
    /\ Goto(c, "answered")
    /\ UNCHANGED <<request, thread, text, pipe, seen, body>>

(* The client closes its connection: the request is cancelled, the thread   *)
(* of the Hugging Face backend goes on; vLLM is told.                       *)
Leave(c) ==
    /\ at[c] = "queued" \/ c \in Ongoing
    /\ Cardinality(Left) < MaxLeaves
    /\ Goto(c, "left")
    /\ thread' = IF backend = "vllm" THEN [thread EXCEPT ![c] = "none"] ELSE thread
    /\ UNCHANGED <<request, text, pipe, seen, body, sent>>

Handle(c) == SendRole(c) \/ Start(c) \/ ReadStreamer(c) \/ ReadDelta(c)
             \/ ReadEnd(c) \/ ReadError(c) \/ Close(c)
GenerateStep(c) == Generate(c) \/ EndGeneration(c)
(* A streamer that nobody ends is read for ever.                            *)
Stuck(c) == at[c] = "drain" /\ thread[c] = "dead" /\ pipe[c] = <<>>
Quiet ==
    /\ \A c \in Clients : \/ at[c] \in {"answered", "failed", "left"} \/ Stuck(c)
                          \/ at[c] = "queued" /\ Ongoing # {}
    /\ Generating = {} /\ UNCHANGED serveVars
ServeNext == \/ \E c \in Clients : \/ Post(c) \/ Dispatch(c) \/ Handle(c)
                                   \/ GenerateStep(c) \/ StopAtText(c)
                                   \/ Raise(c) \/ Leave(c)
             \/ Quiet

(* Ray Serve hands out what waits, the event loop and the threads run.      *)
ServeFairness == \A c \in Clients :
    WF_serveVars(Dispatch(c)) /\ WF_serveVars(Handle(c)) /\ WF_serveVars(GenerateStep(c))
ServeSpec == ServeInit /\ [][ServeNext]_serveVars /\ ServeFairness
-----------------------------------------------------------------------------
(* An answer is the text that the backend handed out, once and in order, in *)
(* its frame of events if it is a stream (cut short where vLLM raised).     *)
(* With the Hugging Face backend that text ends at the first place where    *)
(* its last tokens are a stop string's own, which stay in the answer, at    *)
(* the end of the sequence or at max_tokens, whichever is first; where vLLM *)
(* ends is its own affair.                                                  *)
Frame(c, words) == IF stream[c] THEN <<"role">> \o words \o Terminal ELSE words
Wanted(c, words) ==
    LET over(n) == \/ n = MaxNew \/ words[n] = Eos
                   \/ \E ids \in StopIds(c) : \E k \in 1 .. n : SubSeq(words, k, n) = ids
    IN  /\ words # <<>> /\ over(Len(words))
        /\ \A n \in 1 .. Len(words) - 1 : ~over(n)
AnswersWhole ==
    \A c \in Clients : at[c] = "answered" =>
        \/ /\ thread[c] = "over" /\ sent[c] = Frame(c, Visible(text[c]))
           /\ backend = "hf" => Wanted(c, text[c])
        \/ /\ thread[c] = "dead" /\ stream[c]
           /\ \E n \in 0 .. Len(text[c]) : sent[c] = Frame(c, Visible(SubSeq(text[c], 1, n)))

(* serve/engine.py:211: requests are serialised, as generate() is not       *)
(* thread-safe.  That holds as long as no client leaves: nothing stops the  *)
(* thread of a request that was cancelled, and the request counts no more.  *)
OneGenerationPerStayer ==
    backend = "hf" => Cardinality(Generating \ Left) <= MaxConcurrent

(* Every request that waits is answered, refused or left, unless a thread   *)
(* has raised with the Hugging Face backend: nobody ends its streamer, the  *)
(* request reads it for ever, and with one request at a time so do all      *)
(* others wait.                                                             *)
AllServed ==
    \A c \in Clients : at[c] = "queued" ~>
        at[c] \in {"answered", "failed", "left"} \/ (backend = "hf" /\ Raised # {})
=============================================================================
