------------------------------ MODULE ModelCalls ------------------------------
(***************************************************************************)
(* Calls of the language model: LlmClient with its masking of personal     *)
(* data, its cache in Redis or in its process, its circuit breaker, and    *)
(* the traces that account for the calls of a review run.                  *)
(*                                                                         *)
(* A client belongs to one runtime, which makes one review at a time:      *)
(* a worker keeps it for all its reviews, a Feishu callback for one.       *)
(* Clients meet in Redis only.  Each has the setting llm.mask_pii as it    *)
(* was when the client was made: one that masks may share Redis with one   *)
(* that does not.                                                          *)
(*                                                                         *)
(* A prompt is the sequence of the personal values in it; all else in it   *)
(* is the task.  A reply is the set of the placeholders it repeats.        *)
(***************************************************************************)
EXTENDS Naturals, Sequences, FiniteSets

CONSTANTS
    Clients,
    Tasks,       \* what a call asks for: "plan_review", "discover_risks", ...
    Models,
    ModelFor,    \* LlmConfig.model_for
    Prompts,     \* sequences of personal values
    Settings,    \* what llm.mask_pii may be, of each client
    Bound        \* bound: the most calls of each review of each client

Runs(c) == 1 .. Len(Bound[c])
Values  == UNION {{p[i] : i \in 1 .. Len(p)} : p \in Prompts}

ASSUME CallsAssumption ==
    /\ ModelFor \in [Tasks -> Models]
    /\ Bound \in [Clients -> Seq(Nat) \ {<<>>}]
    /\ Prompts \subseteq Seq(Values)
    /\ Settings \subseteq [Clients -> BOOLEAN]
    /\ Values \intersect Nat = {}       \* a number is a placeholder
None    == "none"
Nothing == <<>>

VARIABLES
    provider, \* "remote" or "local"
    masking,  \* config.mask_pii of each client
    cacheAt,  \* where the cache of a client is: "redis" or "memory" of the client
    at,       \* where the call of a client is
    run,      \* its review
    call,     \* the calls of that review so far
    task,     \* the task of its call
    prompt,   \* user
    reply,    \* text of the response, before restore
    model,    \* response.model
    answer,   \* what complete has returned, restored
    open,     \* whether the circuit is open
    failures, \* history: failed requests since time last closed the circuit
    shared,   \* entries of the cache in Redis
    memory,   \* entries of the cache of a client
    traces,   \* call_traces
    calls,    \* run.llm_calls of each review, as its report has them
    actual,   \* history: the model that really answered the call at hand
    outside   \* history: all that each client has sent to the remote model

request == <<run, call, task, prompt>>
result  == <<reply, model, answer, actual>>
circuit == <<open, failures>>
cache   == <<cacheAt, shared, memory>>
account == <<traces, calls>>
vars    == <<provider, masking, at, request, result, circuit, cache, account, outside>>

Init ==
    /\ provider \in {"remote", "local"}
    /\ masking \in Settings
    /\ cacheAt \in {"redis", "memory"}
    /\ at = [c \in Clients |-> "idle"]
    /\ run = [c \in Clients |-> 1]
    /\ call = [c \in Clients |-> 0]
    /\ task = [c \in Clients |-> None]
    /\ prompt = [c \in Clients |-> Nothing]
    /\ reply = [c \in Clients |-> {}]
    /\ model = [c \in Clients |-> None]
    /\ answer = [c \in Clients |-> {}]
    /\ open = [c \in Clients |-> FALSE]
    /\ failures = [c \in Clients |-> 0]
    /\ shared = {}
    /\ memory = [c \in Clients |-> {}]
    /\ traces = [c \in Clients |-> <<>>]
    /\ calls = [c \in Clients |-> [r \in Runs(c) |-> <<>>]]
    /\ actual = [c \in Clients |-> None]
    /\ outside = [c \in Clients |-> {}]

Go(c, from, to) == at[c] = from /\ at' = [at EXCEPT ![c] = to]

-----------------------------------------------------------------------------
\* privacy.mask and restore: a value is replaced by its number among the different values of
\* the text, in the order of their first occurrences, and a placeholder by its value.

FirstAt(text, v) ==
    CHOOSE i \in 1 .. Len(text) : text[i] = v /\ \A j \in 1 .. i - 1 : text[j] # v

Placeholder(text, v) == Cardinality({text[j] : j \in 1 .. FirstAt(text, v)})

Mask(text) == [i \in 1 .. Len(text) |-> Placeholder(text, text[i])]

Tokens(text) == {text[i] : i \in 1 .. Len(text)}

Mapping(text) == [n \in Tokens(Mask(text)) |->
                    CHOOSE v \in Tokens(text) : Placeholder(text, v) = n]

Restore(tokens, mapping) == {IF n \in DOMAIN mapping THEN mapping[n] ELSE n : n \in tokens}

-----------------------------------------------------------------------------
\* complete and _complete.

\* outbound_user and mapping: a client masks if it is set to.
Outbound(c) == IF masking[c] THEN Mask(prompt[c]) ELSE prompt[c]

MappingOf(c) == IF masking[c] THEN Mapping(prompt[c]) ELSE [n \in {} |-> n]

Call(c) ==
    /\ call[c] < Bound[c][run[c]]
    /\ Go(c, "idle", "begun")
    /\ call' = [call EXCEPT ![c] = @ + 1]
    /\ \E k \in Tasks : task' = [task EXCEPT ![c] = k]
    /\ \E p \in Prompts : prompt' = [prompt EXCEPT ![c] = p]
    /\ answer' = [answer EXCEPT ![c] = {}]
    /\ UNCHANGED <<provider, masking, run, reply, model, actual, circuit, cache, account, outside>>

\* Without a remote endpoint the deterministic reviewer answers.
Local(c) ==
    /\ provider = "local"
    /\ Go(c, "begun", "restored")
    /\ model' = [model EXCEPT ![c] = ModelFor[task[c]]]
    /\ actual' = [actual EXCEPT ![c] = ModelFor[task[c]]]
    /\ UNCHANGED <<provider, masking, request, reply, answer, circuit, cache, account, outside>>

\* Mutant of KeyOf: the key leaves the model out, so that a change of model_routes does not show.
KeyOf_Text(c) == <<None, None, Outbound(c)>>

\* The system prompt and the text of a request name its task.
KeyOf(c) == <<ModelFor[task[c]], task[c], Outbound(c)>>

Entries(c) == IF cacheAt = "redis" THEN shared ELSE memory[c]

\* The cache is asked under the text that would be sent.  A miss is also an entry that has
\* expired, a Redis that does not answer, and a client without a cache.
Look(c) ==
    /\ provider = "remote"
    /\ at[c] = "begun"
    /\ \/ \E e \in Entries(c) :
            /\ e.key = KeyOf(c)
            /\ at' = [at EXCEPT ![c] = "restored"]
            /\ reply' = [reply EXCEPT ![c] = e.text]
            /\ answer' = [answer EXCEPT ![c] = Restore(e.text, MappingOf(c))]
            /\ model' = [model EXCEPT ![c] = e.model]
            /\ actual' = [actual EXCEPT ![c] = e.from]
       \/ at' = [at EXCEPT ![c] = "missed"] /\ UNCHANGED <<reply, answer, model, actual>>
    /\ UNCHANGED <<provider, masking, request, circuit, cache, account, outside>>

\* An open circuit fails the call.
Gate(c) ==
    /\ at[c] = "missed"
    /\ at' = [at EXCEPT ![c] = IF open[c] THEN "failed" ELSE "sending"]
    /\ UNCHANGED <<provider, masking, request, result, circuit, cache, account, outside>>

\* The request is sent, once more if the connection is lost at once.  It is answered or fails (a
\* timeout, an error of the service, a second loss).  The reply repeats what the request holds,
\* placeholders or values, and invents a placeholder.
Send(c) ==
    /\ outside' = [outside EXCEPT ![c] = @ \union Tokens(Outbound(c))]
    /\ \/ /\ Go(c, "sending", "replied")
          /\ reply' = [reply EXCEPT ![c] = Tokens(Outbound(c)) \union {Len(prompt[c]) + 1}]
          /\ model' = [model EXCEPT ![c] = ModelFor[task[c]]]
          /\ actual' = [actual EXCEPT ![c] = ModelFor[task[c]]]
       \/ Go(c, "sending", "broken") /\ UNCHANGED <<reply, model, actual>>
    /\ UNCHANGED <<provider, masking, request, answer, circuit, cache, account>>

\* Mutant of Break: a failure leaves the circuit closed.
Break_Closed(c) ==
    /\ Go(c, "broken", "failed")
    /\ failures' = [failures EXCEPT ![c] = @ + 1]
    /\ UNCHANGED <<provider, masking, request, result, open, cache, account, outside>>

Break(c) ==
    /\ Go(c, "broken", "failed")
    /\ open' = [open EXCEPT ![c] = TRUE]
    /\ failures' = [failures EXCEPT ![c] = @ + 1]
    /\ UNCHANGED <<provider, masking, request, result, cache, account, outside>>

\* Mutant of Entry: the restored answer is cached.
Entry_Restored(c) ==
    [key |-> KeyOf(c), text |-> Restore(reply[c], MappingOf(c)), model |-> model[c], from |-> actual[c]]

Entry(c) == [key |-> KeyOf(c), text |-> reply[c], model |-> model[c], from |-> actual[c]]

With(entries, e) == {f \in entries : f.key # e.key} \union {e}

\* The circuit is closed, and the reply is cached and restored.  When Redis does not answer, the
\* entry goes to a memory that get never asks.
Keep(c) ==
    /\ Go(c, "replied", "restored")
    /\ open' = [open EXCEPT ![c] = FALSE]
    /\ \/ cacheAt = "redis" /\ shared' = With(shared, Entry(c)) /\ UNCHANGED memory
       \/ cacheAt = "redis" /\ UNCHANGED <<shared, memory>>
       \/ /\ cacheAt = "memory"
          /\ memory' = [memory EXCEPT ![c] = With(@, Entry(c))]
          /\ UNCHANGED shared
    /\ answer' = [answer EXCEPT ![c] = Restore(reply[c], MappingOf(c))]
    /\ UNCHANGED <<provider, masking, request, reply, model, actual, failures, cacheAt, account, outside>>

\* REMOTE_CIRCUIT_BREAKER_SECONDS (300) after its last failure the circuit lets a request through
\* again.
Cool(c) ==
    /\ open[c]
    /\ open' = [open EXCEPT ![c] = FALSE]
    /\ failures' = [failures EXCEPT ![c] = 0]
    /\ UNCHANGED <<provider, masking, at, request, result, cache, account, outside>>

-----------------------------------------------------------------------------
\* The account of the call.

TraceOf(c, m, status) ==
    [run |-> run[c], call |-> call[c], task |-> task[c], model |-> m, status |-> status,
     fallback |-> provider = "local", actual |-> actual[c]]

Note(c, trace) == traces' = [traces EXCEPT ![c] = Append(@, trace)]

\* What was local to the call is gone.
Forget(c) ==
    /\ reply' = [reply EXCEPT ![c] = {}]
    /\ model' = [model EXCEPT ![c] = None]
    /\ actual' = [actual EXCEPT ![c] = None]

\* decide and semantic_judgment take the answer, or their deterministic fallback when they cannot
\* parse it.
TraceAnswer(c) ==
    /\ Go(c, "restored", "idle")
    /\ Note(c, TraceOf(c, model[c], "success"))
    /\ Forget(c)
    /\ UNCHANGED <<provider, masking, request, answer, circuit, cache, calls, outside>>

TraceError(c) ==
    /\ Go(c, "failed", "raised")
    /\ Note(c, TraceOf(c, ModelFor[task[c]], "error"))
    /\ UNCHANGED <<provider, masking, request, result, circuit, cache, calls, outside>>

\* decide and semantic_judgment: an error is answered by the fallback, and the last trace is marked.
Degrade(c) ==
    /\ Go(c, "raised", "idle")
    /\ traces' = [traces EXCEPT ![c][Len(traces[c])].fallback = TRUE]
    /\ Forget(c)
    /\ UNCHANGED <<provider, masking, request, answer, circuit, cache, calls, outside>>

\* The traces of some runs, in their order.  (SelectSeq, in a form the provers can reason about.)
Picked(list, runs) ==
    LET upTo[n \in 0 .. Len(list)] ==
            IF n = 0 THEN <<>>
            ELSE IF list[n].run \in runs THEN Append(upTo[n - 1], list[n]) ELSE upTo[n - 1]
    IN  upTo[Len(list)]

\* A review that has come to its report takes the traces of its run.
Drain(c) ==
    /\ Go(c, "idle", "ended")
    /\ calls' = [calls EXCEPT ![c][run[c]] = Picked(traces[c], {run[c]})]
    /\ traces' = [traces EXCEPT ![c] = Picked(@, Runs(c) \ {run[c]})]
    /\ UNCHANGED <<provider, masking, request, result, circuit, cache, outside>>

\* A review that fails before its report leaves them where they are.
Abandon(c) ==
    /\ Go(c, "idle", "failed review")
    /\ UNCHANGED <<provider, masking, request, result, circuit, cache, account, outside>>

\* Mutant of NextRun: the calls are counted over all reviews.
NextRun_Counting(c) ==
    /\ run[c] + 1 \in Runs(c)
    /\ at[c] \in {"ended", "failed review"}
    /\ at' = [at EXCEPT ![c] = "idle"]
    /\ run' = [run EXCEPT ![c] = @ + 1]
    /\ UNCHANGED <<provider, masking, call, task, prompt, result, circuit, cache, account, outside>>

NextRun(c) ==
    /\ run[c] + 1 \in Runs(c)
    /\ at[c] \in {"ended", "failed review"}
    /\ at' = [at EXCEPT ![c] = "idle"]
    /\ run' = [run EXCEPT ![c] = @ + 1]
    /\ call' = [call EXCEPT ![c] = 0]
    /\ UNCHANGED <<provider, masking, task, prompt, result, circuit, cache, account, outside>>

Next == \E c \in Clients :
    \/ Call(c) \/ Local(c) \/ Look(c) \/ Gate(c) \/ Send(c) \/ Break(c) \/ Keep(c) \/ Cool(c)
    \/ TraceAnswer(c) \/ TraceError(c) \/ Degrade(c)
    \/ Drain(c) \/ Abandon(c) \/ NextRun(c)

Spec == Init /\ [][Next]_vars

-----------------------------------------------------------------------------
\* Properties.

Places == {"idle", "begun", "missed", "sending", "replied", "broken", "restored", "failed",
           "raised", "ended", "failed review"}
Keys   == {<<ModelFor[k], k, text>> : k \in Tasks, text \in {Mask(p) : p \in Prompts} \union Prompts}

\* Every variable has its type, and a cache holds one entry for a key.
TypeOK ==
    /\ provider \in {"remote", "local"} /\ masking \in Settings /\ cacheAt \in {"redis", "memory"}
    /\ at \in [Clients -> Places]
    /\ \A c \in Clients : run[c] \in Runs(c) /\ call[c] \in 0 .. Bound[c][run[c]]
    /\ task \in [Clients -> Tasks \union {None}]
    /\ prompt \in [Clients -> Prompts \union {Nothing}]
    /\ model \in [Clients -> Models \union {None}] /\ actual \in [Clients -> Models \union {None}]
    /\ open \in [Clients -> BOOLEAN] /\ failures \in [Clients -> Nat]
    /\ \A c \in Clients :
        /\ \A e, f \in Entries(c) : e.key \in Keys /\ (e.key = f.key => e = f)
        /\ \A i \in 1 .. Len(traces[c]) : traces[c][i].run \in 1 .. run[c]

\* Who fills the cache that a client asks.
Fillers(c) == IF cacheAt = "redis" THEN Clients ELSE {c}

\* The values of a client that masks stay inside: it sends none and is answered none, although a
\* client that does not mask may fill the same cache.  A cache that only such clients fill holds
\* none, and no other holds one but in the reply to a request that was sent with that value.
\* Nobody's answer holds a value that is not of its own prompt, although calls whose prompts differ
\* only in values share an entry (_complete, mask, restore).
PrivacyBoundary == \A c \in Clients :
    /\ masking[c] => (outside[c] \union reply[c]) \intersect Values = {}
    /\ \A e \in Entries(c) :
        /\ e.text \intersect Values \subseteq Tokens(e.key[3])
        /\ e.text \intersect Values # {} => \E d \in Fillers(c) : ~masking[d]
    /\ answer[c] \intersect Values \subseteq Tokens(prompt[c])

\* An outage is not multiplied by the clauses of a contract, nor by the contracts of a worker:
\* between two times the circuit is let close by time, one request fails (_complete).
OutageIsContained == \A c \in Clients : failures[c] <= 1

\* The report of a review accounts for its calls and for no other: one trace each, with the model
\* that answered, which is the one its task is routed to, or with an error and the mark of the
\* fallback, though answers come from a cache others fill and reviews that failed have left
\* their traces behind (complete, decide, drain_traces, finalize_context).
TracesAreTrue == \A c \in Clients : \A r \in Runs(c) :
    /\ run[c] = r /\ at[c] = "ended" =>
        [i \in 1 .. Len(calls[c][r]) |-> calls[c][r][i].call] = [i \in 1 .. call[c] |-> i]
    /\ \A i \in 1 .. Len(calls[c][r]) : LET t == calls[c][r][i] IN
        /\ t.run = r
        /\ t.model = ModelFor[t.task]
        /\ t.status = "success" => t.actual = t.model
        /\ t.fallback <=> t.status = "error" \/ provider = "local"
=============================================================================
