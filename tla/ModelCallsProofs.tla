--------------------------- MODULE ModelCallsProofs ---------------------------
(***************************************************************************)
(* Proofs about ModelCalls: the boundary of personal values, for prompts   *)
(* of any length and any number of clients, the circuit breaker, and the   *)
(* account of its calls that a review reports, for any number of reviews   *)
(* and calls.                                                              *)
(***************************************************************************)
EXTENDS ModelCalls, FiniteSetTheorems, SequenceTheorems, WellFoundedInduction, TLAPS

-----------------------------------------------------------------------------
(* Masking: a placeholder is a number, and stands for a value of its text. *)

\* A value of a text has a first occurrence.
LEMMA FirstAtExists ==
    ASSUME NEW text \in Seq(Values), NEW v \in Tokens(text)
    PROVE  FirstAt(text, v) \in 1 .. Len(text) /\ text[FirstAt(text, v)] = v
<1> DEFINE T == {i \in 1 .. Len(text) : text[i] = v}
<1>1. T \subseteq Nat /\ T # {}
  BY DEF Tokens
<1>2. PICK i \in T : \A j \in T : ~(<<j, i>> \in OpToRel(<, Nat))
  BY <1>1, NatLessThanWellFounded, WFMin
<1>3. \A j \in T : ~(j < i)
  BY <1>1, <1>2 DEF OpToRel
<1>4. i \in 1 .. Len(text) /\ text[i] = v /\ \A j \in 1 .. i - 1 : text[j] # v
  BY <1>3
<1> QED
  BY <1>4 DEF FirstAt

LEMMA PlaceholderIsNumber ==
    ASSUME NEW text \in Seq(Values), NEW v \in Tokens(text)
    PROVE  Placeholder(text, v) \in Nat
<1> DEFINE n == FirstAt(text, v)
           S == {text[j] : j \in 1 .. n}
           f == [j \in 1 .. n |-> text[j]]
<1>1. n \in Int
  BY FirstAtExists
<1>2. IsFiniteSet(1 .. n)
  BY <1>1, FS_Interval
<1>3. f \in Surjection(1 .. n, S)
  BY DEF Surjection
<1>4. IsFiniteSet(S)
  BY <1>2, <1>3, FS_Surjection
<1> QED
  BY <1>4, FS_CardinalityType DEF Placeholder

LEMMA MaskedIsNumbers ==
    ASSUME NEW text \in Seq(Values)
    PROVE  Tokens(Mask(text)) \subseteq Nat
<1>1. Mask(text) \in [1 .. Len(text) -> Nat]
  BY PlaceholderIsNumber DEF Mask, Tokens
<1>2. Len(Mask(text)) = Len(text) /\ Len(text) \in Nat
  BY DEF Mask
<1> QED
  BY <1>1, <1>2 DEF Tokens

\* What a client sends holds values of its own prompt only, and none if the client masks.
LEMMA OutboundIsOwn ==
    ASSUME NEW c \in Clients, prompt[c] \in Seq(Values)
    PROVE  /\ Tokens(Outbound(c)) \intersect Values \subseteq Tokens(prompt[c])
           /\ masking[c] => Tokens(Outbound(c)) \intersect Values = {}
<1>1. Tokens(Mask(prompt[c])) \subseteq Nat
  BY MaskedIsNumbers
<1> QED
  BY <1>1, CallsAssumption DEF Outbound

\* Restoring a reply that holds no value but those of the prompt brings in none.
LEMMA RestoredIsOwn ==
    ASSUME NEW c \in Clients, prompt[c] \in Seq(Values),
           NEW tokens, tokens \intersect Values \subseteq Tokens(prompt[c])
    PROVE  Restore(tokens, MappingOf(c)) \intersect Values \subseteq Tokens(prompt[c])
<1>1. PICK text \in Seq(Values) : text = prompt[c]
  OBVIOUS
<1>2. ASSUME NEW n \in DOMAIN Mapping(text) PROVE Mapping(text)[n] \in Tokens(text)
  <2>1. n \in Tokens(Mask(text))
    BY DEF Mapping
  <2>2. Len(Mask(text)) = Len(text)
    BY DEF Mask
  <2>3. PICK i \in 1 .. Len(text) : n = Placeholder(text, text[i])
    BY <2>1, <2>2 DEF Tokens, Mask
  <2>4. text[i] \in Tokens(text)
    BY DEF Tokens
  <2> QED
    BY <2>1, <2>3, <2>4 DEF Mapping
<1>3. ASSUME NEW n \in DOMAIN MappingOf(c) PROVE MappingOf(c)[n] \in Tokens(text)
  BY <1>1, <1>2, <1>3 DEF MappingOf
<1> QED
  BY <1>1, <1>3 DEF Restore

-----------------------------------------------------------------------------
(* The boundary.                                                           *)

Types ==
    /\ provider \in {"remote", "local"} /\ cacheAt \in {"redis", "memory"}
    /\ masking \in Settings
    /\ at \in [Clients -> Places]
    /\ prompt \in [Clients -> Seq(Values)]
    /\ reply = [c \in Clients |-> reply[c]]
    /\ answer = [c \in Clients |-> answer[c]]
    /\ outside = [c \in Clients |-> outside[c]]
    /\ memory = [c \in Clients |-> memory[c]]
    /\ open \in [Clients -> BOOLEAN] /\ failures \in [Clients -> Nat]

\* An entry has the values its request was sent with at most, and only if one of those who fill
\* its cache does not mask.
Clean(e, fillers) ==
    /\ e.text \intersect Values \subseteq Tokens(e.key[3])
    /\ e.text \intersect Values # {} => \E d \in fillers : ~masking[d]

\* What leaves a client, or is kept of its replies, holds no value but by the setting of the client;
\* its answer holds those of its own prompt.
Masked ==
    /\ \A c \in Clients : masking[c] => outside[c] \intersect Values = {} /\ reply[c] \intersect Values = {}
    /\ \A c \in Clients : at[c] = "replied" => reply[c] \intersect Values \subseteq Tokens(Outbound(c))
    /\ \A e \in shared : Clean(e, Clients)
    /\ \A c \in Clients : \A e \in memory[c] : Clean(e, {c})
    /\ \A c \in Clients : answer[c] \intersect Values \subseteq Tokens(prompt[c])

\* A client with a closed circuit, or a request under way, has seen no failure that still counts.
Contained == \A c \in Clients :
    /\ failures[c] <= 1
    /\ open[c] = FALSE \/ at[c] \in {"sending", "replied", "broken"} => failures[c] = 0

CallsInv == Types /\ Masked /\ Contained

LEMMA InitCallsInv == Init => CallsInv
  BY DEF Init, CallsInv, Types, Masked, Contained, Places, Nothing, Tokens

\* A step that adds nothing to the caches, the replies and what has been sent keeps them clean.
LEMMA MaskedKept ==
    ASSUME Masked, UNCHANGED <<masking, prompt, shared, memory, answer, outside>>,
           \A c \in Clients : reply'[c] = reply[c] \/ reply'[c] = {},
           \A c \in Clients : at'[c] = "replied" => at[c] = "replied"
    PROVE  Masked'
  BY DEF Masked, Clean, Outbound

LEMMA CallsInvStep == CallsInv /\ [Next]_vars => CallsInv'
<1> USE DEF CallsInv, Go, Places
<1>1. ASSUME CallsInv, NEW c \in Clients, Call(c) PROVE CallsInv'
  <2>1. PICK p \in Prompts : prompt' = [prompt EXCEPT ![c] = p]
    BY <1>1 DEF Call
  <2>2. Types'
    BY <1>1, <2>1, CallsAssumption DEF Call, Types, circuit, cache
  <2>3. at' = [at EXCEPT ![c] = "begun"] /\ answer' = [answer EXCEPT ![c] = {}]
        /\ UNCHANGED <<masking, reply, circuit, shared, memory, outside>>
    BY <1>1 DEF Call, cache
  <2>4. at'[c] = "begun" /\ answer'[c] = {}
        /\ \A d \in Clients : d # c => at'[d] = at[d] /\ answer'[d] = answer[d] /\ prompt'[d] = prompt[d]
    BY <1>1, <2>1, <2>3 DEF Types
  <2>5. Masked'
    BY <1>1, <2>3, <2>4 DEF Masked, Clean, Outbound
  <2>6. Contained'
    BY <1>1, <2>3, <2>4 DEF Contained, circuit
  <2> QED
    BY <2>2, <2>5, <2>6
<1>2. ASSUME CallsInv, NEW c \in Clients, Local(c) \/ Gate(c) PROVE CallsInv'
  <2>1. /\ at' = [at EXCEPT ![c] = at'[c]] /\ at'[c] \in {"restored", "failed", "sending"}
        /\ at'[c] = "sending" => open[c] = FALSE
        /\ UNCHANGED <<provider, masking, prompt, reply, answer, circuit, cache, outside>>
    BY <1>2 DEF Local, Gate, Types, request, result
  <2>2. \A d \in Clients : d # c => at'[d] = at[d]
    BY <1>2, <2>1 DEF Types
  <2>3. Types' /\ Contained'
    BY <1>2, <2>1, <2>2 DEF Types, Contained, circuit, cache
  <2>4. Masked'
    BY <1>2, <2>1, <2>2, MaskedKept DEF cache
  <2> QED
    BY <2>3, <2>4
<1>3. ASSUME CallsInv, NEW c \in Clients, Look(c) PROVE CallsInv'
  <2>1. /\ UNCHANGED <<provider, masking, prompt, circuit, cache, outside>> /\ at[c] = "begun"
        /\ at' = [at EXCEPT ![c] = at'[c]] /\ at'[c] \in {"restored", "missed"}
        /\ reply' = [reply EXCEPT ![c] = reply'[c]] /\ answer' = [answer EXCEPT ![c] = answer'[c]]
    BY <1>3 DEF Look, Types, request
  <2>2. Types'
    BY <1>3, <2>1 DEF Types, circuit, cache
  <2>3. \A d \in Clients : d # c => at'[d] = at[d] /\ reply'[d] = reply[d] /\ answer'[d] = answer[d]
    BY <1>3, <2>1 DEF Types
  <2>4. Contained'
    BY <1>3, <2>1, <2>3 DEF Contained, circuit
  <2>5. /\ masking[c] => reply'[c] \intersect Values = {}
        /\ answer'[c] \intersect Values \subseteq Tokens(prompt[c])
    <3>1. CASE answer' = answer /\ reply' = reply
      BY <1>3, <3>1 DEF Masked
    <3>2. ASSUME NEW e \in Entries(c), e.key = KeyOf(c), reply' = [reply EXCEPT ![c] = e.text],
                 answer' = [answer EXCEPT ![c] = Restore(e.text, MappingOf(c))]
          PROVE  /\ masking[c] => reply'[c] \intersect Values = {}
                 /\ answer'[c] \intersect Values \subseteq Tokens(prompt[c])
      <4>1. e.text \intersect Values \subseteq Tokens(Outbound(c))
        <5>1. e.text \intersect Values \subseteq Tokens(e.key[3])
          BY <1>3, <3>2 DEF Masked, Clean, Entries
        <5>2. e.key[3] = Outbound(c)
          BY <3>2 DEF KeyOf
        <5> QED
          BY <5>1, <5>2
      <4>2. prompt[c] \in Seq(Values) /\ reply'[c] = e.text /\ answer'[c] = Restore(e.text, MappingOf(c))
        BY <1>3, <3>2 DEF Types
      <4>3. e.text \intersect Values \subseteq Tokens(prompt[c]) /\ (masking[c] => e.text \intersect Values = {})
        BY <4>1, <4>2, OutboundIsOwn
      <4>4. Restore(e.text, MappingOf(c)) \intersect Values \subseteq Tokens(prompt[c])
        BY <4>2, <4>3, RestoredIsOwn
      <4> QED
        BY <4>2, <4>3, <4>4
    <3> QED
      BY <1>3, <3>1, <3>2 DEF Look
  <2>6. Masked'
    <3>1. UNCHANGED <<masking, prompt, shared, memory, outside>> /\ at'[c] # "replied"
      BY <2>1 DEF cache
    <3> QED
      BY <1>3, <2>3, <2>5, <3>1 DEF Masked, Clean, Outbound
  <2> QED
    BY <2>2, <2>4, <2>6
<1>4. ASSUME CallsInv, NEW c \in Clients, Send(c) PROVE CallsInv'
  <2>1. prompt[c] \in Seq(Values) /\ Len(prompt[c]) + 1 \in Nat
    <3>1. prompt[c] \in Seq(Values)
      BY <1>4 DEF Types
    <3>2. \A text \in Seq(Values) : Len(text) + 1 \in Nat
      OBVIOUS
    <3> QED
      BY <3>1, <3>2
  <2>2. /\ Tokens(Outbound(c)) \intersect Values \subseteq Tokens(prompt[c])
        /\ masking[c] => Tokens(Outbound(c)) \intersect Values = {}
    BY <2>1, OutboundIsOwn
  <2>3. /\ at[c] = "sending" /\ UNCHANGED <<provider, masking, prompt, answer, circuit, cache>>
        /\ outside' = [outside EXCEPT ![c] = @ \union Tokens(Outbound(c))]
        /\ at' = [at EXCEPT ![c] = at'[c]] /\ at'[c] \in {"replied", "broken"}
        /\ reply' = [reply EXCEPT ![c] = reply'[c]]
        /\ \/ reply'[c] = reply[c] /\ at'[c] = "broken"
           \/ reply'[c] = Tokens(Outbound(c)) \union {Len(prompt[c]) + 1}
    BY <1>4 DEF Send, Types, request
  <2>4. outside'[c] = outside[c] \union Tokens(Outbound(c))
        /\ \A d \in Clients : d # c => at'[d] = at[d] /\ reply'[d] = reply[d] /\ outside'[d] = outside[d]
    BY <1>4, <2>3 DEF Types
  <2>5. Types'
    BY <1>4, <2>3 DEF Types, circuit, cache
  <2>6. Contained'
    BY <1>4, <2>3, <2>4 DEF Contained, circuit
  <2>7. Len(prompt[c]) + 1 \notin Values
    BY <2>1, CallsAssumption
  <2>8. Outbound(c)' = Outbound(c) /\ \A d \in Clients : Outbound(d)' = Outbound(d)
    BY <2>3 DEF Outbound
  <2>9. /\ masking[c] => outside'[c] \intersect Values = {} /\ reply'[c] \intersect Values = {}
        /\ at'[c] = "replied" => reply'[c] \intersect Values \subseteq Tokens(Outbound(c))
    BY <1>4, <2>2, <2>3, <2>4, <2>7 DEF Masked
  <2>10. Masked'
    <3>1. UNCHANGED <<masking, prompt, answer, shared, memory>>
      BY <2>3 DEF cache
    <3> QED
      BY <1>4, <2>4, <2>8, <2>9, <3>1 DEF Masked, Clean
  <2> QED
    BY <2>5, <2>6, <2>10
<1>5. ASSUME CallsInv, NEW c \in Clients, Break(c) PROVE CallsInv'
  <2>1. at[c] = "broken" /\ failures[c] = 0
    BY <1>5 DEF Break, Contained
  <2>2. /\ at' = [at EXCEPT ![c] = "failed"] /\ failures' = [failures EXCEPT ![c] = @ + 1]
        /\ UNCHANGED <<provider, masking, request, result, cache, outside>>
    BY <1>5 DEF Break
  <2>3. open' = [open EXCEPT ![c] = TRUE]
    BY <1>5 DEF Break
  <2>4. failures' = [failures EXCEPT ![c] = 1]
    BY <2>1, <2>2
  <2> HIDE <1>5
  <2>5. CallsInv
    BY <1>5
  <2>6. Types'
    <3>1. open' \in [Clients -> BOOLEAN]
      BY <2>3, <2>5, Zenon DEF Types
    <3>2. failures' \in [Clients -> Nat]
      BY <2>4, <2>5 DEF Types
    <3>3. at' \in [Clients -> Places]
      BY <2>2, <2>5 DEF Types
    <3> QED
      BY <2>2, <2>5, <3>1, <3>2, <3>3 DEF Types, request, result, cache
  <2>7. Masked'
    <3>1. UNCHANGED <<masking, prompt, shared, memory, answer, outside, reply>>
      BY <2>2 DEF request, result, cache
    <3>2. \A d \in Clients : at'[d] = "replied" => at[d] = "replied"
      BY <2>2, <2>5 DEF Types
    <3> QED
      BY <2>5, <3>1, <3>2, MaskedKept
  <2>8. Contained'
    <3>1. open'[c] = TRUE /\ at'[c] = "failed" /\ failures'[c] = 1
      BY <2>2, <2>3, <2>4, <2>5 DEF Types
    <3>2. \A d \in Clients : d # c => open'[d] = open[d] /\ at'[d] = at[d] /\ failures'[d] = failures[d]
      BY <2>2, <2>3, <2>4, <2>5 DEF Types
    <3> QED
      BY <2>5, <3>1, <3>2 DEF Contained
  <2> QED
    BY <2>6, <2>7, <2>8
<1>6. ASSUME CallsInv, NEW c \in Clients, Keep(c) PROVE CallsInv'
  <2>1. prompt[c] \in Seq(Values) /\ at[c] = "replied" /\ cacheAt \in {"redis", "memory"}
    BY <1>6 DEF Keep, Types
  <2>2. /\ reply[c] \intersect Values \subseteq Tokens(Outbound(c))
        /\ masking[c] => reply[c] \intersect Values = {}
    BY <1>6, <2>1 DEF Masked
  <2>3. Restore(reply[c], MappingOf(c)) \intersect Values \subseteq Tokens(prompt[c])
    BY <2>1, <2>2, OutboundIsOwn, RestoredIsOwn
  <2>4. Clean(Entry(c), Clients) /\ Clean(Entry(c), {c})
    <3>1. Entry(c).text = reply[c] /\ Entry(c).key[3] = Outbound(c)
      BY DEF Entry, KeyOf
    <3> QED
      BY <2>2, <3>1 DEF Clean
  <2>5. shared' \subseteq shared \union {Entry(c)}
    BY <1>6 DEF Keep, With
  <2>6. /\ memory' = [d \in Clients |-> memory'[d]]
        /\ memory'[c] \subseteq memory[c] \union {Entry(c)}
        /\ \A d \in Clients : d # c => memory'[d] = memory[d]
    BY <1>6 DEF Keep, With, Types
  <2>7. /\ at' = [at EXCEPT ![c] = "restored"] /\ open' = [open EXCEPT ![c] = FALSE]
        /\ answer' = [answer EXCEPT ![c] = Restore(reply[c], MappingOf(c))]
        /\ UNCHANGED <<provider, masking, request, reply, failures, cacheAt, outside>>
    BY <1>6 DEF Keep
  <2>8. Types'
    BY <1>6, <2>6, <2>7 DEF Types, request
  <2>9. Masked'
    <3>1. /\ at'[c] = "restored" /\ answer'[c] = Restore(reply[c], MappingOf(c))
          /\ \A d \in Clients : d # c => at'[d] = at[d] /\ answer'[d] = answer[d]
          /\ UNCHANGED <<masking, prompt, reply, outside>>
      BY <1>6, <2>7 DEF Types, request
    <3>2. \A e : \A S : Clean(e, S)' = Clean(e, S)
      BY <3>1 DEF Clean
    <3>3. /\ \A e \in shared' : Clean(e, Clients)
          /\ \A d \in Clients : \A e \in memory'[d] : Clean(e, {d})
      BY <1>6, <2>4, <2>5, <2>6 DEF Masked
    <3> QED
      BY <1>6, <2>3, <3>1, <3>2, <3>3 DEF Masked, Outbound
  <2>10. Contained'
    BY <1>6, <2>1, <2>7 DEF Types, Contained
  <2> QED
    BY <2>8, <2>9, <2>10
<1>7. ASSUME CallsInv, NEW c \in Clients, Cool(c) PROVE CallsInv'
  <2>1. /\ open' = [open EXCEPT ![c] = FALSE] /\ failures' = [failures EXCEPT ![c] = 0]
        /\ UNCHANGED <<provider, masking, at, request, result, cache, outside>>
    BY <1>7 DEF Cool
  <2>2. Types'
    BY <1>7, <2>1 DEF Types, request, result, cache
  <2>3. Masked'
    BY <1>7, <2>1, MaskedKept DEF request, result, cache
  <2>4. Contained'
    <3>1. failures'[c] = 0 /\ \A d \in Clients : d # c => open'[d] = open[d] /\ failures'[d] = failures[d]
      BY <1>7, <2>1 DEF Types
    <3> QED
      BY <1>7, <2>1, <3>1 DEF Contained
  <2> QED
    BY <2>2, <2>3, <2>4
<1>8. ASSUME CallsInv, NEW c \in Clients,
             TraceAnswer(c) \/ TraceError(c) \/ Degrade(c) \/ Drain(c) \/ Abandon(c) \/ NextRun(c)
      PROVE  CallsInv'
  <2>1. /\ at' = [at EXCEPT ![c] = at'[c]] /\ at'[c] \in {"idle", "raised", "ended", "failed review"}
        /\ UNCHANGED <<provider, masking, prompt, answer, circuit, cache, outside>>
    <3>1. UNCHANGED <<provider, masking, prompt, answer, circuit, cache, outside>>
      BY <1>8 DEF TraceAnswer, TraceError, Degrade, Drain, Abandon, NextRun, request, result
    <3>2. PICK place \in {"idle", "raised", "ended", "failed review"} : at' = [at EXCEPT ![c] = place]
      BY <1>8 DEF TraceAnswer, TraceError, Degrade, Drain, Abandon, NextRun
    <3>3. at'[c] = place
      BY <1>8, <3>2 DEF Types
    <3> QED
      BY <3>1, <3>2, <3>3
  <2>2. reply' = reply \/ reply' = [reply EXCEPT ![c] = {}]
    BY <1>8 DEF TraceAnswer, TraceError, Degrade, Forget, Drain, Abandon, NextRun, result
  <2>3. Types'
    <3>1. at' \in [Clients -> Places]
      BY <1>8, <2>1 DEF CallsInv, Types, Places
    <3>2. reply' = [d \in Clients |-> reply'[d]]
      BY <1>8, <2>2 DEF CallsInv, Types
    <3> QED
      BY <1>8, <2>1, <3>1, <3>2 DEF CallsInv, Types, circuit, cache
  <2>4. Contained'
    <3>1. \A d \in Clients : at'[d] # "broken" \/ at'[d] = at[d]
      BY <1>8, <2>1 DEF Types
    <3> QED
      BY <1>8, <2>1, <3>1 DEF Types, Contained, circuit
  <2>5. Masked'
    <3>1. \A d \in Clients : (reply'[d] = reply[d] \/ reply'[d] = {}) /\ (at'[d] = "replied" => at[d] = "replied")
      BY <1>8, <2>1, <2>2 DEF Types
    <3> QED
      BY <1>8, <2>1, <3>1, MaskedKept DEF cache
  <2> QED
    BY <2>3, <2>4, <2>5
<1>9. ASSUME CallsInv, UNCHANGED vars PROVE CallsInv'
  <2>1. Types' /\ Contained'
    BY <1>9 DEF vars, Types, Contained, request, result, circuit, cache
  <2>2. Masked'
    BY <1>9, MaskedKept DEF vars, request, result, cache
  <2> QED
    BY <2>1, <2>2
<1> QED
  BY <1>1, <1>2, <1>3, <1>4, <1>5, <1>6, <1>7, <1>8, <1>9 DEF Next

LEMMA CallsInvAlways == Spec => []CallsInv
  BY InitCallsInv, CallsInvStep, PTL DEF Spec

\* A client that masks sends no personal value and is answered none, whatever clients that do not
\* mask put in the cache they share; a value is cached for these clients only; and an answer holds
\* the values of its own prompt only: for prompts of any length, any number of clients and entries,
\* any settings, with Redis or without.
THEOREM PersonalValuesStayInside == Spec => []PrivacyBoundary
<1>1. ASSUME CallsInv PROVE PrivacyBoundary
  <2> SUFFICES ASSUME NEW c \in Clients
               PROVE  /\ masking[c] => (outside[c] \union reply[c]) \intersect Values = {}
                      /\ \A e \in Entries(c) : Clean(e, Fillers(c))
                      /\ answer[c] \intersect Values \subseteq Tokens(prompt[c])
    BY DEF PrivacyBoundary, Clean
  <2>1. masking[c] => (outside[c] \union reply[c]) \intersect Values = {}
    BY <1>1 DEF CallsInv, Masked
  <2>2. \A e \in Entries(c) : Clean(e, Fillers(c))
    BY <1>1 DEF CallsInv, Masked, Entries, Fillers
  <2> QED
    BY <1>1, <2>1, <2>2 DEF CallsInv, Masked
<1> QED
  BY <1>1, CallsInvAlways, PTL

\* Until time closes its circuit, a client loses one request to an outage, however many calls and
\* reviews it makes.
THEOREM OneFailurePerOutage == Spec => []OutageIsContained
<1>1. CallsInv => OutageIsContained
  BY DEF CallsInv, Contained, OutageIsContained
<1> QED
  BY <1>1, CallsInvAlways, PTL

-----------------------------------------------------------------------------
(* The traces of a run.  What the function in Picked returns is proved by  *)
(* induction on the length of the list, from the least number for which it *)
(* would be false.                                                         *)

LEMMA LeastNumber ==
    ASSUME NEW T \in SUBSET Nat, T # {}
    PROVE  \E i \in T : \A j \in T : ~(j < i)
<1>1. PICK i \in T : \A j \in T : ~(<<j, i>> \in OpToRel(<, Nat))
  BY NatLessThanWellFounded, WFMin
<1> QED
  BY <1>1 DEF OpToRel

\* f is the function in Picked for the first m traces of a list.
PickAt(list, runs, f, n) ==
    IF n = 0 THEN <<>>
    ELSE IF list[n].run \in runs THEN Append(f[n - 1], list[n]) ELSE f[n - 1]

Picks(list, runs, m, f) == f = [n \in 0 .. m |-> PickAt(list, runs, f, n)]

LEMMA PicksAt ==
    ASSUME NEW list, NEW runs, NEW m \in Nat, NEW f, Picks(list, runs, m, f), NEW n \in 0 .. m
    PROVE  f[n] = PickAt(list, runs, f, n)
  BY DEF Picks

LEMMA PicksExists ==
    ASSUME NEW list, NEW runs, NEW m \in Nat
    PROVE  \E f : Picks(list, runs, m, f)
<1> DEFINE T == {k \in Nat : ~\E f : Picks(list, runs, k, f)}
<1> SUFFICES ASSUME T # {} PROVE FALSE
  OBVIOUS
<1>1. PICK i \in T : \A j \in T : ~(j < i)
  BY LeastNumber
<1>2. i # 0
  <2> SUFFICES ASSUME i = 0 PROVE FALSE
    OBVIOUS
  <2> DEFINE g == [n \in 0 .. 0 |-> <<>>]
  <2>1. Picks(list, runs, 0, g)
    BY DEF Picks, PickAt
  <2> QED
    BY <1>1, <2>1
<1>3. PICK k \in Nat : i = k + 1 /\ i \in Nat
  BY <1>1, <1>2
<1>4. PICK f : Picks(list, runs, k, f)
  BY <1>1, <1>3
<1> DEFINE v == IF list[i].run \in runs THEN Append(f[k], list[i]) ELSE f[k]
           g == [n \in 0 .. i |-> IF n = i THEN v ELSE f[n]]
<1>5. \A n \in 0 .. i : g[n] = PickAt(list, runs, g, n)
  <2>1. ASSUME NEW n \in 0 .. k PROVE g[n] = PickAt(list, runs, g, n)
    <3>1. g[n] = f[n] /\ (n # 0 => g[n - 1] = f[n - 1])
      BY <1>3
    <3>2. f[n] = PickAt(list, runs, f, n)
      BY <1>4, PicksAt
    <3> HIDE DEF g
    <3> QED
      BY <3>1, <3>2 DEF PickAt
  <2>2. g[i] = PickAt(list, runs, g, i)
    <3>1. g[i] = v /\ g[i - 1] = f[k] /\ i # 0
      BY <1>3
    <3> HIDE DEF g
    <3> QED
      BY <3>1 DEF PickAt
  <2>3. \A n \in 0 .. i : n = i \/ n \in 0 .. k
    BY <1>3
  <2> HIDE DEF g
  <2> QED
    BY <2>1, <2>2, <2>3
<1>6. g = [n \in 0 .. i |-> g[n]]
  OBVIOUS
<1> HIDE DEF g
<1>7. Picks(list, runs, i, g)
  BY <1>5, <1>6 DEF Picks
<1> QED
  BY <1>1, <1>7

LEMMA PickedByPicks ==
    ASSUME NEW list, NEW runs, Len(list) \in Nat
    PROVE  \E f : Picks(list, runs, Len(list), f) /\ Picked(list, runs) = f[Len(list)]
<1>1. \E f : Picks(list, runs, Len(list), f)
  BY PicksExists
<1> DEFINE F == CHOOSE f : Picks(list, runs, Len(list), f)
<1>2. Picks(list, runs, Len(list), F)
  BY <1>1
<1>3. Picked(list, runs) = F[Len(list)]
  BY DEF Picks, PickAt, Picked
<1> QED
  BY <1>2, <1>3

\* The traces of a list after the one with the number from, up to the one with the number to.
Part(list, from, to) == [i \in 1 .. to - from |-> list[from + i]]

LEMMA PartIsSeq ==
    ASSUME NEW S, NEW list \in Seq(S), NEW from \in Nat, NEW to \in Nat, from <= to, to <= Len(list)
    PROVE  /\ Part(list, from, to) \in Seq(S)
           /\ Len(Part(list, from, to)) = to - from
<1>1. PICK n \in Nat : n = to - from
  OBVIOUS
<1>2. \A i \in 1 .. n : from + i \in 1 .. Len(list) /\ list[from + i] \in S
  BY <1>1
<1>3. Part(list, from, to) = [i \in 1 .. n |-> list[from + i]]
  BY <1>1 DEF Part
<1>4. [i \in 1 .. n |-> list[from + i]] \in Seq(S) /\ Len([i \in 1 .. n |-> list[from + i]]) = n
  BY <1>2
<1> QED
  BY <1>1, <1>2, <1>3, <1>4

LEMMA PartAt ==
    ASSUME NEW list, NEW from, NEW to, NEW i \in 1 .. to - from
    PROVE  Part(list, from, to)[i] = list[from + i]
  BY DEF Part

\* When the traces of the runs are a part of the list, Picked returns that part.
AreOf(list, runs, from, to) ==
    \A i \in 1 .. Len(list) : (list[i].run \in runs) <=> (from < i /\ i <= to)

LEMMA PickedIsPart ==
    ASSUME NEW S, NEW list \in Seq(S), NEW runs, NEW from \in Nat, NEW to \in Nat,
           from <= to, to <= Len(list), AreOf(list, runs, from, to)
    PROVE  Picked(list, runs) = Part(list, from, to)
<1> USE DEF AreOf
<1>1. Len(list) \in Nat /\ \A i \in 1 .. Len(list) : list[i] \in S
  OBVIOUS
<1>2. PICK f : Picks(list, runs, Len(list), f) /\ Picked(list, runs) = f[Len(list)]
  BY <1>1, PickedByPicks
<1> DEFINE size(n) == IF n <= from THEN 0 ELSE IF n <= to THEN n - from ELSE to - from
           part(n) == [i \in 1 .. size(n) |-> list[from + i]]
           T == {n \in 0 .. Len(list) : f[n] # part(n)}
<1>3. T = {}
  <2> SUFFICES ASSUME T # {} PROVE FALSE
    OBVIOUS
  <2>1. PICK n \in T : \A j \in T : ~(j < n)
    <3> HIDE DEF part
    <3>1. T \in SUBSET Nat
      BY <1>1
    <3> QED
      BY <3>1, LeastNumber
  <2>2. n \in 0 .. Len(list) /\ f[n] # part(n)
    BY <2>1
  <2>3. f[n] = PickAt(list, runs, f, n)
    <3>1. n \in 0 .. Len(list) /\ Picks(list, runs, Len(list), f)
      BY <1>2, <2>2
    <3> QED
      BY <1>1, <3>1, PicksAt
  <2>4. CASE n = 0
    <3>1. part(0) = [i \in 1 .. 0 |-> list[from + i]]
      OBVIOUS
    <3>2. part(0) = <<>>
      BY <3>1
    <3> QED
      BY <2>2, <2>3, <2>4, <3>2 DEF PickAt
  <2>5. CASE n # 0
    <3>1. n - 1 \in 0 .. Len(list) /\ n \in 1 .. Len(list) /\ f[n - 1] = part(n - 1)
      <4> HIDE DEF part
      <4>1. n - 1 \in 0 .. Len(list) /\ n \in 1 .. Len(list) /\ n - 1 < n
        BY <1>1, <2>2, <2>5
      <4>2. n - 1 \notin T
        BY <2>1, <4>1
      <4> QED
        BY <4>1, <4>2
    <3>2. CASE list[n].run \in runs
      <4>1. from < n /\ n <= to
        BY <3>1, <3>2
      <4>2. size(n - 1) = n - 1 - from /\ size(n) = n - from
        BY <3>1, <4>1
      <4> DEFINE p == part(n - 1)
      <4>3. p \in Seq(S) /\ Len(p) = n - 1 - from /\ \A i \in 1 .. n - 1 - from : p[i] = list[from + i]
        <5>1. n - 1 - from \in Nat /\ p = [i \in 1 .. n - 1 - from |-> list[from + i]]
          BY <3>1, <4>1, <4>2
        <5>2. \A i \in 1 .. n - 1 - from : list[from + i] \in S
          BY <1>1, <3>1
        <5> HIDE DEF p
        <5> QED
          BY <5>1, <5>2
      <4>4. list[n] \in S
        BY <1>1, <3>1
      <4> HIDE DEF p
      <4>5. Append(p, list[n]) = [i \in 1 .. n - from |-> list[from + i]]
        <5> DEFINE q == Append(p, list[n])
        <5>1. q \in Seq(S) /\ Len(q) = n - from
          BY <3>1, <4>3, <4>4, AppendProperties
        <5>2. \A i \in 1 .. n - from : q[i] = list[from + i]
          BY <3>1, <4>1, <4>3, <4>4, AppendProperties
        <5>3. q = [i \in 1 .. Len(q) |-> q[i]]
          BY <5>1
        <5> HIDE DEF q
        <5>4. q = [i \in 1 .. n - from |-> list[from + i]]
          BY <5>1, <5>2, <5>3
        <5> QED
          BY <5>4 DEF q
      <4> QED
        BY <2>2, <2>3, <2>5, <3>1, <3>2, <4>2, <4>5 DEF p, PickAt
    <3>3. CASE list[n].run \notin runs
      <4>1. size(n) = size(n - 1)
        BY <3>1, <3>3
      <4> QED
        BY <2>2, <2>3, <2>5, <3>1, <3>3, <4>1 DEF PickAt
    <3> QED
      BY <3>2, <3>3
  <2> QED
    BY <2>4, <2>5
<1>4. f[Len(list)] = part(Len(list))
  <2> HIDE DEF part
  <2> QED
    BY <1>1, <1>3
<1>5. size(Len(list)) = to - from
  BY <1>1
<1> QED
  BY <1>2, <1>4, <1>5 DEF Part

-----------------------------------------------------------------------------
(* The account.  The traces of a client are those that failed reviews have *)
(* left, and after them those of the calls of its review, one each.        *)

Busy == {"begun", "missed", "sending", "replied", "broken", "restored", "failed"}

\* The calls of the review at hand whose traces the client has.
Traced(c) == IF at[c] = "ended" THEN 0 ELSE IF at[c] \in Busy THEN call[c] - 1 ELSE call[c]

Traces == [run: Nat \ {0}, call: Nat, task: Tasks, model: Models, status: {"success", "error"},
           fallback: BOOLEAN, actual: Models \union {None}]

\* The call at hand: it is within the bound of its review, and its task, its prompt and the model
\* of its reply are known as long as they are needed.
HandOf(c) ==
    /\ run[c] \in Runs(c) /\ call[c] <= Bound[c][run[c]]
    /\ at[c] \in Busy \union {"raised"} => call[c] > 0 /\ task[c] \in Tasks /\ prompt[c] \in Prompts
    /\ at[c] \in {"replied", "restored"} =>
           model[c] = ModelFor[task[c]] /\ actual[c] = ModelFor[task[c]]

CallTypes ==
    /\ task \in [Clients -> Tasks \union {None}]
    /\ prompt \in [Clients -> Prompts \union {Nothing}]
    /\ model \in [Clients -> Models \union {None}] /\ actual \in [Clients -> Models \union {None}]
    /\ run \in [Clients -> Nat] /\ call \in [Clients -> Nat]
    /\ \A c \in Clients : HandOf(c)

\* An entry of a cache holds the reply of the model its key names, and no other has its key.
Routed(entries) ==
    /\ \A e \in entries : e.key \in Keys /\ e.model = e.key[1] /\ e.from = e.key[1]
    /\ \A e, f \in entries : e.key = f.key => e = f

Caches == Routed(shared) /\ \A c \in Clients : Routed(memory[c])

Told(t)   == t.model = ModelFor[t.task] /\ (t.status = "success" => t.actual = t.model)
Marked(t) == t.fallback <=> t.status = "error" \/ provider = "local"

AllTrue(list) == \A i \in 1 .. Len(list) : Told(list[i]) /\ Marked(list[i])

\* All but the mark of a call that has just failed.
TrueSoFar(list) ==
    /\ list[Len(list)].status = "error"
    /\ \A i \in 1 .. Len(list) : Told(list[i]) /\ (i # Len(list) => Marked(list[i]))

TruthOf(c) == IF at[c] = "raised" THEN TrueSoFar(traces[c]) ELSE AllTrue(traces[c])

\* The traces of earlier runs come first, then those of the run r by the numbers of its n calls.
Ordered(list, n, r) ==
    /\ n <= Len(list)
    /\ \A i \in 1 .. Len(list) :
        IF i <= Len(list) - n THEN list[i].run < r
        ELSE list[i].run = r /\ list[i].call = i - (Len(list) - n)

OrderOf(c) == Ordered(traces[c], Traced(c), run[c])

ReportOf(c) ==
    /\ calls[c] \in [Runs(c) -> Seq(Traces)]
    /\ \A r \in Runs(c) : \A i \in 1 .. Len(calls[c][r]) :
        calls[c][r][i].run = r /\ Told(calls[c][r][i]) /\ Marked(calls[c][r][i])
    /\ at[c] = "ended" =>
        /\ Len(calls[c][run[c]]) = call[c]
        /\ \A i \in 1 .. Len(calls[c][run[c]]) : calls[c][run[c]][i].call = i

AccountOf(c) == traces[c] \in Seq(Traces) /\ TruthOf(c) /\ OrderOf(c) /\ ReportOf(c)

Accounts ==
    /\ traces = [c \in Clients |-> traces[c]] /\ calls = [c \in Clients |-> calls[c]]
    /\ \A c \in Clients : AccountOf(c)

AccountInv == CallTypes /\ Caches /\ Accounts

LEMMA InitAccountInv == Init => AccountInv
<1> SUFFICES ASSUME Init PROVE AccountInv
  OBVIOUS
<1> USE DEF Init
<1>1. CallTypes
  <2>1. ASSUME NEW c \in Clients PROVE 1 \in Runs(c) /\ Bound[c][1] \in Nat
    <3>1. Bound[c] \in Seq(Nat) /\ Bound[c] # <<>>
      BY CallsAssumption
    <3> QED
      BY <3>1 DEF Runs
  <2>2. \A c \in Clients : run[c] \in Runs(c) /\ call[c] <= Bound[c][run[c]]
    BY <2>1
  <2> QED
    BY <2>2 DEF CallTypes, HandOf, Busy
<1>2. Caches
  BY DEF Caches, Routed
<1>3. ASSUME NEW c \in Clients PROVE AccountOf(c)
  <2>1. traces[c] = <<>> /\ at[c] = "idle" /\ call[c] = 0 /\ calls[c] = [r \in Runs(c) |-> <<>>]
    BY <1>3
  <2>2. <<>> \in Seq(Traces) /\ Len(<<>>) = 0
    OBVIOUS
  <2>3. Traced(c) = 0
    BY <2>1 DEF Traced, Busy
  <2>4. TruthOf(c) /\ OrderOf(c)
    BY <2>1, <2>2, <2>3 DEF TruthOf, AllTrue, OrderOf, Ordered
  <2>5. ReportOf(c)
    BY <2>1, <2>2 DEF ReportOf
  <2> QED
    BY <2>1, <2>2, <2>4, <2>5 DEF AccountOf
<1> QED
  BY <1>1, <1>2, <1>3 DEF AccountInv, Accounts

-----------------------------------------------------------------------------
(* What a trace more, the mark of the fallback and Picked make of a list.  *)

LEMMA MoreOrdered ==
    ASSUME NEW list \in Seq(Traces), NEW n \in Nat, NEW r \in Nat, Ordered(list, n, r),
           AllTrue(list), NEW t \in Traces, t.run = r, t.call = n + 1, Told(t)
    PROVE  /\ Append(list, t) \in Seq(Traces) /\ Ordered(Append(list, t), n + 1, r)
           /\ Marked(t) => AllTrue(Append(list, t))
           /\ t.status = "error" => TrueSoFar(Append(list, t))
<1>1. PICK q, l : q = Append(list, t) /\ l = Len(list)
  OBVIOUS
<1>2. /\ q \in Seq(Traces) /\ l \in Nat /\ Len(q) = l + 1 /\ q[l + 1] = t
      /\ \A i \in 1 .. l : q[i] = list[i]
  BY <1>1, AppendProperties
<1>3. \A i \in 1 .. l + 1 : i \in 1 .. l \/ i = l + 1
  BY <1>2
<1>4. Ordered(q, n + 1, r)
  <2>1. n <= l /\ \A i \in 1 .. l :
          IF i <= l - n THEN list[i].run < r ELSE list[i].run = r /\ list[i].call = i - (l - n)
    BY <1>1 DEF Ordered
  <2>2. ASSUME NEW i \in 1 .. l + 1
        PROVE  IF i <= (l + 1) - (n + 1) THEN q[i].run < r
               ELSE q[i].run = r /\ q[i].call = i - ((l + 1) - (n + 1))
    <3>1. CASE i \in 1 .. l
      <4>1. q[i] = list[i] /\ (l + 1) - (n + 1) = l - n
        BY <1>2, <3>1
      <4> QED
        BY <2>1, <3>1, <4>1
    <3>2. CASE i = l + 1
      BY <1>2, <2>1, <3>2
    <3> QED
      BY <1>3, <3>1, <3>2
  <2> QED
    BY <1>2, <2>1, <2>2 DEF Ordered
<1>5. ASSUME Marked(t) PROVE AllTrue(q)
  BY <1>1, <1>2, <1>3, <1>5 DEF AllTrue
<1>6. ASSUME t.status = "error" PROVE TrueSoFar(q)
  BY <1>1, <1>2, <1>3, <1>6 DEF AllTrue, TrueSoFar
<1> QED
  BY <1>1, <1>2, <1>4, <1>5, <1>6

LEMMA MarkedOrdered ==
    ASSUME NEW list \in Seq(Traces), NEW n \in Nat, n > 0, NEW r \in Nat, Ordered(list, n, r),
           TrueSoFar(list), NEW q,
           q = [list EXCEPT ![Len(list)] = [list[Len(list)] EXCEPT !.fallback = TRUE]]
    PROVE  q \in Seq(Traces) /\ Ordered(q, n, r) /\ AllTrue(q)
<1>1. PICK l : l = Len(list) /\ l \in Nat /\ l >= 1
  BY DEF Ordered
<1>2. PICK t : t = list[l] /\ t \in Traces
  BY <1>1
<1>3. PICK u : u = [t EXCEPT !.fallback = TRUE]
  OBVIOUS
<1>4. u \in Traces
  BY <1>2, <1>3 DEF Traces
<1>5. u.fallback = TRUE /\ u.run = t.run /\ u.call = t.call
  BY <1>2, <1>3 DEF Traces
<1>6. u.task = t.task /\ u.model = t.model /\ u.status = t.status /\ u.actual = t.actual
  BY <1>2, <1>3 DEF Traces
<1>7. q = [list EXCEPT ![l] = u]
  BY <1>1, <1>2, <1>3
<1>8. q \in Seq(Traces) /\ Len(q) = l /\ q[l] = u /\ \A i \in 1 .. l : i # l => q[i] = list[i]
  <2>1. l \in 1 .. Len(list)
    BY <1>1
  <2>2. /\ [list EXCEPT ![l] = u] \in Seq(Traces) /\ Len([list EXCEPT ![l] = u]) = Len(list)
        /\ \A i \in 1 .. Len(list) : [list EXCEPT ![l] = u][i] = IF i = l THEN u ELSE list[i]
    BY <1>4, <2>1, ExceptSeq
  <2> QED
    BY <1>1, <1>7, <2>1, <2>2
<1>9. \A i \in 1 .. l : q[i].run = list[i].run /\ q[i].call = list[i].call
  BY <1>2, <1>5, <1>8
<1>10. Ordered(q, n, r)
  BY <1>1, <1>8, <1>9 DEF Ordered
<1>11. AllTrue(q)
  <2>1. t.status = "error" /\ Told(t) /\ \A i \in 1 .. l : i # l => Told(list[i]) /\ Marked(list[i])
    BY <1>1, <1>2 DEF TrueSoFar
  <2>2. Told(u)
    BY <1>6, <2>1 DEF Told
  <2>3. Marked(u)
    BY <1>5, <1>6, <2>1 DEF Marked
  <2> QED
    BY <1>1, <1>8, <2>1, <2>2, <2>3 DEF AllTrue
<1> QED
  BY <1>1, <1>2, <1>8, <1>10, <1>11

\* An ordered list is taken apart: the traces of the run r, and those of the other runs up to k.
Parted(list, n, r, k, new, old) ==
    /\ list \in Seq(Traces) /\ n \in Nat /\ r \in Nat /\ k \in Nat /\ r <= k
    /\ Ordered(list, n, r) /\ AllTrue(list)
    /\ new = Picked(list, {r}) /\ old = Picked(list, (1 .. k) \ {r})

\* The traces of the run are numbered like its calls, and those of earlier runs are in their order.
LEMMA PickedOrdered ==
    ASSUME NEW list, NEW n, NEW r, NEW k, NEW new, NEW old, Parted(list, n, r, k, new, old)
    PROVE  /\ new \in Seq(Traces) /\ Len(new) = n
           /\ \A i \in 1 .. n : new[i].run = r /\ new[i].call = i
           /\ AllTrue(new)
           /\ old \in Seq(Traces) /\ Ordered(old, 0, r) /\ AllTrue(old)
<1> USE DEF Parted
<1>1. PICK m \in Nat : m + n = Len(list)
  <2>1. Len(list) \in Nat /\ n <= Len(list)
    BY DEF Ordered
  <2> QED
    BY <2>1
<1>2. \A i \in 1 .. m + n : list[i] \in Traces /\ list[i].run \in Nat \ {0}
  <2>1. \A i \in 1 .. Len(list) : list[i] \in Traces
    OBVIOUS
  <2>2. \A t \in Traces : t.run \in Nat \ {0}
    BY DEF Traces
  <2> QED
    BY <1>1, <2>1, <2>2
<1>3. \A i \in 1 .. m + n : IF i <= m THEN list[i].run < r ELSE list[i].run = r /\ list[i].call = i - m
  <2>1. Len(list) - n = m
    BY <1>1
  <2> QED
    BY <1>1, <2>1 DEF Ordered
<1>4. new = Part(list, m, m + n)
  <2>1. \A i \in 1 .. m + n : (list[i].run \in {r}) <=> (m < i /\ i <= m + n)
    BY <1>2, <1>3
  <2>2. AreOf(list, {r}, m, m + n)
    BY <1>1, <2>1 DEF AreOf
  <2>3. m + n \in Nat /\ m <= m + n /\ m + n <= Len(list)
    BY <1>1
  <2> QED
    BY <2>2, <2>3, PickedIsPart
<1>5. old = Part(list, 0, m)
  <2>1. ASSUME NEW i \in 1 .. m + n
        PROVE  (list[i].run \in (1 .. k) \ {r}) <=> (0 < i /\ i <= m)
    <3>1. list[i].run \in Nat \ {0} /\ (i <= m => list[i].run < r) /\ (~(i <= m) => list[i].run = r)
      BY <1>2, <1>3
    <3> QED
      BY <3>1
  <2>2. AreOf(list, (1 .. k) \ {r}, 0, m)
    BY <1>1, <2>1 DEF AreOf
  <2>3. 0 \in Nat /\ 0 <= m /\ m <= Len(list)
    BY <1>1
  <2> QED
    BY <2>2, <2>3, PickedIsPart
<1>6. new \in Seq(Traces) /\ Len(new) = n /\ \A i \in 1 .. n : new[i] = list[m + i]
  <2>1. m + n \in Nat /\ m <= m + n /\ m + n <= Len(list) /\ (m + n) - m = n
    BY <1>1
  <2>2. new \in Seq(Traces)
    BY <1>4, <2>1, PartIsSeq
  <2>3. Len(new) = n
    <3>1. Len(Part(list, m, m + n)) = (m + n) - m
      BY <2>1, PartIsSeq
    <3> QED
      BY <1>4, <2>1, <3>1
  <2>4. ASSUME NEW i \in 1 .. n PROVE new[i] = list[m + i]
    <3>1. Part(list, m, m + n)[i] = list[m + i]
      BY <2>1, PartAt
    <3> QED
      BY <1>4, <3>1
  <2> QED
    BY <2>2, <2>3, <2>4
<1>7. old \in Seq(Traces) /\ Len(old) = m /\ \A i \in 1 .. m : old[i] = list[i]
  <2>1. 0 \in Nat /\ 0 <= m /\ m <= Len(list) /\ m - 0 = m
    BY <1>1
  <2>2. old \in Seq(Traces)
    BY <1>5, <2>1, PartIsSeq
  <2>3. Len(old) = m
    <3>1. Len(Part(list, 0, m)) = m - 0
      BY <2>1, PartIsSeq
    <3> QED
      BY <1>5, <2>1, <3>1
  <2>4. ASSUME NEW i \in 1 .. m PROVE old[i] = list[i]
    <3>1. 0 + i = i
      OBVIOUS
    <3>2. Part(list, 0, m)[i] = list[0 + i]
      BY <2>1, PartAt
    <3> QED
      BY <1>5, <3>1, <3>2
  <2> QED
    BY <2>2, <2>3, <2>4
<1>8. \A i \in 1 .. n : new[i].run = r /\ new[i].call = i
  <2> SUFFICES ASSUME NEW i \in 1 .. n PROVE new[i].run = r /\ new[i].call = i
    OBVIOUS
  <2>1. m + i \in 1 .. m + n /\ ~(m + i <= m) /\ (m + i) - m = i
    OBVIOUS
  <2> QED
    BY <1>3, <1>6, <2>1
<1>9. AllTrue(new)
  <2>1. \A i \in 1 .. n : m + i \in 1 .. Len(list)
    BY <1>1
  <2> QED
    BY <1>6, <2>1 DEF AllTrue
<1>10. AllTrue(old)
  <2>1. \A i \in 1 .. m : i \in 1 .. Len(list)
    BY <1>1
  <2> QED
    BY <1>7, <2>1 DEF AllTrue
<1>11. Ordered(old, 0, r)
  <2>1. ASSUME NEW i \in 1 .. m PROVE i <= m - 0 /\ old[i].run < r
    <3>1. i \in 1 .. m + n /\ i <= m /\ i <= m - 0
      OBVIOUS
    <3> QED
      BY <1>3, <1>7, <3>1
  <2>2. 0 <= m
    OBVIOUS
  <2> QED
    BY <1>7, <2>1, <2>2 DEF Ordered
<1> QED
  BY <1>6, <1>7, <1>8, <1>9, <1>10, <1>11

-----------------------------------------------------------------------------
(* The steps.                                                              *)

\* A step that leaves the account of a client alone keeps it true.
LEMMA AccountFrame ==
    ASSUME NEW c \in Clients, AccountOf(c), provider' = provider,
           traces'[c] = traces[c], calls'[c] = calls[c], run'[c] = run[c],
           \/ at'[c] = at[c] /\ call'[c] = call[c]
           \/ /\ at[c] # "raised" /\ at'[c] \notin {"ended", "raised"}
              /\ Traced(c)' = Traced(c)
    PROVE  AccountOf(c)'
<1>1. Traced(c)' = Traced(c)
  BY DEF Traced
<1>2. TruthOf(c)'
  BY DEF AccountOf, TruthOf, AllTrue, TrueSoFar, Told, Marked
<1>3. OrderOf(c)'
  BY <1>1 DEF AccountOf, OrderOf, Ordered
<1>4. ReportOf(c)'
  BY DEF AccountOf, ReportOf, Told, Marked, Runs
<1> QED
  BY <1>2, <1>3, <1>4 DEF AccountOf

\* The trace of the call at hand is noted.
LEMMA NotedAccount ==
    ASSUME NEW c \in Clients, CallTypes, AccountOf(c), provider' = provider,
           calls'[c] = calls[c], run'[c] = run[c], call'[c] = call[c],
           at[c] \in Busy, at'[c] \in {"idle", "raised"},
           NEW t \in Traces, traces'[c] = Append(traces[c], t),
           t.run = run[c], t.call = call[c], Told(t),
           IF at'[c] = "raised" THEN t.status = "error" ELSE Marked(t)
    PROVE  AccountOf(c)'
<1>1. PICK list, n, r : list = traces[c] /\ n = call[c] - 1 /\ r = run[c]
  OBVIOUS
<1>2. list \in Seq(Traces) /\ n \in Nat /\ r \in Nat /\ t.run = r /\ t.call = n + 1 /\ call[c] = n + 1
  BY <1>1 DEF AccountOf, CallTypes, HandOf
<1>3. Traced(c) = n /\ Traced(c)' = n + 1 /\ at[c] # "raised" /\ at'[c] # "ended"
  BY <1>1, <1>2 DEF Traced, Busy
<1>4. Ordered(list, n, r) /\ AllTrue(list) /\ ReportOf(c)
  BY <1>1, <1>3 DEF AccountOf, OrderOf, TruthOf
<1>5. PICK q : q = Append(list, t) /\ traces'[c] = q
  BY <1>1
<1>6. /\ q \in Seq(Traces) /\ Ordered(q, n + 1, r)
      /\ IF at'[c] = "raised" THEN TrueSoFar(q) ELSE AllTrue(q)
  <2>1. /\ q \in Seq(Traces) /\ Ordered(q, n + 1, r)
        /\ Marked(t) => AllTrue(q)
        /\ t.status = "error" => TrueSoFar(q)
    BY <1>2, <1>4, <1>5, MoreOrdered
  <2> QED
    BY <2>1
<1>7. TruthOf(c)'
  BY <1>5, <1>6 DEF TruthOf, AllTrue, TrueSoFar, Told, Marked
<1>8. OrderOf(c)'
  BY <1>1, <1>3, <1>5, <1>6 DEF OrderOf, Ordered
<1>9. ReportOf(c)'
  BY <1>3, <1>4 DEF ReportOf, Told, Marked, Runs
<1> QED
  BY <1>5, <1>6, <1>7, <1>8, <1>9 DEF AccountOf

\* The last trace gets the mark of the fallback.
LEMMA DegradedAccount ==
    ASSUME NEW c \in Clients, CallTypes, at \in [Clients -> Places], Accounts, Degrade(c)
    PROVE  AccountOf(c)'
<1>1. PICK list, n, r : list = traces[c] /\ n = call[c] /\ r = run[c]
  OBVIOUS
<1>2. PICK q : q = [list EXCEPT ![Len(list)] = [list[Len(list)] EXCEPT !.fallback = TRUE]]
  OBVIOUS
<1>3. /\ at[c] = "raised" /\ at'[c] = "idle" /\ UNCHANGED <<provider, run, call, calls>>
      /\ traces'[c] = q
  BY <1>1, <1>2 DEF Degrade, Go, request, Accounts
<1>4. list \in Seq(Traces) /\ n \in Nat /\ n > 0 /\ r \in Nat /\ ReportOf(c)
  BY <1>1, <1>3 DEF Accounts, AccountOf, CallTypes, HandOf
<1>5. Traced(c) = n /\ Traced(c)' = n
  BY <1>1, <1>3 DEF Traced, Busy
<1>6. Ordered(list, n, r) /\ TrueSoFar(list)
  BY <1>1, <1>3, <1>5 DEF Accounts, AccountOf, OrderOf, TruthOf
<1>7. q \in Seq(Traces) /\ Ordered(q, n, r) /\ AllTrue(q)
  BY <1>2, <1>4, <1>6, MarkedOrdered
<1>9. TruthOf(c)'
  BY <1>3, <1>7 DEF TruthOf, AllTrue, Told, Marked
<1>10. OrderOf(c)'
  BY <1>1, <1>3, <1>5, <1>7 DEF OrderOf, Ordered
<1>11. ReportOf(c)'
  BY <1>3, <1>4 DEF ReportOf, Told, Marked, Runs
<1> QED
  BY <1>3, <1>7, <1>9, <1>10, <1>11 DEF AccountOf

\* The traces of the review go into its report, and those of older reviews stay.
LEMMA DrainedAccount ==
    ASSUME NEW c \in Clients, CallTypes, Accounts, at \in [Clients -> Places], Drain(c)
    PROVE  AccountOf(c)'
<1>1. PICK list, n, r : list = traces[c] /\ n = call[c] /\ r = run[c]
  OBVIOUS
<1>2. PICK new, old : new = Picked(list, {r}) /\ old = Picked(list, Runs(c) \ {r})
  OBVIOUS
<1>3. /\ at[c] = "idle" /\ at'[c] = "ended" /\ UNCHANGED <<provider, run, call>>
      /\ calls' = [calls EXCEPT ![c][r] = new] /\ traces'[c] = old
  BY <1>1, <1>2 DEF Drain, Go, request, Accounts
<1>4. list \in Seq(Traces) /\ n \in Nat /\ r \in Nat /\ r \in Runs(c) /\ ReportOf(c)
  BY <1>1 DEF Accounts, AccountOf, CallTypes, HandOf
<1>5. Traced(c) = n /\ Traced(c)' = 0
  BY <1>1, <1>3 DEF Traced, Busy
<1>6. Ordered(list, n, r) /\ AllTrue(list)
  BY <1>1, <1>3, <1>5 DEF Accounts, AccountOf, OrderOf, TruthOf
<1>7. PICK k \in Nat : Runs(c) = 1 .. k /\ r <= k
  BY <1>4, CallsAssumption DEF Runs
<1>8. /\ new \in Seq(Traces) /\ Len(new) = n
      /\ \A i \in 1 .. n : new[i].run = r /\ new[i].call = i
      /\ AllTrue(new)
      /\ old \in Seq(Traces) /\ Ordered(old, 0, r) /\ AllTrue(old)
  <2>1. old = Picked(list, (1 .. k) \ {r})
    BY <1>2, <1>7
  <2>2. Parted(list, n, r, k, new, old)
    BY <1>2, <1>4, <1>6, <1>7, <2>1 DEF Parted
  <2> QED
    BY <2>2, PickedOrdered
<1>9. calls'[c] = [calls[c] EXCEPT ![r] = new]
  BY <1>3 DEF Accounts
<1>10. calls[c] \in [Runs(c) -> Seq(Traces)]
  BY <1>4 DEF ReportOf
<1>11. calls'[c] \in [Runs(c) -> Seq(Traces)] /\ calls'[c][r] = new
       /\ \A x \in Runs(c) : x # r => calls'[c][x] = calls[c][x]
  BY <1>4, <1>8, <1>9, <1>10
<1>12. TruthOf(c)'
  BY <1>3, <1>8 DEF TruthOf, AllTrue, Told, Marked
<1>13. OrderOf(c)'
  BY <1>1, <1>3, <1>5, <1>8 DEF OrderOf, Ordered
<1>14. ReportOf(c)'
  <2>1. ASSUME NEW x \in Runs(c), NEW i \in 1 .. Len(calls'[c][x])
        PROVE  calls'[c][x][i].run = x /\ Told(calls'[c][x][i]) /\ Marked(calls'[c][x][i])
    <3>1. CASE x = r
      BY <1>8, <1>11, <2>1, <3>1 DEF AllTrue
    <3>2. CASE x # r
      BY <1>4, <1>11, <2>1, <3>2 DEF ReportOf
    <3> QED
      BY <3>1, <3>2
  <2>2. \A x \in Runs(c) : \A i \in 1 .. Len(calls'[c][x]) :
          calls'[c][x][i].run = x /\ Told(calls'[c][x][i]) /\ Marked(calls'[c][x][i])
    BY <2>1
  <2>3. run'[c] = r /\ call'[c] = n
    BY <1>1, <1>3
  <2>4. Len(calls'[c][run'[c]]) = call'[c] /\ \A i \in 1 .. Len(calls'[c][run'[c]]) : calls'[c][run'[c]][i].call = i
    BY <1>8, <1>11, <2>3
  <2> QED
    BY <1>3, <1>11, <2>2, <2>4 DEF ReportOf, Told, Marked, Runs
<1> QED
  BY <1>3, <1>8, <1>12, <1>13, <1>14 DEF AccountOf

LEMMA AccountsFrame ==
    ASSUME Accounts, at \in [Clients -> Places], NEW c \in Clients,
           UNCHANGED <<provider, traces, calls, run>>,
           \A d \in Clients : d # c => at'[d] = at[d] /\ call'[d] = call[d],
           \/ at'[c] = at[c] /\ call'[c] = call[c]
           \/ /\ at[c] # "raised" /\ at'[c] \notin {"ended", "raised"}
              /\ Traced(c)' = Traced(c)
    PROVE  Accounts'
<1>1. \A d \in Clients : AccountOf(d)'
  BY AccountFrame DEF Accounts
<1> QED
  BY <1>1 DEF Accounts

LEMMA AccountsChange ==
    ASSUME Accounts, NEW c \in Clients, AccountOf(c)', provider' = provider,
           traces' = [d \in Clients |-> traces'[d]], calls' = [d \in Clients |-> calls'[d]],
           \A d \in Clients : d # c =>
               /\ at'[d] = at[d] /\ call'[d] = call[d] /\ run'[d] = run[d]
               /\ traces'[d] = traces[d] /\ calls'[d] = calls[d]
    PROVE  Accounts'
<1>1. ASSUME NEW d \in Clients PROVE AccountOf(d)'
  BY <1>1, AccountFrame DEF Accounts
<1> QED
  BY <1>1 DEF Accounts

\* The key of a call and the entry made of its reply.
LEMMA KeyFacts ==
    ASSUME NEW c \in Clients, task[c] \in Tasks, prompt[c] \in Prompts
    PROVE  KeyOf(c) \in Keys /\ KeyOf(c)[1] = ModelFor[task[c]] /\ ModelFor[task[c]] \in Models
<1>1. PICK k \in Tasks, text \in {Mask(p) : p \in Prompts} \union Prompts :
        k = task[c] /\ text = Outbound(c)
  BY DEF Outbound
<1>2. PICK m : m = ModelFor[k] /\ m \in Models
  BY CallsAssumption
<1>3. KeyOf(c) = <<m, k, text>>
  BY <1>1, <1>2 DEF KeyOf
<1>4. <<m, k, text>> \in Keys
  BY <1>2 DEF Keys
<1> QED
  BY <1>1, <1>2, <1>3, <1>4

LEMMA RoutedWith ==
    ASSUME NEW entries, Routed(entries), NEW e, e.key \in Keys, e.model = e.key[1], e.from = e.key[1]
    PROVE  Routed(With(entries, e))
  BY DEF Routed, With

LEMMA CallKeepsAccount ==
    ASSUME CallsInv, AccountInv, NEW c \in Clients, Call(c)
    PROVE  AccountInv'
<1>1. /\ at[c] = "idle" /\ at' = [at EXCEPT ![c] = "begun"]
      /\ call[c] < Bound[c][run[c]] /\ call' = [call EXCEPT ![c] = @ + 1]
      /\ UNCHANGED <<provider, run, reply, model, actual, circuit, cache, account, outside>>
  BY DEF Call, Go
<1>2. PICK k \in Tasks, p \in Prompts : task' = [task EXCEPT ![c] = k] /\ prompt' = [prompt EXCEPT ![c] = p]
  BY DEF Call
<1>3. at \in [Clients -> Places] /\ CallTypes /\ Caches /\ Accounts
  BY DEF CallsInv, Types, AccountInv
<1>4. Bound[c][run[c]] \in Nat /\ call[c] \in Nat /\ call[c] >= 0
  BY <1>3, CallsAssumption DEF CallTypes, HandOf, Runs
<1>5. CallTypes'
  <2>1. \A d \in Clients : d # c => HandOf(d)'
    BY <1>1, <1>2, <1>3 DEF CallTypes, HandOf, Runs
  <2>2. HandOf(c)'
    <3>1. at'[c] = "begun" /\ call'[c] = call[c] + 1 /\ task'[c] = k /\ prompt'[c] = p /\ run' = run
      BY <1>1, <1>2, <1>3 DEF CallTypes
    <3>2. call'[c] <= Bound[c][run'[c]] /\ call'[c] > 0
      BY <1>1, <1>4, <3>1
    <3> QED
      BY <1>3, <3>1, <3>2 DEF CallTypes, HandOf, Runs
  <2>3. task' \in [Clients -> Tasks \union {None}] /\ prompt' \in [Clients -> Prompts \union {Nothing}]
        /\ call' \in [Clients -> Nat]
    BY <1>1, <1>2, <1>3 DEF CallTypes
  <2> QED
    BY <1>1, <1>3, <2>1, <2>2, <2>3 DEF CallTypes
<1>6. Caches'
  BY <1>1, <1>3 DEF Caches, cache
<1>7. Accounts'
  <2>1. Traced(c)' = Traced(c)
    BY <1>1, <1>3, <1>4 DEF Traced, Busy, CallTypes
  <2>2. at'[c] = "begun" /\ \A d \in Clients : d # c => at'[d] = at[d] /\ call'[d] = call[d]
    BY <1>1, <1>3 DEF CallTypes
  <2> QED
    BY <1>1, <1>3, <2>1, <2>2, AccountsFrame DEF account
<1> QED
  BY <1>5, <1>6, <1>7 DEF AccountInv

\* The steps between the begin of a call and its trace.
LEMMA BusyKeepsAccounts ==
    ASSUME Accounts, at \in [Clients -> Places], NEW c \in Clients, NEW to \in Busy,
           at[c] \in Busy, at' = [at EXCEPT ![c] = to],
           UNCHANGED <<provider, request, account>>
    PROVE  Accounts'
<1>1. Traced(c)' = Traced(c) /\ at'[c] = to
  BY DEF Traced, Busy, request
<1> QED
  BY <1>1, AccountsFrame DEF Busy, request, account

LEMMA BusyKeepsAccount ==
    ASSUME CallsInv, AccountInv, NEW c \in Clients,
           Local(c) \/ Look(c) \/ Gate(c) \/ Send(c) \/ Break(c) \/ Keep(c)
    PROVE  AccountInv'
<1>1. /\ at \in [Clients -> Places] /\ memory = [d \in Clients |-> memory[d]]
      /\ CallTypes /\ Caches /\ Accounts
  BY DEF CallsInv, Types, AccountInv
<1>2. PICK to \in Busy : at[c] \in Busy /\ at' = [at EXCEPT ![c] = to]
  BY DEF Local, Look, Gate, Send, Break, Keep, Go, Busy
<1>3. UNCHANGED <<provider, request, account>>
  BY DEF Local, Look, Gate, Send, Break, Keep, account
<1>4. Accounts'
  BY <1>1, <1>2, <1>3, BusyKeepsAccounts
<1>5. task[c] \in Tasks /\ prompt[c] \in Prompts
  BY <1>1, <1>2 DEF CallTypes, HandOf
<1>6. PICK m : m = ModelFor[task[c]] /\ m \in Models /\ KeyOf(c) \in Keys /\ KeyOf(c)[1] = m
  BY <1>5, KeyFacts
<1>7. \/ UNCHANGED <<model, actual>> /\ (at'[c] \in {"replied", "restored"} => at[c] \in {"replied", "restored"})
      \/ model' = [model EXCEPT ![c] = m] /\ actual' = [actual EXCEPT ![c] = m]
  <2>1. CASE Local(c)
    BY <1>6, <2>1 DEF Local
  <2>2. CASE Look(c)
    <3>1. ASSUME NEW e \in Entries(c), e.key = KeyOf(c), model' = [model EXCEPT ![c] = e.model],
                 actual' = [actual EXCEPT ![c] = e.from]
          PROVE  model' = [model EXCEPT ![c] = m] /\ actual' = [actual EXCEPT ![c] = m]
      <4>1. e.model = e.key[1] /\ e.from = e.key[1]
        BY <1>1, <3>1 DEF Caches, Routed, Entries
      <4>2. e.model = m /\ e.from = m
        BY <1>6, <3>1, <4>1
      <4> QED
        BY <3>1, <4>2
    <3>2. ASSUME at' = [at EXCEPT ![c] = "missed"], UNCHANGED <<model, actual>>
          PROVE  UNCHANGED <<model, actual>> /\ at'[c] \notin {"replied", "restored"}
      BY <1>1, <3>2
    <3> QED
      BY <2>2, <3>1, <3>2 DEF Look
  <2>3. CASE Gate(c)
    BY <1>1, <2>3 DEF Gate, result
  <2>4. CASE Send(c)
    BY <1>1, <1>6, <2>4 DEF Send, Go
  <2>5. CASE Break(c)
    BY <1>1, <2>5 DEF Break, Go, result
  <2>6. CASE Keep(c)
    BY <1>1, <2>6 DEF Keep, Go
  <2> QED
    BY <2>1, <2>2, <2>3, <2>4, <2>5, <2>6
<1>8. CallTypes'
  <2>1. UNCHANGED <<run, call, task, prompt>>
    BY <1>3 DEF request
  <2>2. \A d \in Clients : d # c => at'[d] = at[d] /\ model'[d] = model[d] /\ actual'[d] = actual[d]
    BY <1>1, <1>2, <1>7 DEF CallTypes
  <2>3. \A d \in Clients : d # c => HandOf(d)'
    BY <1>1, <2>1, <2>2 DEF CallTypes, HandOf, Runs
  <2>4. HandOf(c)'
    <3>1. at'[c] \in {"replied", "restored"} => model'[c] = m /\ actual'[c] = m
      BY <1>1, <1>6, <1>7 DEF CallTypes, HandOf
    <3> QED
      BY <1>1, <1>2, <1>6, <2>1, <3>1 DEF CallTypes, HandOf, Runs
  <2>5. model' \in [Clients -> Models \union {None}] /\ actual' \in [Clients -> Models \union {None}]
    BY <1>1, <1>6, <1>7 DEF CallTypes
  <2> QED
    BY <1>1, <2>1, <2>3, <2>4, <2>5 DEF CallTypes
<1>9. Caches'
  <2>1. CASE Keep(c)
    <3>1. model[c] = m /\ actual[c] = m
      BY <1>1, <1>6, <2>1 DEF Keep, Go, CallTypes, HandOf
    <3>2. Entry(c).key \in Keys /\ Entry(c).model = Entry(c).key[1] /\ Entry(c).from = Entry(c).key[1]
      BY <1>6, <3>1 DEF Entry
    <3>3. Routed(With(shared, Entry(c))) /\ Routed(With(memory[c], Entry(c)))
      BY <1>1, <3>2, RoutedWith DEF Caches
    <3>4. \/ shared' = With(shared, Entry(c)) /\ memory' = memory
          \/ shared' = shared /\ memory' = memory
          \/ shared' = shared /\ memory' = [memory EXCEPT ![c] = With(memory[c], Entry(c))]
      BY <2>1 DEF Keep
    <3>5. Routed(shared')
      BY <1>1, <3>3, <3>4 DEF Caches
    <3>6. \A d \in Clients : memory'[d] = memory[d] \/ (d = c /\ memory'[d] = With(memory[d], Entry(c)))
      BY <1>1, <3>4
    <3>7. \A d \in Clients : Routed(memory'[d])
      BY <1>1, <3>3, <3>6 DEF Caches
    <3> QED
      BY <3>5, <3>7 DEF Caches, Routed
  <2>2. CASE ~Keep(c)
    <3>1. UNCHANGED cache
      BY <2>2 DEF Local, Look, Gate, Send, Break
    <3> QED
      BY <1>1, <3>1 DEF Caches, cache
  <2> QED
    BY <2>1, <2>2
<1> QED
  BY <1>4, <1>8, <1>9 DEF AccountInv

LEMMA TraceKeepsAccount ==
    ASSUME CallsInv, AccountInv, NEW c \in Clients, TraceAnswer(c) \/ TraceError(c)
    PROVE  AccountInv'
<1>1. at \in [Clients -> Places] /\ provider \in {"remote", "local"} /\ CallTypes /\ Caches /\ Accounts
  BY DEF CallsInv, Types, AccountInv
<1>2. at[c] \in Busy /\ UNCHANGED <<provider, request, calls, cache>>
  BY DEF TraceAnswer, TraceError, Go, Busy
<1>3. task[c] \in Tasks /\ ModelFor[task[c]] \in Models /\ call[c] \in Nat /\ run[c] \in Nat \ {0}
      /\ actual[c] \in Models \union {None}
  BY <1>1, <1>2, CallsAssumption DEF CallTypes, HandOf, Runs
<1>4. PICK b \in BOOLEAN : b <=> provider = "local"
  OBVIOUS
<1>5. PICK t : /\ traces' = [traces EXCEPT ![c] = Append(@, t)] /\ t \in Traces
               /\ t.run = run[c] /\ t.call = call[c] /\ Told(t)
               /\ \/ at' = [at EXCEPT ![c] = "raised"] /\ t.status = "error"
                  \/ at' = [at EXCEPT ![c] = "idle"] /\ Marked(t)
  <2>1. CASE TraceAnswer(c)
    <3> DEFINE t == TraceOf(c, model[c], "success")
    <3>1. at[c] = "restored" /\ at' = [at EXCEPT ![c] = "idle"] /\ traces' = [traces EXCEPT ![c] = Append(@, t)]
      BY <2>1 DEF TraceAnswer, Go, Note
    <3>2. model[c] = ModelFor[task[c]] /\ actual[c] = ModelFor[task[c]]
      BY <1>1, <3>1 DEF CallTypes, HandOf
    <3>3. t \in Traces
      BY <1>3, <3>2 DEF TraceOf, Traces
    <3>4. t.run = run[c] /\ t.call = call[c] /\ Told(t)
      BY <3>2 DEF TraceOf, Told
    <3>5. Marked(t)
      BY DEF TraceOf, Marked
    <3> QED
      BY <3>1, <3>3, <3>4, <3>5
  <2>2. CASE TraceError(c)
    <3> DEFINE t == TraceOf(c, ModelFor[task[c]], "error")
    <3>1. at' = [at EXCEPT ![c] = "raised"] /\ traces' = [traces EXCEPT ![c] = Append(@, t)]
      BY <2>2 DEF TraceError, Go, Note
    <3>2. t \in Traces
      BY <1>3 DEF TraceOf, Traces
    <3>3. t.run = run[c] /\ t.call = call[c] /\ Told(t) /\ t.status = "error"
      BY DEF TraceOf, Told
    <3> QED
      BY <3>1, <3>2, <3>3
  <2> QED
    BY <2>1, <2>2
<1>6. AccountOf(c)'
  <2>1. traces'[c] = Append(traces[c], t) /\ calls'[c] = calls[c] /\ run'[c] = run[c] /\ call'[c] = call[c]
    BY <1>1, <1>2, <1>5 DEF Accounts, request
  <2>2. at'[c] \in {"idle", "raised"} /\ IF at'[c] = "raised" THEN t.status = "error" ELSE Marked(t)
    BY <1>1, <1>5
  <2>3. AccountOf(c)
    BY <1>1 DEF Accounts
  <2> QED
    BY <1>1, <1>2, <1>5, <2>1, <2>2, <2>3, NotedAccount
<1>7. Accounts'
  <2>1. traces' = [d \in Clients |-> traces'[d]] /\ calls' = [d \in Clients |-> calls'[d]]
        /\ \A d \in Clients : d # c =>
              /\ at'[d] = at[d] /\ call'[d] = call[d] /\ run'[d] = run[d]
              /\ traces'[d] = traces[d] /\ calls'[d] = calls[d]
    BY <1>1, <1>2, <1>5 DEF Accounts, request
  <2> QED
    BY <1>1, <1>2, <1>6, <2>1, AccountsChange
<1>8. CallTypes'
  <2>1. UNCHANGED <<run, call, task, prompt>> /\ at'[c] \in {"idle", "raised"}
        /\ \A d \in Clients : d # c => at'[d] = at[d]
    BY <1>1, <1>2, <1>5 DEF request
  <2>2. /\ model' \in [Clients -> Models \union {None}] /\ actual' \in [Clients -> Models \union {None}]
        /\ \A d \in Clients : d # c => model'[d] = model[d] /\ actual'[d] = actual[d]
    BY <1>1 DEF TraceAnswer, TraceError, Forget, result, CallTypes
  <2>3. \A d \in Clients : d # c => HandOf(d)'
    BY <1>1, <2>1, <2>2 DEF CallTypes, HandOf, Runs
  <2>4. HandOf(c)'
    BY <1>1, <1>2, <2>1 DEF CallTypes, HandOf, Runs
  <2> QED
    BY <1>1, <2>1, <2>2, <2>3, <2>4 DEF CallTypes
<1> QED
  BY <1>1, <1>2, <1>7, <1>8 DEF AccountInv, Caches, cache

LEMMA DegradeKeepsAccount ==
    ASSUME CallsInv, AccountInv, NEW c \in Clients, Degrade(c)
    PROVE  AccountInv'
<1>1. at \in [Clients -> Places] /\ CallTypes /\ Caches /\ Accounts
  BY DEF CallsInv, Types, AccountInv
<1>2. /\ at' = [at EXCEPT ![c] = "idle"] /\ UNCHANGED <<provider, request, calls, cache>>
      /\ traces' = [traces EXCEPT ![c] = traces'[c]]
  BY <1>1 DEF Degrade, Go, Accounts
<1>3. AccountOf(c)'
  BY <1>1, DegradedAccount
<1>4. Accounts'
  <2>1. traces' = [d \in Clients |-> traces'[d]] /\ calls' = [d \in Clients |-> calls'[d]]
        /\ \A d \in Clients : d # c =>
              /\ at'[d] = at[d] /\ call'[d] = call[d] /\ run'[d] = run[d]
              /\ traces'[d] = traces[d] /\ calls'[d] = calls[d]
    BY <1>1, <1>2 DEF Accounts, request
  <2> QED
    BY <1>1, <1>2, <1>3, <2>1, AccountsChange
<1>5. CallTypes'
  <2>1. UNCHANGED <<run, call, task, prompt>> /\ at'[c] = "idle" /\ \A d \in Clients : d # c => at'[d] = at[d]
    BY <1>1, <1>2 DEF request
  <2>2. /\ model' \in [Clients -> Models \union {None}] /\ actual' \in [Clients -> Models \union {None}]
        /\ \A d \in Clients : d # c => model'[d] = model[d] /\ actual'[d] = actual[d]
    BY <1>1 DEF Degrade, Forget, CallTypes
  <2>3. \A d \in Clients : HandOf(d)'
    BY <1>1, <2>1, <2>2 DEF CallTypes, HandOf, Runs, Busy
  <2> QED
    BY <1>1, <2>1, <2>2, <2>3 DEF CallTypes
<1> QED
  BY <1>1, <1>2, <1>4, <1>5 DEF AccountInv, Caches, cache

LEMMA DrainKeepsAccount ==
    ASSUME CallsInv, AccountInv, NEW c \in Clients, Drain(c)
    PROVE  AccountInv'
<1>1. at \in [Clients -> Places] /\ CallTypes /\ Caches /\ Accounts
  BY DEF CallsInv, Types, AccountInv
<1>2. PICK old, new :
        /\ at' = [at EXCEPT ![c] = "ended"] /\ UNCHANGED <<provider, request, result, cache>>
        /\ traces' = [traces EXCEPT ![c] = old] /\ calls' = [calls EXCEPT ![c] = new]
  BY DEF Drain, Go
<1>3. AccountOf(c)'
  BY <1>1, DrainedAccount
<1>4. Accounts'
  <2>1. traces' = [d \in Clients |-> traces'[d]] /\ calls' = [d \in Clients |-> calls'[d]]
        /\ \A d \in Clients : d # c =>
              /\ at'[d] = at[d] /\ call'[d] = call[d] /\ run'[d] = run[d]
              /\ traces'[d] = traces[d] /\ calls'[d] = calls[d]
    BY <1>1, <1>2 DEF Accounts, request
  <2> QED
    BY <1>1, <1>2, <1>3, <2>1, AccountsChange
<1>5. CallTypes'
  <2>1. UNCHANGED <<run, call, task, prompt, model, actual>> /\ at'[c] = "ended"
        /\ \A d \in Clients : d # c => at'[d] = at[d]
    BY <1>1, <1>2 DEF request, result
  <2>2. \A d \in Clients : HandOf(d)'
    BY <1>1, <2>1 DEF CallTypes, HandOf, Runs, Busy
  <2> QED
    BY <1>1, <2>1, <2>2 DEF CallTypes
<1> QED
  BY <1>1, <1>2, <1>4, <1>5 DEF AccountInv, Caches, cache

LEMMA AbandonKeepsAccount ==
    ASSUME CallsInv, AccountInv, NEW c \in Clients, Abandon(c)
    PROVE  AccountInv'
<1>1. at \in [Clients -> Places] /\ CallTypes /\ Caches /\ Accounts
  BY DEF CallsInv, Types, AccountInv
<1>2. /\ at[c] = "idle" /\ at' = [at EXCEPT ![c] = "failed review"]
      /\ UNCHANGED <<provider, run, call, task, prompt, model, actual, cache, traces, calls>>
  BY DEF Abandon, Go, request, result, account
<1>3. at'[c] = "failed review" /\ \A d \in Clients : d # c => at'[d] = at[d]
  BY <1>1, <1>2
<1>4. Accounts'
  <2>1. Traced(c)' = Traced(c)
    BY <1>2, <1>3 DEF Traced, Busy
  <2> QED
    BY <1>1, <1>2, <1>3, <2>1, AccountsFrame
<1>5. CallTypes'
  <2>1. \A d \in Clients : HandOf(d)'
    BY <1>1, <1>2, <1>3 DEF CallTypes, HandOf, Runs, Busy
  <2> QED
    BY <1>1, <1>2, <2>1 DEF CallTypes
<1> QED
  BY <1>1, <1>2, <1>4, <1>5 DEF AccountInv, Caches, cache

\* All traces a review has left, or the next has found, are of earlier reviews than the one after.
LEMMA NextRunKeepsAccount ==
    ASSUME CallsInv, AccountInv, NEW c \in Clients, NextRun(c)
    PROVE  AccountInv'
<1>1. at \in [Clients -> Places] /\ CallTypes /\ Caches /\ Accounts
  BY DEF CallsInv, Types, AccountInv
<1>2. /\ at[c] \in {"ended", "failed review"} /\ at' = [at EXCEPT ![c] = "idle"]
      /\ run[c] + 1 \in Runs(c) /\ run' = [run EXCEPT ![c] = @ + 1] /\ call' = [call EXCEPT ![c] = 0]
      /\ UNCHANGED <<provider, task, prompt, model, actual, cache, traces, calls>>
  BY DEF NextRun, result, account
<1>3. /\ at'[c] = "idle" /\ run'[c] = run[c] + 1 /\ call'[c] = 0
      /\ \A d \in Clients : d # c => at'[d] = at[d] /\ run'[d] = run[d] /\ call'[d] = call[d]
  BY <1>1, <1>2 DEF CallTypes
<1>4. AccountOf(c)'
  <2>1. PICK list, r : list = traces[c] /\ r = run[c]
    OBVIOUS
  <2>2. list \in Seq(Traces) /\ r \in Nat /\ traces'[c] = list /\ run'[c] = r + 1
    BY <1>1, <1>2, <1>3, <2>1 DEF Accounts, AccountOf, CallTypes
  <2>3. \A i \in 1 .. Len(list) : list[i].run <= r /\ list[i].run \in Nat
    <3>1. \A i \in 1 .. Len(list) : list[i] \in Traces
      BY <2>2
    <3>2. \A t \in Traces : t.run \in Nat
      BY DEF Traces
    <3>3. PICK n : Ordered(list, n, r)
      BY <1>1, <2>1 DEF Accounts, AccountOf, OrderOf
    <3> QED
      BY <2>2, <3>1, <3>2, <3>3 DEF Ordered
  <2>4. Ordered(list, 0, r + 1)
    <3>1. Len(list) \in Nat /\ \A i \in 1 .. Len(list) : i <= Len(list) - 0
      BY <2>2
    <3>2. \A i \in 1 .. Len(list) : list[i].run < r + 1
      BY <2>2, <2>3
    <3> QED
      BY <3>1, <3>2 DEF Ordered
  <2>5. Traced(c)' = 0
    BY <1>3 DEF Traced, Busy
  <2>6. OrderOf(c)'
    BY <2>2, <2>4, <2>5 DEF OrderOf, Ordered
  <2>7. TruthOf(c)'
    <3>1. at[c] # "raised" /\ TruthOf(c) /\ provider' = provider /\ at'[c] # "raised"
      BY <1>1, <1>2, <1>3 DEF Accounts, AccountOf
    <3>2. AllTrue(list)
      BY <2>1, <3>1 DEF TruthOf
    <3>3. AllTrue(list)'
      BY <3>1, <3>2 DEF AllTrue, Told, Marked
    <3> QED
      BY <2>2, <3>1, <3>3 DEF TruthOf, AllTrue
  <2>8. ReportOf(c)'
    <3>1. ReportOf(c)
      BY <1>1 DEF Accounts, AccountOf
    <3>2. calls'[c] = calls[c] /\ provider' = provider /\ at'[c] # "ended"
      BY <1>2, <1>3
    <3> QED
      BY <3>1, <3>2 DEF ReportOf, Told, Marked, Runs
  <2> QED
    BY <2>2, <2>6, <2>7, <2>8 DEF AccountOf
<1>5. Accounts'
  <2>1. traces' = [d \in Clients |-> traces'[d]] /\ calls' = [d \in Clients |-> calls'[d]]
    BY <1>1, <1>2 DEF Accounts
  <2> QED
    BY <1>1, <1>2, <1>3, <1>4, <2>1, AccountsChange
<1>6. CallTypes'
  <2>1. ASSUME NEW d \in Clients, d # c PROVE HandOf(d)'
    <3>1. HandOf(d)
      BY <1>1 DEF CallTypes
    <3>2. /\ at'[d] = at[d] /\ run'[d] = run[d] /\ call'[d] = call[d]
          /\ UNCHANGED <<task, prompt, model, actual>>
      BY <1>2, <1>3, <2>1
    <3> QED
      BY <3>1, <3>2 DEF HandOf, Runs
  <2>2. HandOf(c)'
    <3>1. PICK x : x = run'[c] /\ x \in Runs(c)
      BY <1>2, <1>3
    <3>2. Bound[c] \in Seq(Nat) /\ Bound[c][x] \in Nat
      BY <3>1, CallsAssumption DEF Runs
    <3>3. call'[c] <= Bound[c][x]
      BY <1>3, <3>2
    <3> QED
      BY <1>3, <3>1, <3>3 DEF HandOf, Runs, Busy
  <2>3. run' \in [Clients -> Nat] /\ call' \in [Clients -> Nat]
    <3>1. run \in [Clients -> Nat] /\ call \in [Clients -> Nat]
      BY <1>1 DEF CallTypes
    <3>2. run[c] + 1 \in Nat
      BY <3>1
    <3>3. run' \in [Clients -> Nat]
      <4>1. run' = [run EXCEPT ![c] = run[c] + 1]
        BY <1>2
      <4> QED
        BY <3>1, <3>2, <4>1
    <3>4. call' \in [Clients -> Nat]
      <4>1. call' = [call EXCEPT ![c] = 0]
        BY <1>2
      <4> QED
        BY <3>1, <4>1
    <3> QED
      BY <3>3, <3>4
  <2>4. UNCHANGED <<task, prompt, model, actual>>
    BY <1>2
  <2>5. \A d \in Clients : HandOf(d)'
    BY <2>1, <2>2
  <2> QED
    BY <1>1, <2>3, <2>4, <2>5 DEF CallTypes
<1> QED
  BY <1>1, <1>2, <1>5, <1>6 DEF AccountInv, Caches, cache

LEMMA AccountInvStep == CallsInv /\ AccountInv /\ [Next]_vars => AccountInv'
<1> SUFFICES ASSUME CallsInv, AccountInv, [Next]_vars PROVE AccountInv'
  OBVIOUS
<1>1. ASSUME NEW c \in Clients, Cool(c) PROVE AccountInv'
  <2>1. UNCHANGED <<provider, at, request, result, cache, account>>
    BY <1>1 DEF Cool
  <2>2. at \in [Clients -> Places] /\ CallTypes /\ Caches /\ Accounts
    BY DEF CallsInv, Types, AccountInv
  <2>3. Accounts'
    BY <1>1, <2>1, <2>2, AccountsFrame DEF request, account
  <2> QED
    BY <2>1, <2>2, <2>3 DEF AccountInv, CallTypes, HandOf, Runs, Caches, request, result, cache
<1>2. ASSUME UNCHANGED vars PROVE AccountInv'
  <2>1. UNCHANGED <<provider, at, request, result, cache, account>>
    BY <1>2 DEF vars
  <2>2. at \in [Clients -> Places] /\ CallTypes /\ Caches /\ Accounts
    BY DEF CallsInv, Types, AccountInv
  <2>3. \A d \in Clients : AccountOf(d)'
    BY <2>1, <2>2, AccountFrame DEF Accounts, request, account
  <2> QED
    BY <2>1, <2>2, <2>3 DEF AccountInv, Accounts, CallTypes, HandOf, Runs, Caches, request, result, cache, account
<1> QED
  BY <1>1, <1>2, CallKeepsAccount, BusyKeepsAccount, TraceKeepsAccount, DegradeKeepsAccount,
     DrainKeepsAccount, AbandonKeepsAccount, NextRunKeepsAccount DEF Next

LEMMA AccountInvAlways == Spec => [](CallsInv /\ AccountInv)
  BY InitCallsInv, CallsInvStep, InitAccountInv, AccountInvStep, PTL DEF Spec

\* Every variable has its type, a cache holds one entry for a key, and a client the traces of its
\* reviews only.
THEOREM TypesHold == Spec => []TypeOK
<1>1. ASSUME CallsInv, AccountInv PROVE TypeOK
  <2>1. at \in [Clients -> Places] /\ CallTypes /\ Caches /\ Accounts
    BY <1>1 DEF CallsInv, Types, AccountInv
  <2>2. ASSUME NEW c \in Clients PROVE run[c] \in Runs(c) /\ call[c] \in 0 .. Bound[c][run[c]]
    <3>1. run[c] \in Runs(c) /\ call[c] \in Nat /\ call[c] <= Bound[c][run[c]]
      BY <2>1, <2>2 DEF CallTypes, HandOf
    <3>2. Bound[c][run[c]] \in Nat
      BY <3>1, CallsAssumption DEF Runs
    <3> QED
      BY <3>1, <3>2
  <2>3. ASSUME NEW c \in Clients, NEW e \in Entries(c), NEW f \in Entries(c)
        PROVE  e.key \in Keys /\ (e.key = f.key => e = f)
    BY <2>1, <2>3 DEF Caches, Routed, Entries
  <2>4. ASSUME NEW c \in Clients, NEW i \in 1 .. Len(traces[c]) PROVE traces[c][i].run \in 1 .. run[c]
    <3>1. traces[c] \in Seq(Traces) /\ Ordered(traces[c], Traced(c), run[c]) /\ run[c] \in Nat
      BY <2>1 DEF Accounts, AccountOf, OrderOf, CallTypes
    <3>2. traces[c][i] \in Traces
      BY <2>4, <3>1
    <3>3. traces[c][i].run \in Nat \ {0}
      BY <3>2 DEF Traces
    <3>4. traces[c][i].run < run[c] \/ traces[c][i].run = run[c]
      BY <2>4, <3>1 DEF Ordered
    <3> QED
      BY <3>1, <3>3, <3>4
  <2> QED
    BY <1>1, <2>1, <2>2, <2>3, <2>4 DEF TypeOK, CallsInv, Types, CallTypes
<1> QED
  BY <1>1, AccountInvAlways, PTL

\* The report of a review has one trace of each of its calls, in their order, and no other, and
\* every trace names the model that answered or an error, for any number of clients that share a
\* cache, of reviews and of calls, whatever failed reviews have left behind.
THEOREM ReportsAreTrue == Spec => []TracesAreTrue
<1>1. ASSUME AccountInv PROVE TracesAreTrue
  <2>1. CallTypes /\ Accounts
    BY <1>1 DEF AccountInv
  <2> SUFFICES ASSUME NEW c \in Clients, NEW r \in Runs(c)
               PROVE  /\ run[c] = r /\ at[c] = "ended" =>
                           [i \in 1 .. Len(calls[c][r]) |-> calls[c][r][i].call] = [i \in 1 .. call[c] |-> i]
                      /\ \A i \in 1 .. Len(calls[c][r]) :
                            /\ calls[c][r][i].run = r /\ Told(calls[c][r][i]) /\ Marked(calls[c][r][i])
    BY DEF TracesAreTrue, Told, Marked
  <2>2. ReportOf(c)
    BY <2>1 DEF Accounts, AccountOf
  <2>3. ASSUME run[c] = r, at[c] = "ended"
        PROVE  [i \in 1 .. Len(calls[c][r]) |-> calls[c][r][i].call] = [i \in 1 .. call[c] |-> i]
    BY <2>2, <2>3 DEF ReportOf
  <2> QED
    BY <2>2, <2>3 DEF ReportOf
<1> QED
  BY <1>1, AccountInvAlways, PTL
===============================================================================
