---------------------------- MODULE FeishuBridge ----------------------------
(***************************************************************************)
(* The Feishu bot: FeishuEventBridge.handle takes a message that was sent  *)
(* to the bot, reviews the contract in it and answers in the chat.         *)
(*                                                                         *)
(* Feishu delivers a message again and again until its callback answers,   *)
(* to any instance.  handle looks a message up in the cache and in a file  *)
(* of the last Cap messages, and marks it in both later: after it has read *)
(* the contract and before it reviews it.  Every call is made once.        *)
(***************************************************************************)
EXTENDS Naturals, Sequences, FiniteSets, SequencesExt

CONSTANTS
    Messages,      \* message ids
    Handlers,      \* threads that run handle
    Processes,     \* instances
    ProcessOf,     \* the instance of a handler
    Cap,           \* ids the file keeps (1000 in the code)
    Secrets,       \* what the callback is configured with, of "token" and "signature"
    KindsOf,       \* what a message may be
    Deliveries,    \* bound: deliveries of a message
    MaxCrashes     \* bound: crashes of instances

ASSUME BridgeAssumption ==
    /\ ProcessOf \in [Handlers -> Processes]
    /\ Secrets \subseteq {"token", "signature"}
    /\ Deliveries \in [Messages -> Nat]
    /\ Cap \in Nat \ {0} /\ MaxCrashes \in Nat

Nobody == "none"
\* "text" is any message with text or a document token, "silent" one with neither or with a reply
\* of the bot in it, "unsupported" an image or the like, "self" one that the bot has sent.
Kinds  == {"self", "unsupported", "silent", "text", "file"}
Ways   == {"none", "refuse", "ignore", "failed", "contract", "record"}
Configs == [auto_reply: BOOLEAN, review_sync: BOOLEAN]
Told   == {"refusal", "failure", "complete", "created"}
Places == {"idle", "look_cache", "look_file", "obtain", "mark_cache", "mark_read", "mark_write",
           "save", "review", "reply"}

VARIABLES
    config,     \* auto_reply and review_sync
    kind,       \* what a message is
    at,         \* where a handler is
    msg,        \* its message
    way,        \* what it does with it once it is marked
    text,       \* the reply it sends
    copy,       \* what it has read of the file
    cacheAt,    \* _dedup_cache of an instance: "none" until it is used, then "redis" or "memory"
    redis,      \* ids in Redis
    memory,     \* ids in the cache of an instance
    file,       \* feishu_processed_messages.json, oldest first
    reviews,    \* reviews begun of a message
    told,       \* what its chat has been told
    delivered,  \* deliveries so far
    crashes,
    overlapped, \* messages looked up while another handler had found them new and not marked them yet
    placed,     \* messages whose mark has been put in a cache
    blind,      \* messages placed that a cache has not shown to a handler
    dropped,    \* messages that the file has lost
    died,       \* messages whose handler raised or crashed after it began to mark them
    unsent      \* messages whose reply failed

handling  == <<at, msg, way, text, copy>>
caches    == <<cacheAt, redis, memory>>
effects   == <<reviews, told>>
histories == <<overlapped, placed, blind, dropped, died, unsent>>
vars      == <<config, kind, handling, caches, file, effects, delivered, crashes, histories>>

Init ==
    /\ config \in Configs
    /\ kind \in [Messages -> Kinds] /\ \A m \in Messages : kind[m] \in KindsOf[m]
    /\ at = [h \in Handlers |-> "idle"]
    /\ msg = [h \in Handlers |-> Nobody]
    /\ way = [h \in Handlers |-> "none"]
    /\ text = [h \in Handlers |-> "none"]
    /\ copy = [h \in Handlers |-> <<>>]
    /\ cacheAt = [p \in Processes |-> "none"]
    /\ redis = {}
    /\ memory = [p \in Processes |-> {}]
    /\ file = <<>>
    /\ reviews = [m \in Messages |-> 0]
    /\ told = [m \in Messages |-> {}]
    /\ delivered = [m \in Messages |-> 0]
    /\ crashes = 0
    /\ overlapped = {} /\ placed = {} /\ blind = {} /\ dropped = {} /\ died = {} /\ unsent = {}

Go(h, from, to) == at[h] = from /\ at' = [at EXCEPT ![h] = to]

\* Fields of a handler that is idle again.
Rest(hs) ==
    /\ at'   = [h \in Handlers |-> IF h \in hs THEN "idle" ELSE at[h]]
    /\ msg'  = [h \in Handlers |-> IF h \in hs THEN Nobody ELSE msg[h]]
    /\ way'  = [h \in Handlers |-> IF h \in hs THEN "none" ELSE way[h]]
    /\ text' = [h \in Handlers |-> IF h \in hs THEN "none" ELSE text[h]]
    /\ copy' = [h \in Handlers |-> IF h \in hs THEN <<>> ELSE copy[h]]

End(h) == Rest({h})

-----------------------------------------------------------------------------
\* A callback of the web server, or the long connection, brings a message.

\* What a callback must show: every secret that is configured, of which there must be one.
Authentic(shown) == Secrets # {} /\ Secrets \subseteq shown

\* The bot's own messages are ignored.
Deliver(h, m) ==
    /\ at[h] = "idle"
    /\ delivered[m] < Deliveries[m]
    /\ delivered' = [delivered EXCEPT ![m] = @ + 1]
    /\ IF kind[m] = "self"
         THEN UNCHANGED <<at, msg>>
         ELSE at' = [at EXCEPT ![h] = "look_cache"] /\ msg' = [msg EXCEPT ![h] = m]
    /\ UNCHANGED <<config, kind, way, text, copy, caches, file, effects, crashes, histories>>

\* What is not authentic gets an error and changes nothing.
Callback(h, m) == \E shown \in SUBSET {"token", "signature"} : Authentic(shown) /\ Deliver(h, m)

LongConnection(h, m) == Deliver(h, m)

-----------------------------------------------------------------------------
\* _is_message_processed: the cache, created when it is first used, then the file.

Unmarked == {"look_file", "obtain", "mark_cache", "mark_read", "mark_write"}

Backends(p) == IF cacheAt[p] = "none" THEN {"redis", "memory"} ELSE {cacheAt[p]}

\* WorkbenchCache.get: a refusal of Redis counts as a miss.
Shown(p, backend, refused, m) ==
    IF backend = "redis" THEN ~refused /\ m \in redis ELSE m \in memory[p]

\* Mutant of LookCache: the message is claimed at once, by set_if_absent.
LookCache_Claiming(h) ==
    LET p == ProcessOf[h]  m == msg[h] IN
    /\ at[h] = "look_cache"
    /\ \E backend \in Backends(p) :
         /\ cacheAt' = [cacheAt EXCEPT ![p] = backend]
         /\ IF Shown(p, backend, FALSE, m)
              THEN End(h) /\ UNCHANGED <<redis, memory>>
              ELSE /\ Go(h, "look_cache", "look_file")
                   /\ redis' = IF backend = "redis" THEN redis \cup {m} ELSE redis
                   /\ memory' = IF backend = "redis" THEN memory ELSE [memory EXCEPT ![p] = @ \cup {m}]
                   /\ UNCHANGED <<msg, way, text, copy>>
    /\ UNCHANGED <<config, kind, file, effects, delivered, crashes, histories>>

LookCache(h) ==
    LET p == ProcessOf[h]  m == msg[h] IN
    /\ at[h] = "look_cache"
    /\ \E backend \in Backends(p), refused \in BOOLEAN :
         /\ cacheAt' = [cacheAt EXCEPT ![p] = backend]
         /\ IF Shown(p, backend, refused, m)
              THEN End(h) /\ UNCHANGED <<overlapped, blind>>
              ELSE /\ Go(h, "look_cache", "look_file")
                   /\ overlapped' = IF \E g \in Handlers : msg[g] = m /\ at[g] \in Unmarked
                                      THEN overlapped \cup {m} ELSE overlapped
                   /\ blind' = IF m \in placed THEN blind \cup {m} ELSE blind
                   /\ UNCHANGED <<msg, way, text, copy>>
    /\ UNCHANGED <<config, kind, redis, memory, file, effects, delivered, crashes,
                   placed, dropped, died, unsent>>

\* Mutant of LookFile: the cache alone decides.
LookFile_Skipped(h) ==
    /\ Go(h, "look_file", "obtain")
    /\ UNCHANGED <<config, kind, msg, way, text, copy, caches, file, effects, delivered, crashes, histories>>

LookFile(h) ==
    /\ at[h] = "look_file"
    /\ IF Contains(file, msg[h])
         THEN End(h)
         ELSE Go(h, "look_file", "obtain") /\ UNCHANGED <<msg, way, text, copy>>
    /\ UNCHANGED <<config, kind, caches, file, effects, delivered, crashes, histories>>

-----------------------------------------------------------------------------
\* What the message holds.

\* A text is the contract: a link, too, since the document it names is read only if the text is
\* empty, and the report of a document that could not be read.  A file is downloaded and saved, and
\* the chat is told of what Feishu refuses.
Read(k) ==
    {w \in Ways : \/ w = "refuse" /\ k = "unsupported"
                  \/ w = "ignore" /\ k = "silent"
                  \/ w = "contract" /\ k = "text"
                  \/ w \in {"record", "failed"} /\ k = "file"}

Obtain(h) ==
    /\ Go(h, "obtain", "mark_cache")
    /\ \E w \in Read(kind[msg[h]]) : way' = [way EXCEPT ![h] = w]
    /\ UNCHANGED <<config, kind, msg, text, copy, caches, file, effects, delivered, crashes, histories>>

\* An error of the network, or of saving the file, escapes from handle: the message is still new.
Escape(h) ==
    /\ at[h] = "obtain"
    /\ kind[msg[h]] = "file"
    /\ End(h)
    /\ UNCHANGED <<config, kind, caches, file, effects, delivered, crashes, histories>>

-----------------------------------------------------------------------------
\* _mark_message_processed: the cache, then the file, which is read, changed and written.

\* WorkbenchCache.set: what Redis refuses stays in the instance, where get does not look.
MarkCache(h) ==
    LET p == ProcessOf[h]  m == msg[h] IN
    /\ Go(h, "mark_cache", "mark_read")
    /\ \E refused \in BOOLEAN :
         IF cacheAt[p] = "redis" /\ ~refused
           THEN redis' = redis \cup {m} /\ UNCHANGED memory
           ELSE memory' = [memory EXCEPT ![p] = @ \cup {m}] /\ UNCHANGED redis
    /\ placed' = placed \cup {m}
    /\ UNCHANGED <<config, kind, msg, way, text, copy, cacheAt, file, effects, delivered, crashes,
                   overlapped, blind, dropped, died, unsent>>

MarkRead(h) ==
    /\ Go(h, "mark_read", "mark_write")
    /\ copy' = [copy EXCEPT ![h] = file]
    /\ UNCHANGED <<config, kind, msg, way, text, caches, file, effects, delivered, crashes, histories>>

\* Mutant of Newest: nothing is cut.
Newest_Uncut(ids) == ids

Newest(ids) == IF Len(ids) > Cap THEN SubSeq(ids, Len(ids) - Cap + 1, Len(ids)) ELSE ids

\* The ids but one, in their order.
Without(ids, m) ==
    LET upTo[n \in 0 .. Len(ids)] ==
            IF n = 0 THEN <<>>
            ELSE IF ids[n] # m THEN Append(upTo[n - 1], ids[n]) ELSE upTo[n - 1]
    IN  upTo[Len(ids)]

Marked(ids, m) == Newest(Append(Without(ids, m), m))

MarkWrite(h) ==
    LET w == way[h]  marked == Marked(copy[h], msg[h]) IN
    /\ at[h] = "mark_write"
    /\ file' = marked
    /\ dropped' = dropped \cup (ToSet(file) \ ToSet(marked))
    /\ \/ /\ w = "ignore" \/ (w \in {"refuse", "failed"} /\ ~config.auto_reply)
          /\ End(h)
       \/ /\ w \in {"refuse", "failed"} /\ config.auto_reply
          /\ Go(h, "mark_write", "reply")
          /\ text' = [text EXCEPT ![h] = IF w = "refuse" THEN "refusal" ELSE "failure"]
          /\ copy' = [copy EXCEPT ![h] = <<>>]
          /\ UNCHANGED <<msg, way>>
       \/ /\ w \in {"contract", "record"}
          /\ Go(h, "mark_write", IF w = "record" THEN "review" ELSE "save")
          /\ copy' = [copy EXCEPT ![h] = <<>>]
          /\ UNCHANGED <<msg, way, text>>
    /\ UNCHANGED <<config, kind, caches, effects, delivered, crashes,
                   overlapped, placed, blind, died, unsent>>

-----------------------------------------------------------------------------
\* The review and the reply.

Save(h) ==
    /\ Go(h, "save", "review")
    /\ UNCHANGED <<config, kind, msg, way, text, copy, caches, file, effects, delivered, crashes, histories>>

\* _build_reply announces a run that failed like one that completed; without review_sync the chat
\* is told of a task that nothing creates.
Announced == IF config.review_sync THEN "complete" ELSE "created"

Review(h) ==
    LET m == msg[h] IN
    /\ at[h] = "review"
    /\ IF config.review_sync
         THEN reviews' = [reviews EXCEPT ![m] = @ + 1]
         ELSE UNCHANGED reviews
    /\ IF config.auto_reply
         THEN /\ Go(h, "review", "reply")
              /\ text' = [text EXCEPT ![h] = Announced]
              /\ UNCHANGED <<msg, way, copy>>
         ELSE End(h)
    /\ UNCHANGED <<config, kind, caches, file, told, delivered, crashes, histories>>

\* save_text raises, or review raises anything but AgentExecutionError: the callback fails, and
\* what Feishu delivers again is a duplicate.
Raise(h) ==
    /\ at[h] \in {"save", "review"}
    /\ IF at[h] = "review" /\ config.review_sync
         THEN reviews' = [reviews EXCEPT ![msg[h]] = @ + 1]
         ELSE at[h] = "save" /\ UNCHANGED reviews
    /\ died' = died \cup {msg[h]}
    /\ End(h)
    /\ UNCHANGED <<config, kind, caches, file, told, delivered, crashes,
                   overlapped, placed, blind, dropped, unsent>>

\* McpConnectorRegistry.call_tool: a call that times out may have happened.
ToolResults == {"ok", "error", "timed_out"}

Happened(result) == {b \in BOOLEAN : (result = "ok" => b) /\ (result = "error" => ~b)}

\* im.v1.message.create, once; the result goes into an event and no further.
Reply(h) ==
    /\ at[h] = "reply"
    /\ \E result \in ToolResults : \E happened \in Happened(result) :
         IF happened
           THEN told' = [told EXCEPT ![msg[h]] = @ \cup {text[h]}] /\ UNCHANGED unsent
           ELSE unsent' = unsent \cup {msg[h]} /\ UNCHANGED told
    /\ End(h)
    /\ UNCHANGED <<config, kind, caches, file, reviews, delivered, crashes,
                   overlapped, placed, blind, dropped, died>>

-----------------------------------------------------------------------------
\* What happens to the instances and to Redis.

Marking == {"mark_read", "mark_write", "save", "review", "reply"}

Crash(p) ==
    LET hs == {h \in Handlers : ProcessOf[h] = p} IN
    /\ crashes < MaxCrashes
    /\ crashes' = crashes + 1
    /\ died' = died \cup {msg[h] : h \in {g \in hs : at[g] \in Marking}}
    /\ Rest(hs)
    /\ cacheAt' = [cacheAt EXCEPT ![p] = "none"]
    /\ memory' = [memory EXCEPT ![p] = {}]
    /\ UNCHANGED <<config, kind, redis, file, effects, delivered,
                   overlapped, placed, blind, dropped, unsent>>

\* Seven days have passed.
Expire(m) ==
    /\ \/ m \in redis /\ redis' = redis \ {m} /\ UNCHANGED memory
       \/ \E p \in Processes :
            m \in memory[p] /\ memory' = [memory EXCEPT ![p] = @ \ {m}] /\ UNCHANGED redis
    /\ UNCHANGED <<config, kind, handling, cacheAt, file, effects, delivered, crashes, histories>>

Handle(h) ==
    \/ LookCache(h) \/ LookFile(h) \/ Obtain(h) \/ Escape(h)
    \/ MarkCache(h) \/ MarkRead(h) \/ MarkWrite(h)
    \/ Save(h) \/ Review(h) \/ Raise(h) \/ Reply(h)

Next ==
    \/ \E h \in Handlers, m \in Messages : Callback(h, m) \/ LongConnection(h, m)
    \/ \E h \in Handlers : Handle(h)
    \/ \E p \in Processes : Crash(p)
    \/ \E m \in Messages : Expire(m)

Spec == Init /\ [][Next]_vars

-----------------------------------------------------------------------------
\* What the variables hold; the file never holds more than Cap ids, each once.
TypeOK ==
    /\ config \in Configs
    /\ kind \in [Messages -> Kinds]
    /\ at \in [Handlers -> Places]
    /\ msg \in [Handlers -> Messages \cup {Nobody}]
    /\ way \in [Handlers -> Ways]
    /\ text \in [Handlers -> Told \cup {"none"}]
    /\ cacheAt \in [Processes -> {"none", "redis", "memory"}]
    /\ redis \subseteq Messages
    /\ memory \in [Processes -> SUBSET Messages]
    /\ file \in Seq(Messages) /\ Len(file) =< Cap /\ IsInjective(file)
    /\ \A h \in Handlers : copy[h] \in Seq(Messages) /\ Len(copy[h]) =< Cap
    /\ \A m \in Messages : delivered[m] \in 0 .. Deliveries[m] /\ reviews[m] \in 0 .. Deliveries[m]
    /\ told \in [Messages -> SUBSET Told]
    /\ crashes \in 0 .. MaxCrashes
    /\ \A s \in {overlapped, placed, blind, dropped, died, unsent} : s \subseteq Messages

\* A message is reviewed twice only if two handlers overlapped between looking it up and marking
\* it, or if both records failed: the cache did not show the mark that was put there, and the file
\* had lost it to a mark that overlapped or to its cap.  Neither a crash, nor a refusal of Redis,
\* nor an instance with a memory of its own is enough.
TwiceIsExplained ==
    \A m \in Messages : reviews[m] > 1 => m \in overlapped \/ (m \in blind /\ m \in dropped)

\* Of a message that a later delivery will be told is a duplicate, the chat hears: a handler is
\* still at it, the chat was told, or the reply, the handler or its instance failed.  So a download
\* that breaks off leaves the message new.
MarkedIsAnswered ==
    \A m \in redis \cup ToSet(file) :
        \/ ~config.auto_reply
        \/ kind[m] = "silent"
        \/ told[m] # {} \/ m \in unsent \/ m \in died
        \/ \E h \in Handlers : msg[h] = m
=============================================================================
