------------------------------ MODULE Workspace ------------------------------
(***************************************************************************)
(* The shared files of a workspace and who writes them: requests to the    *)
(* web server, which save contracts and queue their reviews, commands that *)
(* configure the workspace, and the migration that encrypts its files.     *)
(*                                                                         *)
(* Every change reads a file, changes what it has read and replaces the    *)
(* file, without a lock (but for the task table among the threads of one   *)
(* process).  A file is written encrypted if settings.json says so when    *)
(* its new content is encrypted.                                           *)
(*                                                                         *)
(* A job is the sequence of the steps of one request or command.           *)
(*                                                                         *)
(* The workspace has its samples, so an init without --force changes none  *)
(* of these files.  The environment variables that would take the place of *)
(* the provider, of the mode of authentication and of the signing key are  *)
(* not set: settings.json and secrets.json decide.                         *)
(***************************************************************************)
EXTENDS Naturals, Sequences, FiniteSets, SequencesExt

CONSTANTS
    Actors,    \* who makes requests
    Consoles,  \* those of them who may run commands on the server as well
    TenantOf,  \* tenant of the token of an actor
    RolesOf,   \* roles in it
    Limit,     \* rows the index is cut to when it is read (500 in the code)
    MaxJobs,   \* bound: jobs
    MaxStops   \* bound: jobs that break off

Roles == {"viewer", "reviewer", "operator", "admin"}

ASSUME WorkspaceAssumption ==
    /\ Consoles \subseteq Actors
    /\ RolesOf \in [Actors -> SUBSET Roles]
    /\ Limit \in Nat \ {0} /\ MaxJobs \in Nat /\ MaxStops \in Nat

Shared     == {"settings", "skills", "secrets", "index", "tasks"}
Bare       == {"settings", "skills"}  \* never encrypted
File(name) == <<name, 0>>
Entry(e)   == <<e, 0>>
Encryption == Entry("encryption")

VARIABLES
    content,  \* entries of a shared file
    stored,   \* the files there are, those of Bare aside
    plain,    \* those that are not encrypted
    serving,  \* auth.config.mode of the web server
    jobs,     \* jobs so far
    owner,    \* tenant of a job
    job,      \* "none", "web", "command" or "migration"
    todo,     \* steps left of an actor's job
    phase,    \* "ready", "read" or "encoded": how far its first step is
    copy,     \* what that step has read
    sealing,  \* whether it has encrypted the new content
    order,    \* documents in the order of created_at
    stops,
    written,  \* entries that belong in a shared file: stored and not removed since
    raced,    \* entries stored or removed while another change of the file was under way
    met,      \* whether a migration ran at some time during an actor's job
    escaped,  \* files last written in plain by such a job, or while the settings had lost the encryption
    secured   \* whether a migration has ended, with the encryption set, since settings.json was last reset

files     == <<content, stored, plain>>
working   == <<job, todo, phase, copy, sealing>>
histories == <<written, raced, met, escaped, secured>>
vars      == <<files, serving, jobs, owner, working, order, stops, histories>>

Init ==
    /\ content = [f \in Shared |-> {}]
    /\ stored = {}
    /\ plain = {}
    /\ serving = "local"
    /\ jobs = 0
    /\ owner = <<>>
    /\ job = [a \in Actors |-> "none"]
    /\ todo = [a \in Actors |-> <<>>]
    /\ phase = [a \in Actors |-> "ready"]
    /\ copy = [a \in Actors |-> {}]
    /\ sealing = [a \in Actors |-> FALSE]
    /\ order = <<>>
    /\ stops = 0
    /\ written = [f \in Shared |-> {}]
    /\ raced = [f \in Shared |-> {}]
    /\ met = [a \in Actors |-> FALSE]
    /\ escaped = {}
    /\ secured = FALSE

-----------------------------------------------------------------------------
\* Who may do what.

Permissions(role) ==
    CASE role = "viewer" -> {"workbench:read"}
      [] role = "reviewer" -> {"workbench:read", "document:write", "review:create"}
      [] role = "operator" -> {"workbench:read", "document:write", "review:create", "task:manage"}
      [] role = "admin" -> {"settings:write", "workbench:read", "document:write", "review:create",
                            "task:manage"}

\* authenticate: in local mode everybody is the local administrator.  In JWT mode a token is
\* checked with the key that secrets.json holds now.
Identified(a) == serving = "local" \/ Entry("jwt") \in content["secrets"]
Tenant(a)     == IF serving = "local" THEN "local" ELSE TenantOf[a]
RolesNow(a)   == IF serving = "local" THEN {"admin"} ELSE RolesOf[a]

Can(a, permission) == Identified(a) /\ \E r \in RolesNow(a) : permission \in Permissions(r)

-----------------------------------------------------------------------------
\* Steps and jobs.

Step(do, file, entry) == [do |-> do, file |-> file, entry |-> entry]

Nothing      == Entry("none")
Text(n)      == Step("create", <<"text", n>>, Nothing)
Raw(n)       == Step("create", <<"raw", n>>, Nothing)
Unpack(n)    == Step("unpack", <<"parse", n>>, Nothing)
Extract(n)   == Step("remove", <<"parse", n>>, Nothing)
Row(n)       == Step("row", File("index"), <<"row", n>>)
Note(n)      == Step("note", File("index"), <<"raw", n>>)
Enqueue(key) == Step("enqueue", File("tasks"), key)
SetSetting(e) == Step("set", File("settings"), Entry(e))
SetSecret(e) == Step("set", File("secrets"), Entry(e))

Migrating == \E b \in Actors : job[b] = "migration"

\* The number of the next job.
Fresh == jobs + 1

\* An idle actor takes a job.
Begin(a, kind, tenant, steps) ==
    /\ job[a] = "none"
    /\ jobs < MaxJobs
    /\ jobs' = Fresh
    /\ owner' = Append(owner, tenant)
    /\ job' = [job EXCEPT ![a] = kind]
    /\ todo' = [todo EXCEPT ![a] = steps]
    /\ met' = IF kind = "migration" THEN [b \in Actors |-> b = a \/ job[b] # "none"]
              ELSE [met EXCEPT ![a] = Migrating]
    /\ UNCHANGED <<files, serving, phase, copy, sealing, order, stops, written, raced, escaped, secured>>

Request(a, permission, steps) == Can(a, permission) /\ Begin(a, "web", Tenant(a), steps)
Command(a, steps) == a \in Consoles /\ Begin(a, "command", "local", steps)

\* Mutant of SaveText: the row comes first.
SaveText_RowFirst(n) == <<Row(n), Text(n)>>

SaveText(n) == <<Text(n), Row(n)>>

\* A PDF or DOCX is parsed from a file of its own.
SaveBytes(n, parsed) ==
    <<Raw(n)>> \o (IF parsed THEN <<Unpack(n), Extract(n)>> ELSE <<>>) \o SaveText(n) \o <<Note(n)>>

\* A contract that is under review already is answered with that task.
Paste(a) ==
    LET key == <<"paste", Tenant(a)>>
    IN  key \notin content["tasks"] /\ Request(a, "review:create", SaveText(Fresh) \o <<Enqueue(key)>>)

Upload(a) ==
    \/ Request(a, "document:write", SaveText(Fresh))
    \/ \E parsed \in BOOLEAN : Request(a, "document:write", SaveBytes(Fresh, parsed))

\* Rows as list sorts and cuts them.
Age(n) == CHOOSE i \in 1 .. Len(order) : order[i] = n
NewerIn(n, rows) == {r \in rows : r[1] = "row" /\ Age(r[2]) > Age(n)}

\* Mutant of Listed: one row fewer is kept.
Listed_Short(rows) == {r \in rows : Cardinality(NewerIn(r[2], rows)) + 1 < Limit}

Listed(rows) == {r \in rows : Cardinality(NewerIn(r[2], rows)) < Limit}

\* get: a document of the tenant.
Found(a) == {r[2] : r \in {s \in Listed(content["index"]) : owner[s[2]] = Tenant(a)}}

ReviewDocument(a) ==
    \E d \in Found(a) : Request(a, "review:create", <<Enqueue(<<"document", d>>)>>)

\* A path on the server is for those who are not bound to their tenant's documents.
ReviewPath(a) ==
    /\ serving = "local" \/ Can(a, "settings:write")
    /\ Request(a, "review:create", <<Enqueue(<<"path", Fresh>>)>>)

\* The tenant of a queued task.
TaskTenant(key) == IF key[1] = "paste" THEN key[2] ELSE owner[key[2]]

DeleteTask(a) ==
    \E key \in content["tasks"] :
        /\ TaskTenant(key) = Tenant(a)
        /\ Request(a, "task:manage", <<Step("dequeue", File("tasks"), key)>>)

\* A skill of the same name is replaced.
SaveSkill(a) == Request(a, "settings:write", <<Step("set", File("skills"), Entry("skill"))>>)

RagConfig(a) == Request(a, "settings:write", <<SetSetting("rag")>>)

McpServer(a) == Request(a, "settings:write", <<SetSetting("server")>>)

\* configure_lark_mcp: the server first, its secret after it.
LarkSteps == <<SetSetting("lark"), SetSecret("lark")>>

LarkMcp(a) == Request(a, "settings:write", LarkSteps)

LarkCommand(a) == Command(a, LarkSteps)

RagCommand(a) == Command(a, <<SetSetting("rag")>>)

LlmConfig(a) == Command(a, <<SetSetting("llm"), SetSecret("llm")>>)

QueueConfig(a) == Command(a, <<SetSetting("queue")>>)

StorageConfig(a) == Command(a, <<SetSetting("storage")>>)

\* Mode jwt makes a key if there is none.
AuthConfig(a) ==
    \/ Command(a, <<SetSetting("auth"), Step("ensure", File("secrets"), Entry("jwt"))>>)
    \/ Command(a, <<Step("unset", File("settings"), Entry("auth"))>>)

\* init --force writes a sample contract, the sample skills and the sample settings.
InitSamples(a) ==
    Command(a, <<Step("create", File("sample"), Nothing), Step("reset", File("skills"), Nothing),
                 Step("reset", File("settings"), Nothing)>>)

Migration == <<Step("list", File("none"), Nothing)>>

EncryptionInit(a) ==
    a \in Consoles /\ Begin(a, "migration", "local", <<SetSetting("encryption")>> \o Migration)

PrivacyMigrate(a) == a \in Consoles /\ Begin(a, "migration", "local", Migration)

-----------------------------------------------------------------------------
\* How a step is done.

Doing(a, kinds) == todo[a] # <<>> /\ Head(todo[a]).do \in kinds
Target(a) == Head(todo[a]).file
Name(a)   == Target(a)[1]

\* The step is done, with steps left over.
Finish(a, left) ==
    /\ todo' = [todo EXCEPT ![a] = left]
    /\ phase' = [phase EXCEPT ![a] = "ready"]
    /\ copy' = [copy EXCEPT ![a] = {}]
    /\ sealing' = [sealing EXCEPT ![a] = FALSE]
    /\ job' = IF left = <<>> THEN [job EXCEPT ![a] = "none"] ELSE job

Done(a) == Finish(a, Tail(todo[a]))

Changes == {"set", "ensure", "unset", "row", "note", "enqueue", "dequeue"}

\* Another change of the file is between its read and its write.
Open(a, name) ==
    {b \in Actors \ {a} : phase[b] # "ready" /\ Name(b) = name /\ Doing(b, Changes \cup {"seal"})}

\* The step has nothing to do: the key is there, the task is queued or gone, the file is gone or
\* encrypted.
Idle(a) ==
    \/ Doing(a, {"ensure", "enqueue"}) /\ Head(todo[a]).entry \in content[Name(a)]
    \/ Doing(a, {"dequeue"}) /\ Head(todo[a]).entry \notin content[Name(a)]
    \/ Doing(a, {"seal"}) /\ Target(a) \notin plain

\* add holds the lock of the task queue from its read to its write, delete in its write alone.
Holding(b) == (Doing(b, {"enqueue"}) /\ phase[b] # "ready") \/ (Doing(b, {"dequeue"}) /\ phase[b] = "encoded")

Locked(a) ==
    /\ (Doing(a, {"enqueue"}) /\ phase[a] = "ready") \/ (Doing(a, {"dequeue"}) /\ phase[a] = "read")
    /\ \E b \in Actors \ {a} : Holding(b)

\* The step is the last one of a migration, and the settings have not been reset on the way.
Migrated(a) == job[a] = "migration" /\ Tail(todo[a]) = <<>> /\ Encryption \in written["settings"]

Skip(a) ==
    /\ todo[a] # <<>> /\ phase[a] = "ready" /\ Idle(a) /\ ~Locked(a)
    /\ Done(a)
    /\ secured' = (secured \/ Migrated(a))
    /\ UNCHANGED <<files, serving, jobs, owner, order, stops, written, raced, met, escaped>>

Read(a) ==
    /\ Doing(a, Changes \cup {"seal"}) /\ phase[a] = "ready" /\ ~Idle(a) /\ ~Locked(a)
    /\ phase' = [phase EXCEPT ![a] = "read"]
    /\ copy' = [copy EXCEPT ![a] =
         IF Name(a) \notin Shared THEN {}
         ELSE IF Name(a) = "index" /\ ~Doing(a, {"seal"}) THEN Listed(content["index"])
         ELSE content[Name(a)]]
    /\ UNCHANGED <<files, serving, jobs, owner, job, todo, sealing, order, stops, histories>>

\* encrypt_bytes
Encode(a) ==
    /\ Doing(a, Changes \cup {"seal", "create"}) /\ Name(a) \notin Bare /\ ~Locked(a)
    /\ phase[a] = IF Doing(a, {"create"}) THEN "ready" ELSE "read"
    /\ phase' = [phase EXCEPT ![a] = "encoded"]
    /\ sealing' = [sealing EXCEPT ![a] = Encryption \in content["settings"]]
    /\ UNCHANGED <<files, serving, jobs, owner, job, todo, copy, order, stops, histories>>

\* The key is not to be had: what was encrypted cannot be read, and nothing is written.
Refuse(a) ==
    /\ stops < MaxStops
    /\ stops' = stops + 1
    /\ \/ Doing(a, Changes) /\ phase[a] = "ready" /\ Target(a) \in stored \ plain
       \/ Doing(a, Changes \cup {"seal", "create"}) /\ Name(a) \notin Bare
          /\ phase[a] = (IF Doing(a, {"create"}) THEN "ready" ELSE "read")
          /\ Encryption \in content["settings"]
    /\ Finish(a, <<>>)
    /\ UNCHANGED <<files, serving, jobs, owner, order, histories>>

\* The entries a step leaves in a shared file.
After(a) ==
    LET s == Head(todo[a]) IN
    IF s.do = "reset" THEN {}
    ELSE IF s.do = "seal" \/ (s.do = "note" /\ <<"row", s.entry[2]>> \notin copy[a]) THEN copy[a]
    ELSE IF s.do \in {"unset", "dequeue"} THEN copy[a] \ {s.entry}
    ELSE copy[a] \cup {s.entry}

\* The entries it stores or removes on purpose.
Meant(a) ==
    LET s == Head(todo[a]) IN
    IF s.do = "reset" THEN content[Name(a)]
    ELSE IF s.do = "seal" THEN {}
    ELSE IF s.do = "note" THEN After(a) \cap {s.entry}
    ELSE {s.entry}

\* The file is replaced, encrypted or not.
Store(a) ==
    /\ stored' = stored \cup {Target(a)}
    /\ plain' = IF sealing[a] THEN plain \ {Target(a)} ELSE plain \cup {Target(a)}
    /\ escaped' = IF ~sealing[a] /\ (met[a] \/ Encryption \in written["settings"])
                    THEN escaped \cup {Target(a)} ELSE escaped \ {Target(a)}

WriteShared(a) ==
    LET f == Name(a) IN
    /\ Doing(a, Changes \cup {"seal", "reset"}) /\ f \in Shared
    /\ \/ ~Doing(a, {"reset"}) /\ phase[a] = IF f \in Bare THEN "read" ELSE "encoded"
       \/ Doing(a, {"reset"}) /\ phase[a] = "ready"
    /\ content' = [content EXCEPT ![f] = After(a)]
    /\ written' = [written EXCEPT ![f] = IF Doing(a, {"unset", "dequeue", "reset"}) THEN @ \ Meant(a) ELSE @ \cup Meant(a)]
    /\ raced' = [raced EXCEPT ![f] = IF Open(a, f) # {} THEN @ \cup Meant(a) ELSE @ \ Meant(a)]
    /\ IF f \in Bare
         THEN UNCHANGED <<stored, plain, escaped>>
         ELSE Store(a)
    /\ secured' = ((secured \/ Migrated(a)) /\ ~(Doing(a, {"reset"}) /\ f = "settings"))
    /\ Done(a)
    /\ UNCHANGED <<serving, jobs, owner, order, stops, met>>

\* A document, its original, or the migrated copy of either.
WriteOwn(a) ==
    /\ Doing(a, {"create", "seal"}) /\ Name(a) \notin Shared /\ phase[a] = "encoded"
    /\ Store(a)
    /\ order' = IF Doing(a, {"create"}) /\ Name(a) = "text" THEN Append(order, Target(a)[2]) ELSE order
    /\ secured' = (secured \/ Migrated(a))
    /\ Done(a)
    /\ UNCHANGED <<content, serving, jobs, owner, stops, written, raced, met>>

\* The parser's file is never encrypted, and removed when the parser is done.
Parse(a) ==
    /\ \/ Doing(a, {"unpack"}) /\ stored' = stored \cup {Target(a)} /\ plain' = plain \cup {Target(a)}
       \/ Doing(a, {"remove"}) /\ stored' = stored \ {Target(a)} /\ plain' = plain \ {Target(a)}
    /\ Done(a)
    /\ UNCHANGED <<content, serving, jobs, owner, order, stops, histories>>

\* Mutant of Candidates: the originals are forgotten.
Candidates_NoRaw == SelectSeq(SetToSeq(stored), LAMBDA f : f[1] # "raw")

\* The files found when the migration lists them, whatever is in them.
Candidates == SetToSeq(stored)

List(a) ==
    /\ Doing(a, {"list"})
    /\ IF Encryption \in content["settings"]
         THEN /\ Finish(a, [i \in 1 .. Len(Candidates) |-> Step("seal", Candidates[i], Nothing)])
              /\ secured' = (secured \/ (Candidates = <<>> /\ Encryption \in written["settings"]))
         ELSE Finish(a, <<>>) /\ UNCHANGED secured
    /\ UNCHANGED <<files, serving, jobs, owner, order, stops, written, raced, met, escaped>>

\* A job breaks off: an error removes the parser's file, the end of the process does not.
Stop(a) ==
    /\ todo[a] # <<>>
    /\ stops < MaxStops
    /\ stops' = stops + 1
    /\ Finish(a, <<>>)
    /\ \E removed \in {{}, {f \in stored : Doing(a, {"remove"}) /\ f = Target(a)}} :
         stored' = stored \ removed /\ plain' = plain \ removed
    /\ UNCHANGED <<content, serving, jobs, owner, order, histories>>

\* The web server reads its authentication mode when it starts.
Restart ==
    /\ \A a \in Actors : job[a] # "web"
    /\ serving' = IF Entry("auth") \in content["settings"] THEN "jwt" ELSE "local"
    /\ serving' # serving
    /\ UNCHANGED <<files, jobs, owner, working, order, stops, histories>>

Take(a) ==
    \/ Paste(a) \/ Upload(a) \/ ReviewDocument(a) \/ ReviewPath(a)
    \/ DeleteTask(a) \/ SaveSkill(a) \/ RagConfig(a) \/ McpServer(a) \/ LarkMcp(a)
    \/ RagCommand(a) \/ LarkCommand(a) \/ LlmConfig(a) \/ QueueConfig(a) \/ StorageConfig(a) \/ AuthConfig(a) \/ InitSamples(a)
    \/ EncryptionInit(a) \/ PrivacyMigrate(a)

Work(a) ==
    \/ Skip(a) \/ Read(a) \/ Encode(a) \/ Refuse(a) \/ WriteShared(a) \/ WriteOwn(a) \/ Parse(a) \/ List(a)

Next ==
    \/ \E a \in Actors : Take(a) \/ Work(a) \/ Stop(a)
    \/ Restart

Spec == Init /\ [][Next]_vars

-----------------------------------------------------------------------------
\* What the variables hold; every row of the index has its text, and its original if it names one.
TypeOK ==
    /\ content["settings"] \subseteq {Entry(e) : e \in {"encryption", "auth", "rag", "server", "lark",
                                                       "llm", "queue", "storage"}}
    /\ content["skills"] \subseteq {Entry("skill")}
    /\ content["secrets"] \subseteq {Entry(e) : e \in {"lark", "llm", "jwt"}}
    /\ content["index"] \subseteq {"row", "raw"} \X (1 .. jobs)
    /\ \A r \in content["index"] :
         <<IF r[1] = "row" THEN "text" ELSE "raw", r[2]>> \in stored /\ <<"row", r[2]>> \in content["index"]
    /\ plain \subseteq stored
    /\ serving \in {"local", "jwt"}
    /\ jobs \in 0 .. MaxJobs /\ Len(owner) = jobs
    /\ \A a \in Actors :
         /\ job[a] \in {"none", "web", "command", "migration"} /\ (job[a] = "none" <=> todo[a] = <<>>)
         /\ phase[a] \in {"ready", "read", "encoded"} /\ sealing[a] \in BOOLEAN /\ met[a] \in BOOLEAN
    /\ IsInjective(order)
    /\ stops \in 0 .. MaxStops
    /\ secured \in BOOLEAN

\* What a request or a command has stored in a shared file stays there, and what it has removed
\* stays away, unless another change of that file was under way at the time, or Limit newer
\* documents have come.  So a section of the settings, a secret, a document or a queued task is
\* lost by an overlap alone: not by a job that breaks off, nor by the migration.
WritesStay ==
    \A f \in Shared : \A e \in (content[f] \ written[f]) \cup (written[f] \ content[f]) :
        e \in raced[f] \/ (f = "index" /\ Cardinality(NewerIn(e[2], written["index"])) >= Limit)

\* Once a migration has ended with the encryption still set, no document, secret or task lies in
\* plain until the settings are reset, unless the job that wrote it overlapped a migration, the
\* settings had lost the encryption then, or a parser has left its file behind.
PlainIsExplained ==
    secured => \A f \in plain : f \in escaped \/ f[1] = "parse"
=============================================================================
