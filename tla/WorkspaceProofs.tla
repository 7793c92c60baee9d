--------------------------- MODULE WorkspaceProofs ---------------------------
(***************************************************************************)
(* Theorems about the files of a workspace (Workspace) and about the task  *)
(* table, which is one of them (TaskStore).                                *)
(*                                                                         *)
(* For the files the invariant WorkInv has four parts: the types of steps  *)
(* and files (Types), what has been stored of a document when a row speaks *)
(* of it (Documents), what a file and each copy of it may hold (Contents), *)
(* and what a migration has still to seal (Plains).                        *)
(***************************************************************************)
EXTENDS Workspace, TaskStore, FiniteSetTheorems, SequenceTheorems, TLAPS

-----------------------------------------------------------------------------
(* What jobs, steps and files there are.                                   *)

Tenants == {"local"} \cup {TenantOf[a] : a \in Actors}

Settings == {Entry(e) : e \in {"encryption", "auth", "rag", "server", "lark", "llm", "queue", "storage"}}
Secrets  == {Entry(e) : e \in {"lark", "llm", "jwt"}}
Keys     == ({"paste"} \X Tenants) \cup ({"document", "path"} \X Nat)

\* What the entries of a shared file may be.
Room(f) ==
    IF f = "settings" THEN Settings
    ELSE IF f = "skills" THEN {Entry("skill")}
    ELSE IF f = "secrets" THEN Secrets
    ELSE IF f = "index" THEN {"row", "raw"} \X Nat
    ELSE Keys

\* The files that can be encrypted.
Sealable == {"text", "raw", "parse", "sample", "secrets", "index", "tasks"} \X Nat

\* The steps that jobs are made of.
StepsOf(kinds, places, entries) == [do : kinds, file : places, entry : entries]

Steps ==
    StepsOf({"create"}, {"text", "raw", "sample"} \X Nat, {Nothing})
    \cup StepsOf({"unpack", "remove"}, {"parse"} \X Nat, {Nothing})
    \cup StepsOf({"row"}, {File("index")}, {"row"} \X Nat)
    \cup StepsOf({"note"}, {File("index")}, {"raw"} \X Nat)
    \cup StepsOf({"enqueue", "dequeue"}, {File("tasks")}, Keys)
    \cup StepsOf({"set"}, {File("settings")}, Settings)
    \cup StepsOf({"unset"}, {File("settings")}, Settings \ {Encryption})
    \cup StepsOf({"set"}, {File("skills")}, {Entry("skill")})
    \cup StepsOf({"set", "ensure"}, {File("secrets")}, Secrets)
    \cup StepsOf({"reset"}, {File("settings"), File("skills")}, {Nothing})
    \cup StepsOf({"list"}, {File("none")}, {Nothing})
    \cup StepsOf({"seal"}, Sealable, {Nothing})

\* The variables keep their types; whoever has a job has steps left.
Types ==
    /\ content = [f \in Shared |-> content[f]]
    /\ written = [f \in Shared |-> written[f]]
    /\ raced = [f \in Shared |-> raced[f]]
    /\ copy = [a \in Actors |-> copy[a]]
    /\ stored \subseteq Sealable /\ IsFiniteSet(stored) /\ plain \subseteq stored
    /\ serving \in {"local", "jwt"}
    /\ jobs \in 0 .. MaxJobs
    /\ owner \in Seq(Tenants) /\ Len(owner) = jobs
    /\ job \in [Actors -> {"none", "web", "command", "migration"}]
    /\ todo \in [Actors -> Seq(Steps)]
    /\ \A a \in Actors : job[a] = "none" <=> todo[a] = <<>>
    /\ phase \in [Actors -> {"ready", "read", "encoded"}]
    /\ sealing \in [Actors -> BOOLEAN]
    /\ met \in [Actors -> BOOLEAN]
    /\ order \in Seq(Nat)
    /\ stops \in 0 .. MaxStops
    /\ secured \in BOOLEAN

-----------------------------------------------------------------------------
(* What documents there are, and what steps still do for them.             *)

Creates(s, f) == s.do = "create" /\ s.file = f

\* The step stores the text of a document.
Texts(s) == s.do = "create" /\ s.file[1] = "text"

\* The file a row of the index speaks of.
Subject(e) == <<IF e[1] = "row" THEN "text" ELSE "raw", e[2]>>

Here(f) == IF f[1] = "text" THEN f[2] \in ToSet(order) ELSE f \in stored

\* A row is written when its file is there, or created by an earlier step of the job.
Supplied(a) ==
    \A i \in 1 .. Len(todo[a]) :
        todo[a][i].do \in {"row", "note"} =>
            \/ Here(Subject(todo[a][i].entry))
            \/ \E j \in 1 .. (i - 1) : Creates(todo[a][j], Subject(todo[a][i].entry))

\* A text to be stored is of a job that was begun, and not in the order of documents.
Unordered(a) ==
    \A i \in 1 .. Len(todo[a]) :
        Texts(todo[a][i]) => todo[a][i].file[2] \in (1 .. jobs) \ ToSet(order)

\* No two steps store the same text.
Apart ==
    \A a, b \in Actors : \A i \in 1 .. Len(todo[a]), j \in 1 .. Len(todo[b]) :
        Texts(todo[a][i]) /\ Texts(todo[b][j]) /\ todo[a][i].file = todo[b][j].file => a = b /\ i = j

\* A document in the order is that of a job and has its text.
Ordered ==
    /\ IsInjective(order)
    /\ \A n \in ToSet(order) : n \in 1 .. jobs /\ <<"text", n>> \in stored

Documents == Ordered /\ Apart /\ \A a \in Actors : Supplied(a) /\ Unordered(a)

-----------------------------------------------------------------------------
(* What a shared file and the copies of it hold.                           *)

\* The first step has read its file and has not yet written it.
Busy(a) == phase[a] # "ready" /\ Doing(a, Changes \cup {"seal"}) /\ Name(a) \in Shared

\* Rows that name an original are those of documents in the index, and the original is there.
Whole(rows) == \A r \in rows : r[1] = "raw" => <<"row", r[2]>> \in rows /\ r \in stored

Fits(S, f) == S \subseteq Room(f) /\ (f = "index" => S \subseteq written["index"] /\ Whole(S))

Cut(e) == Cardinality(NewerIn(e[2], written["index"])) >= Limit

Stays(S, f) ==
    \A e \in (S \ written[f]) \cup (written[f] \ S) : e \in raced[f] \/ (f = "index" /\ Cut(e))

Listing == IsFiniteSet(written["index"]) /\ written["index"] \subseteq {"row", "raw"} \X ToSet(order)

Good(S, f) == Fits(S, f) /\ Stays(S, f)

Contents ==
    /\ Listing
    /\ \A f \in Shared : Good(content[f], f)
    /\ \A a \in Actors : Busy(a) => Good(copy[a], Name(a))
    /\ \A a \in Actors : todo[a] = <<>> => phase[a] = "ready"

-----------------------------------------------------------------------------
(* What lies in plain.                                                     *)

Explained(f) == f \in escaped \/ f[1] = "parse"

Seals(a) == \A i \in 1 .. Len(todo[a]) : todo[a][i].do = "seal"

\* A migration may set the encryption, lists the files, and then seals each of them.
Course(a) ==
    \/ Len(todo[a]) = 1 /\ todo[a][1].do = "list"
    \/ Len(todo[a]) = 2 /\ todo[a][1].do = "set" /\ todo[a][2].do = "list"
    \/ Seals(a) /\ \A f \in plain : Explained(f) \/ \E i \in 1 .. Len(todo[a]) : todo[a][i].file = f

Plains ==
    /\ Migrating => \A a \in Actors : job[a] # "none" => met[a]
    /\ \A a \in Actors : job[a] = "migration" => Course(a)
    /\ secured => Encryption \in written["settings"] /\ \A f \in plain : Explained(f)

-----------------------------------------------------------------------------
WorkInv == Types /\ Documents /\ Contents /\ Plains

-----------------------------------------------------------------------------
(* What the steps are.                                                     *)

\* What a step of each kind is about.
StepSound(s) ==
    /\ s.do \in {"create", "unpack", "remove", "row", "note", "enqueue", "dequeue", "set", "unset", "ensure",
                 "reset", "list", "seal"}
    /\ s.do = "create" => s.file \in {"text", "raw", "sample"} \X Nat
    /\ s.do \in {"unpack", "remove"} => s.file \in {"parse"} \X Nat
    /\ s.do = "row" => s.file = File("index") /\ s.entry \in {"row"} \X Nat
    /\ s.do = "note" => s.file = File("index") /\ s.entry \in {"raw"} \X Nat
    /\ s.do \in {"enqueue", "dequeue"} => s.file = File("tasks") /\ s.entry \in Keys
    /\ s.do \in {"set", "ensure"} =>
         /\ s.file \in {File("settings"), File("skills"), File("secrets")}
         /\ s.entry \in Room(s.file[1])
    /\ s.do = "unset" => s.file = File("settings") /\ s.entry # Encryption
    /\ s.do = "reset" => s.file \in {File("settings"), File("skills")}
    /\ s.do = "list" => s.file = File("none")
    /\ s.do = "seal" => s.file \in Sealable

LEMMA StepsAreSound ==
    ASSUME NEW s \in Steps
    PROVE  StepSound(s)
<1>1. CASE s \in StepsOf({"create"}, {"text", "raw", "sample"} \X Nat, {Nothing})
  BY <1>1 DEF StepSound, StepsOf
<1>2. CASE s \in StepsOf({"unpack", "remove"}, {"parse"} \X Nat, {Nothing})
  BY <1>2 DEF StepSound, StepsOf
<1>3. CASE s \in StepsOf({"row"}, {File("index")}, {"row"} \X Nat)
  BY <1>3 DEF StepSound, StepsOf
<1>4. CASE s \in StepsOf({"note"}, {File("index")}, {"raw"} \X Nat)
  BY <1>4 DEF StepSound, StepsOf
<1>5. CASE s \in StepsOf({"enqueue", "dequeue"}, {File("tasks")}, Keys)
  BY <1>5 DEF StepSound, StepsOf
<1>6. CASE s \in StepsOf({"set"}, {File("settings")}, Settings)
  BY <1>6 DEF StepSound, StepsOf, Room, File
<1>7. CASE s \in StepsOf({"unset"}, {File("settings")}, Settings \ {Encryption})
  BY <1>7 DEF StepSound, StepsOf
<1>8. CASE s \in StepsOf({"set"}, {File("skills")}, {Entry("skill")})
  BY <1>8 DEF StepSound, StepsOf, Room, File
<1>9. CASE s \in StepsOf({"set", "ensure"}, {File("secrets")}, Secrets)
  BY <1>9 DEF StepSound, StepsOf, Room, File
<1>10. CASE s \in StepsOf({"reset"}, {File("settings"), File("skills")}, {Nothing})
  BY <1>10 DEF StepSound, StepsOf
<1>11. CASE s \in StepsOf({"list"}, {File("none")}, {Nothing})
  BY <1>11 DEF StepSound, StepsOf
<1>12. CASE s \in StepsOf({"seal"}, Sealable, {Nothing})
  BY <1>12 DEF StepSound, StepsOf
<1> QED
  BY <1>1, <1>2, <1>3, <1>4, <1>5, <1>6, <1>7, <1>8, <1>9, <1>10, <1>11, <1>12 DEF Steps

\* The steps that jobs are put together from.
LEMMA JobSteps ==
    /\ \A n \in Nat : {Text(n), Raw(n), Unpack(n), Extract(n), Row(n), Note(n)} \subseteq Steps
    /\ \A k \in Keys : Enqueue(k) \in Steps /\ Step("dequeue", File("tasks"), k) \in Steps
    /\ \A e \in {"encryption", "auth", "rag", "server", "lark", "llm", "queue", "storage"} : SetSetting(e) \in Steps
    /\ \A e \in {"lark", "llm", "jwt"} : SetSecret(e) \in Steps /\ Step("ensure", File("secrets"), Entry(e)) \in Steps
    /\ {Step("set", File("skills"), Entry("skill")), Step("unset", File("settings"), Entry("auth")),
        Step("create", File("sample"), Nothing), Step("reset", File("skills"), Nothing),
        Step("reset", File("settings"), Nothing), Step("list", File("none"), Nothing)} \subseteq Steps
    /\ \A f \in Sealable : Step("seal", f, Nothing) \in Steps
<1>1. ASSUME NEW n \in Nat
      PROVE  {Text(n), Raw(n), Unpack(n), Extract(n), Row(n), Note(n)} \subseteq Steps
  BY DEF Steps, StepsOf, Step, Text, Raw, Unpack, Extract, Row, Note
<1>2. ASSUME NEW k \in Keys
      PROVE  Enqueue(k) \in Steps /\ Step("dequeue", File("tasks"), k) \in Steps
  BY DEF Steps, StepsOf, Step, Enqueue
<1>3. ASSUME NEW e \in {"encryption", "auth", "rag", "server", "lark", "llm", "queue", "storage"}
      PROVE  SetSetting(e) \in Steps
  BY DEF Steps, StepsOf, Step, SetSetting, Settings
<1>4. ASSUME NEW e \in {"lark", "llm", "jwt"}
      PROVE  SetSecret(e) \in Steps /\ Step("ensure", File("secrets"), Entry(e)) \in Steps
  BY DEF Steps, StepsOf, Step, SetSecret, Secrets
<1>5. Step("set", File("skills"), Entry("skill")) \in Steps
  BY DEF Steps, StepsOf, Step
<1>6. Step("unset", File("settings"), Entry("auth")) \in Steps
  BY DEF Steps, StepsOf, Step, Settings, Encryption, Entry
<1>7. Step("create", File("sample"), Nothing) \in Steps
  BY DEF Steps, StepsOf, Step, File
<1>8. /\ Step("reset", File("skills"), Nothing) \in Steps
      /\ Step("reset", File("settings"), Nothing) \in Steps
      /\ Step("list", File("none"), Nothing) \in Steps
  BY DEF Steps, StepsOf, Step
<1>9. ASSUME NEW f \in Sealable
      PROVE  Step("seal", f, Nothing) \in Steps
  BY DEF Steps, StepsOf, Step
<1> QED
  BY <1>1, <1>2, <1>3, <1>4, <1>5, <1>6, <1>7, <1>8, <1>9

-----------------------------------------------------------------------------
(* The jobs.                                                               *)

\* What the steps of a new job are like.
Proper(kind, steps) ==
    /\ kind \in {"web", "command", "migration"}
    /\ steps \in Seq(Steps) /\ steps # <<>>
    /\ \A i \in 1 .. Len(steps) : Texts(steps[i]) => steps[i].file = <<"text", Fresh>>
    /\ \A i, j \in 1 .. Len(steps) : Texts(steps[i]) /\ Texts(steps[j]) => i = j
    /\ \A i \in 1 .. Len(steps) :
         steps[i].do \in {"row", "note"} => \E j \in 1 .. (i - 1) : Creates(steps[j], Subject(steps[i].entry))
    /\ kind = "migration" =>
         \/ Len(steps) = 1 /\ steps[1].do = "list"
         \/ Len(steps) = 2 /\ steps[1].do = "set" /\ steps[2].do = "list"

\* A step that stores no text and writes no row.
Apiece(s) == s \in Steps /\ ~Texts(s) /\ s.do \notin {"row", "note"}

LEMMA OneStep ==
    ASSUME NEW s, Apiece(s), NEW kind \in {"web", "command"}
    PROVE  Proper(kind, <<s>>)
BY DEF Apiece, Proper

LEMMA TwoSteps ==
    ASSUME NEW s, Apiece(s), NEW t, Apiece(t), NEW kind \in {"web", "command"}
    PROVE  Proper(kind, <<s, t>>)
BY DEF Apiece, Proper

\* Which steps store no text and write no row.
LEMMA ApieceSteps ==
    /\ \A k \in Keys : Apiece(Enqueue(k)) /\ Apiece(Step("dequeue", File("tasks"), k))
    /\ \A e \in {"rag", "server", "lark", "llm", "queue", "storage", "auth"} : Apiece(SetSetting(e))
    /\ \A e \in {"lark", "llm", "jwt"} : Apiece(SetSecret(e)) /\ Apiece(Step("ensure", File("secrets"), Entry(e)))
    /\ Apiece(Step("set", File("skills"), Entry("skill")))
    /\ Apiece(Step("unset", File("settings"), Entry("auth")))
    /\ Apiece(Step("create", File("sample"), Nothing))
    /\ Apiece(Step("reset", File("skills"), Nothing)) /\ Apiece(Step("reset", File("settings"), Nothing))
BY JobSteps DEF Apiece, Texts, Step, Enqueue, SetSetting, SetSecret, File

LEMMA TenantKnown ==
    ASSUME NEW a \in Actors
    PROVE  Tenant(a) \in Tenants
BY DEF Tenant, Tenants

LEMMA Joined ==
    ASSUME NEW S, NEW u \in Seq(S), NEW v \in Seq(S), NEW w \in Seq(S), Len(w) = Len(u) + Len(v),
           \A i \in 1 .. Len(w) : w[i] = IF i <= Len(u) THEN u[i] ELSE v[i - Len(u)]
    PROVE  u \o v = w
BY ConcatProperties, SeqEqual

\* Sequences put together as the jobs do it.
LEMMA JoinedTwo ==
    ASSUME NEW p, NEW q
    PROVE  <<p>> \o <<q>> = <<p, q>>
<1> DEFINE S == {p, q}
<1>1. <<p>> \in Seq(S) /\ <<q>> \in Seq(S) /\ <<p, q>> \in Seq(S)
  OBVIOUS
<1>2. Len(<<p, q>>) = Len(<<p>>) + Len(<<q>>)
  OBVIOUS
<1>3. \A i \in 1 .. Len(<<p, q>>) : <<p, q>>[i] = IF i <= Len(<<p>>) THEN <<p>>[i] ELSE <<q>>[i - Len(<<p>>)]
  OBVIOUS
<1> QED
  BY <1>1, <1>2, <1>3, Joined, Zenon

LEMMA JoinedTwoOne ==
    ASSUME NEW p, NEW q, NEW r
    PROVE  <<p, q>> \o <<r>> = <<p, q, r>>
<1> DEFINE S == {p, q, r}
<1>1. <<p, q>> \in Seq(S) /\ <<r>> \in Seq(S) /\ <<p, q, r>> \in Seq(S)
  OBVIOUS
<1>2. Len(<<p, q, r>>) = Len(<<p, q>>) + Len(<<r>>)
  OBVIOUS
<1>3. \A i \in 1 .. Len(<<p, q, r>>) : <<p, q, r>>[i] = IF i <= Len(<<p, q>>) THEN <<p, q>>[i] ELSE <<r>>[i - Len(<<p, q>>)]
  OBVIOUS
<1> QED
  BY <1>1, <1>2, <1>3, Joined, Zenon

LEMMA JoinedOneTwo ==
    ASSUME NEW p, NEW q, NEW r
    PROVE  <<p>> \o <<q, r>> = <<p, q, r>>
<1> DEFINE S == {p, q, r}
<1>1. <<p>> \in Seq(S) /\ <<q, r>> \in Seq(S) /\ <<p, q, r>> \in Seq(S)
  OBVIOUS
<1>2. Len(<<p, q, r>>) = Len(<<p>>) + Len(<<q, r>>)
  OBVIOUS
<1>3. \A i \in 1 .. Len(<<p, q, r>>) : <<p, q, r>>[i] = IF i <= Len(<<p>>) THEN <<p>>[i] ELSE <<q, r>>[i - Len(<<p>>)]
  OBVIOUS
<1> QED
  BY <1>1, <1>2, <1>3, Joined, Zenon

LEMMA JoinedThreeOne ==
    ASSUME NEW p, NEW q, NEW r, NEW s
    PROVE  <<p, q, r>> \o <<s>> = <<p, q, r, s>>
<1> DEFINE S == {p, q, r, s}
<1>1. <<p, q, r>> \in Seq(S) /\ <<s>> \in Seq(S) /\ <<p, q, r, s>> \in Seq(S)
  OBVIOUS
<1>2. Len(<<p, q, r, s>>) = Len(<<p, q, r>>) + Len(<<s>>)
  OBVIOUS
<1>3. \A i \in 1 .. Len(<<p, q, r, s>>) : <<p, q, r, s>>[i] = IF i <= Len(<<p, q, r>>) THEN <<p, q, r>>[i] ELSE <<s>>[i - Len(<<p, q, r>>)]
  OBVIOUS
<1> QED
  BY <1>1, <1>2, <1>3, Joined, Zenon

LEMMA JoinedThreeTwo ==
    ASSUME NEW p, NEW q, NEW r, NEW s, NEW t
    PROVE  <<p, q, r>> \o <<s, t>> = <<p, q, r, s, t>>
<1> DEFINE S == {p, q, r, s, t}
<1>1. <<p, q, r>> \in Seq(S) /\ <<s, t>> \in Seq(S) /\ <<p, q, r, s, t>> \in Seq(S)
  OBVIOUS
<1>2. Len(<<p, q, r, s, t>>) = Len(<<p, q, r>>) + Len(<<s, t>>)
  OBVIOUS
<1>3. \A i \in 1 .. Len(<<p, q, r, s, t>>) : <<p, q, r, s, t>>[i] = IF i <= Len(<<p, q, r>>) THEN <<p, q, r>>[i] ELSE <<s, t>>[i - Len(<<p, q, r>>)]
  OBVIOUS
<1> QED
  BY <1>1, <1>2, <1>3, Joined, Zenon

LEMMA JoinedFiveOne ==
    ASSUME NEW p, NEW q, NEW r, NEW s, NEW t, NEW u
    PROVE  <<p, q, r, s, t>> \o <<u>> = <<p, q, r, s, t, u>>
<1> DEFINE S == {p, q, r, s, t, u}
<1>1. <<p, q, r, s, t>> \in Seq(S) /\ <<u>> \in Seq(S) /\ <<p, q, r, s, t, u>> \in Seq(S)
  OBVIOUS
<1>2. Len(<<p, q, r, s, t, u>>) = Len(<<p, q, r, s, t>>) + Len(<<u>>)
  OBVIOUS
<1>3. \A i \in 1 .. Len(<<p, q, r, s, t, u>>) : <<p, q, r, s, t, u>>[i] = IF i <= Len(<<p, q, r, s, t>>) THEN <<p, q, r, s, t>>[i] ELSE <<u>>[i - Len(<<p, q, r, s, t>>)]
  OBVIOUS
<1> QED
  BY <1>1, <1>2, <1>3, Joined, Zenon

LEMMA JoinedNone ==
    ASSUME NEW p
    PROVE  <<p>> \o <<>> = <<p>>
BY Joined

\* The steps that store a document.
LEMMA SavesAreProper ==
    ASSUME jobs \in Nat
    PROVE  /\ Proper("web", SaveText(Fresh))
           /\ \A k \in Keys : Proper("web", SaveText(Fresh) \o <<Enqueue(k)>>)
           /\ \A parsed \in BOOLEAN : Proper("web", SaveBytes(Fresh, parsed))
<1> DEFINE n == Fresh
<1>1. n \in Nat
  BY DEF Fresh
<1>2. /\ {Text(n), Raw(n), Unpack(n), Extract(n), Row(n), Note(n)} \subseteq Steps
      /\ \A k \in Keys : Enqueue(k) \in Steps
  BY <1>1, JobSteps
<1>3. /\ Text(n).do = "create" /\ Text(n).file = <<"text", n>>
      /\ Raw(n).do = "create" /\ Raw(n).file = <<"raw", n>>
      /\ Unpack(n).do = "unpack" /\ Extract(n).do = "remove"
      /\ Row(n).do = "row" /\ Row(n).entry = <<"row", n>>
      /\ Note(n).do = "note" /\ Note(n).entry = <<"raw", n>>
      /\ \A k : Enqueue(k).do = "enqueue"
  BY DEF Text, Raw, Unpack, Extract, Row, Note, Enqueue, Step
<1> HIDE DEF n
<1>4. n = Fresh
  BY DEF n
<1>5. Subject(<<"row", n>>) = <<"text", n>> /\ Subject(<<"raw", n>>) = <<"raw", n>>
  BY DEF Subject
<1>6. Proper("web", <<Text(n), Row(n)>>)
  BY <1>1, <1>2, <1>3, <1>4, <1>5 DEF Proper, Texts, Creates
<1>7. ASSUME NEW k \in Keys
      PROVE  Proper("web", <<Text(n), Row(n), Enqueue(k)>>)
  BY <1>1, <1>2, <1>3, <1>4, <1>5 DEF Proper, Texts, Creates
<1>8. Proper("web", <<Raw(n), Text(n), Row(n), Note(n)>>)
  BY <1>1, <1>2, <1>3, <1>4, <1>5 DEF Proper, Texts, Creates
<1>9. Proper("web", <<Raw(n), Unpack(n), Extract(n), Text(n), Row(n), Note(n)>>)
  <2> DEFINE steps == <<Raw(n), Unpack(n), Extract(n), Text(n), Row(n), Note(n)>>
  <2>1. /\ steps \in Seq(Steps) /\ Len(steps) = 6
        /\ steps[1] = Raw(n) /\ steps[2] = Unpack(n) /\ steps[3] = Extract(n)
        /\ steps[4] = Text(n) /\ steps[5] = Row(n) /\ steps[6] = Note(n)
    BY <1>2
  <2> HIDE DEF steps
  <2>2. \A i \in 1 .. Len(steps) : Texts(steps[i]) => i = 4
    BY <1>3, <2>1 DEF Texts
  <2>3. \A i \in 1 .. Len(steps) : steps[i].do \in {"row", "note"} => i \in {5, 6}
    BY <1>3, <2>1
  <2>4. Creates(Text(n), Subject(Row(n).entry)) /\ Creates(Raw(n), Subject(Note(n).entry))
    BY <1>3, <1>5 DEF Creates
  <2>5. \A i \in 1 .. Len(steps) :
          steps[i].do \in {"row", "note"} => \E j \in 1 .. (i - 1) : Creates(steps[j], Subject(steps[i].entry))
    <3>1. Creates(steps[4], Subject(steps[5].entry)) /\ 4 \in 1 .. (5 - 1)
      BY <2>1, <2>4
    <3>2. Creates(steps[1], Subject(steps[6].entry)) /\ 1 \in 1 .. (6 - 1)
      BY <2>1, <2>4
    <3>3. ASSUME NEW i \in 1 .. Len(steps), steps[i].do \in {"row", "note"}
          PROVE  \E j \in 1 .. (i - 1) : Creates(steps[j], Subject(steps[i].entry))
      <4>1. i = 5 \/ i = 6
        BY <2>3, <3>3
      <4> QED
        BY <3>1, <3>2, <4>1
    <3> QED
      BY <3>3, Zenon
  <2>6. steps # <<>>
    BY <2>1
  <2>7. \A i \in 1 .. Len(steps) : Texts(steps[i]) => steps[i].file = <<"text", Fresh>>
    BY <1>3, <1>4, <2>1, <2>2
  <2>8. Proper("web", steps)
    BY <2>1, <2>2, <2>5, <2>6, <2>7 DEF Proper
  <2> QED
    BY <2>8 DEF steps
<1>10. SaveText(Fresh) = <<Text(n), Row(n)>>
  BY <1>4 DEF SaveText
<1>11. ASSUME NEW k \in Keys
       PROVE  SaveText(Fresh) \o <<Enqueue(k)>> = <<Text(n), Row(n), Enqueue(k)>>
  <2>1. Text(n) \in Steps /\ Row(n) \in Steps /\ Enqueue(k) \in Steps
    BY <1>2
  <2> QED
    BY <1>10, JoinedTwoOne, Zenon
<1>12. SaveBytes(Fresh, FALSE) = ((<<Raw(n)>> \o <<>>) \o <<Text(n), Row(n)>>) \o <<Note(n)>>
  BY <1>4, <1>10, Zenon DEF SaveBytes
<1>13. SaveBytes(Fresh, TRUE) = ((<<Raw(n)>> \o <<Unpack(n), Extract(n)>>) \o <<Text(n), Row(n)>>) \o <<Note(n)>>
  BY <1>4, <1>10, Zenon DEF SaveBytes
<1>14. SaveBytes(Fresh, FALSE) = <<Raw(n), Text(n), Row(n), Note(n)>>
  <2>1. <<Raw(n)>> \o <<>> = <<Raw(n)>>
    BY JoinedNone, Zenon
  <2>2. <<Raw(n)>> \o <<Text(n), Row(n)>> = <<Raw(n), Text(n), Row(n)>>
    BY JoinedOneTwo, Zenon
  <2>3. <<Raw(n), Text(n), Row(n)>> \o <<Note(n)>> = <<Raw(n), Text(n), Row(n), Note(n)>>
    BY JoinedThreeOne, Zenon
  <2> QED
    BY <1>12, <2>1, <2>2, <2>3, Zenon
<1>15. SaveBytes(Fresh, TRUE) = <<Raw(n), Unpack(n), Extract(n), Text(n), Row(n), Note(n)>>
  <2>1. <<Raw(n)>> \o <<Unpack(n), Extract(n)>> = <<Raw(n), Unpack(n), Extract(n)>>
    BY JoinedOneTwo, Zenon
  <2>2. <<Raw(n), Unpack(n), Extract(n)>> \o <<Text(n), Row(n)>>
          = <<Raw(n), Unpack(n), Extract(n), Text(n), Row(n)>>
    BY JoinedThreeTwo, Zenon
  <2>3. <<Raw(n), Unpack(n), Extract(n), Text(n), Row(n)>> \o <<Note(n)>>
          = <<Raw(n), Unpack(n), Extract(n), Text(n), Row(n), Note(n)>>
    BY JoinedFiveOne, Zenon
  <2> QED
    BY <1>13, <2>1, <2>2, <2>3, Zenon
<1> QED
  BY <1>6, <1>7, <1>8, <1>9, <1>10, <1>11, <1>14, <1>15, Zenon

\* A job that an actor takes is one of proper steps.
LEMMA TakenJobsAreProper ==
    ASSUME Types, \A f \in Shared : Fits(content[f], f), NEW a \in Actors, Take(a)
    PROVE  \E kind, steps : \E tenant \in Tenants : Proper(kind, steps) /\ Begin(a, kind, tenant, steps)
<1>1. jobs \in Nat
  BY DEF Types
<1>2. "local" \in Tenants /\ Tenant(a) \in Tenants
  BY TenantKnown DEF Tenants
<1> DEFINE Begun(kind, steps) == \E tenant \in Tenants : Begin(a, kind, tenant, steps)
<1>3. ASSUME NEW permission, NEW steps, Request(a, permission, steps)
      PROVE  Begun("web", steps)
  BY <1>2, <1>3 DEF Request
<1>4. ASSUME NEW steps, Command(a, steps)
      PROVE  Begun("command", steps)
  BY <1>2, <1>4 DEF Command
<1> SUFFICES \E kind, steps : Proper(kind, steps) /\ Begun(kind, steps)
  OBVIOUS
<1> HIDE DEF Begun
<1>5. CASE Paste(a)
  <2>1. <<"paste", Tenant(a)>> \in Keys
    BY <1>2 DEF Keys
  <2> QED
    BY <1>1, <1>3, <1>5, <2>1, SavesAreProper DEF Paste
<1>6. CASE Upload(a)
  BY <1>1, <1>3, <1>6, SavesAreProper DEF Upload
<1>7. CASE ReviewDocument(a)
  <2>1. PICK d \in Found(a) : Request(a, "review:create", <<Enqueue(<<"document", d>>)>>)
    BY <1>7 DEF ReviewDocument
  <2>2. d \in Nat
    BY DEF Found, Listed, Fits, Room, Shared
  <2>3. <<"document", d>> \in Keys
    BY <2>2 DEF Keys
  <2> QED
    BY <1>3, <2>1, <2>3, ApieceSteps, OneStep
<1>8. CASE ReviewPath(a)
  <2>1. <<"path", Fresh>> \in Keys
    BY <1>1 DEF Keys, Fresh
  <2> QED
    BY <1>3, <1>8, <2>1, ApieceSteps, OneStep DEF ReviewPath
<1>9. CASE DeleteTask(a)
  <2>1. PICK key \in content["tasks"] : Request(a, "task:manage", <<Step("dequeue", File("tasks"), key)>>)
    BY <1>9 DEF DeleteTask
  <2>2. key \in Keys
    BY DEF Fits, Room, Shared
  <2> QED
    BY <1>3, <2>1, <2>2, ApieceSteps, OneStep
<1>10. CASE SaveSkill(a) \/ RagConfig(a) \/ McpServer(a)
  BY <1>3, <1>10, ApieceSteps, OneStep DEF SaveSkill, RagConfig, McpServer
<1>11. CASE LarkMcp(a) \/ LarkCommand(a)
  BY <1>3, <1>4, <1>11, ApieceSteps, TwoSteps DEF LarkMcp, LarkCommand, LarkSteps
<1>12. CASE RagCommand(a) \/ QueueConfig(a) \/ StorageConfig(a)
  BY <1>4, <1>12, ApieceSteps, OneStep DEF RagCommand, QueueConfig, StorageConfig
<1>13. CASE LlmConfig(a)
  BY <1>4, <1>13, ApieceSteps, TwoSteps DEF LlmConfig
<1>14. CASE AuthConfig(a)
  BY <1>4, <1>14, ApieceSteps, OneStep, TwoSteps DEF AuthConfig
<1>15. CASE InitSamples(a)
  <2> DEFINE s == Step("create", File("sample"), Nothing)
             t == Step("reset", File("skills"), Nothing)
             u == Step("reset", File("settings"), Nothing)
  <2>1. Apiece(s) /\ Apiece(t) /\ Apiece(u)
    BY ApieceSteps
  <2>2. Command(a, <<s, t, u>>)
    BY <1>15 DEF InitSamples
  <2> HIDE DEF s, t, u
  <2>3. Proper("command", <<s, t, u>>)
    BY <2>1 DEF Apiece, Proper
  <2> QED
    BY <1>4, <2>2, <2>3
<1>16. CASE EncryptionInit(a) \/ PrivacyMigrate(a)
  <2> DEFINE s == SetSetting("encryption")
             t == Step("list", File("none"), Nothing)
  <2>1. s \in Steps /\ t \in Steps
    BY JobSteps
  <2>2. s.do = "set" /\ t.do = "list"
    BY DEF SetSetting, Step
  <2>3. Begin(a, "migration", "local", <<s>> \o <<t>>) \/ Begin(a, "migration", "local", <<t>>)
    BY <1>16 DEF EncryptionInit, PrivacyMigrate, Migration
  <2> HIDE DEF s, t
  <2>4. <<s>> \o <<t>> = <<s, t>>
    BY <2>1, JoinedTwo
  <2>5. Proper("migration", <<s, t>>) /\ Proper("migration", <<t>>)
    BY <2>1, <2>2 DEF Proper, Texts
  <2>6. Begun("migration", <<s, t>>) \/ Begun("migration", <<t>>)
    BY <1>2, <2>3, <2>4 DEF Begun
  <2> QED
    BY <2>5, <2>6
<1> QED
  BY <1>5, <1>6, <1>7, <1>8, <1>9, <1>10, <1>11, <1>12, <1>13, <1>14, <1>15, <1>16 DEF Take

-----------------------------------------------------------------------------
(* Types.                                                                  *)

\* The first step of a job and those after it.
LEMMA FirstStep ==
    ASSUME Types, NEW a \in Actors, todo[a] # <<>>
    PROVE  /\ Head(todo[a]) \in Steps /\ StepSound(Head(todo[a])) /\ Head(todo[a]) = todo[a][1]
           /\ Tail(todo[a]) \in Seq(Steps)
           /\ Len(todo[a]) \in Nat /\ Len(todo[a]) >= 1 /\ Len(Tail(todo[a])) = Len(todo[a]) - 1
           /\ \A i \in 1 .. Len(Tail(todo[a])) : Tail(todo[a])[i] = todo[a][i + 1]
<1>1. todo[a] \in Seq(Steps)
  BY DEF Types
<1>2. Head(todo[a]) \in Steps /\ Head(todo[a]) = todo[a][1]
  BY <1>1
<1> QED
  BY <1>1, <1>2, StepsAreSound, HeadTailProperties

LEMMA FilesThatChange ==
    ASSUME Types, NEW a \in Actors, todo[a] # <<>>
    PROVE  /\ Name(a) \in Shared /\ Name(a) \notin Bare => Target(a) \in Sealable
           /\ Doing(a, {"create", "seal", "unpack", "remove"}) => Target(a) \in Sealable
           /\ Doing(a, {"unpack", "remove"}) => Name(a) = "parse"
<1> DEFINE s == Head(todo[a])
<1>1. StepSound(s)
  BY FirstStep
<1>2. /\ File("index") \in Sealable /\ File("tasks") \in Sealable /\ File("secrets") \in Sealable
      /\ {"text", "raw", "sample"} \X Nat \subseteq Sealable /\ {"parse"} \X Nat \subseteq Sealable
  BY DEF File, Sealable
<1>3. Target(a) = s.file /\ Name(a) = s.file[1] /\ \A kinds : Doing(a, kinds) <=> s.do \in kinds
  BY DEF Target, Name, Doing
<1> HIDE DEF s
<1>4. s.do \in {"create", "unpack", "remove", "seal"} => s.file \in Sealable
  BY <1>1, <1>2 DEF StepSound
<1>5. s.do \notin {"create", "unpack", "remove", "seal"} =>
        s.file \in {File("settings"), File("skills"), File("secrets"), File("index"), File("tasks"), File("none")}
  BY <1>1 DEF StepSound
<1>6. s.do \in {"unpack", "remove"} => s.file[1] = "parse"
  BY <1>1 DEF StepSound
<1> QED
  BY <1>2, <1>3, <1>4, <1>5, <1>6 DEF Shared, Bare, File

\* A step is done, or the job broken off: the actor's own state is fresh, and that of the others kept.
LEMMA Finished ==
    ASSUME Types, NEW a \in Actors, NEW left \in Seq(Steps), Finish(a, left)
    PROVE  /\ todo' = [todo EXCEPT ![a] = left] /\ todo'[a] = left /\ phase'[a] = "ready"
           /\ \A b \in Actors : b # a => todo'[b] = todo[b] /\ phase'[b] = phase[b] /\ copy'[b] = copy[b] /\ job'[b] = job[b]
           /\ job'[a] \in {job[a], "none"}
           /\ copy' = [b \in Actors |-> copy'[b]]
           /\ job' \in [Actors -> {"none", "web", "command", "migration"}]
           /\ todo' \in [Actors -> Seq(Steps)]
           /\ \A b \in Actors : todo[a] # <<>> => (job'[b] = "none" <=> todo'[b] = <<>>)
           /\ phase' \in [Actors -> {"ready", "read", "encoded"}]
           /\ sealing' \in [Actors -> BOOLEAN]
BY DEF Types, Finish

\* What an actor does to its own state alone.
LEMMA OwnTypes ==
    ASSUME Types, NEW a \in Actors, todo[a] # <<>>, NEW left \in Seq(Steps), Finish(a, left),
           content' = [f \in Shared |-> content'[f]], written' = [f \in Shared |-> written'[f]],
           raced' = [f \in Shared |-> raced'[f]],
           stored' \subseteq Sealable, IsFiniteSet(stored'), plain' \subseteq stored',
           UNCHANGED <<serving, jobs, owner, met>>, order' \in Seq(Nat), stops' \in 0 .. MaxStops,
           secured' \in BOOLEAN
    PROVE  Types'
<1>1. /\ serving' \in {"local", "jwt"} /\ jobs' \in 0 .. MaxJobs
      /\ owner' \in Seq(Tenants) /\ Len(owner') = jobs' /\ met' \in [Actors -> BOOLEAN]
  BY DEF Types
<1> QED
  BY <1>1, Finished DEF Types

LEMMA BeginTypes ==
    ASSUME Types, NEW a \in Actors, NEW kind, NEW steps, NEW tenant \in Tenants, Proper(kind, steps),
           Begin(a, kind, tenant, steps)
    PROVE  Types'
<1>1. jobs' = jobs + 1 /\ jobs' \in 0 .. MaxJobs
  BY WorkspaceAssumption DEF Begin, Fresh, Types
<1>2. owner' \in Seq(Tenants) /\ Len(owner') = jobs'
  BY <1>1 DEF Begin, Types
<1>3. job' = [job EXCEPT ![a] = kind] /\ todo' = [todo EXCEPT ![a] = steps]
  BY DEF Begin
<1>4. /\ job' \in [Actors -> {"none", "web", "command", "migration"}]
      /\ todo' \in [Actors -> Seq(Steps)]
      /\ \A b \in Actors : job'[b] = "none" <=> todo'[b] = <<>>
  BY <1>3 DEF Types, Proper
<1>5. met' \in [Actors -> BOOLEAN]
  BY DEF Begin, Types, Migrating
<1>6. UNCHANGED <<content, written, raced, copy, stored, plain, serving, phase, sealing, order, stops, secured>>
  BY DEF Begin, files
<1>7. /\ content' = [f \in Shared |-> content'[f]] /\ written' = [f \in Shared |-> written'[f]]
      /\ raced' = [f \in Shared |-> raced'[f]] /\ copy' = [b \in Actors |-> copy'[b]]
  BY <1>6 DEF Types
<1>8. /\ stored' \subseteq Sealable /\ IsFiniteSet(stored') /\ plain' \subseteq stored'
      /\ serving' \in {"local", "jwt"} /\ phase' \in [Actors -> {"ready", "read", "encoded"}]
      /\ sealing' \in [Actors -> BOOLEAN] /\ order' \in Seq(Nat) /\ stops' \in 0 .. MaxStops /\ secured' \in BOOLEAN
  BY <1>6 DEF Types
<1> QED
  BY <1>1, <1>2, <1>4, <1>5, <1>7, <1>8, Zenon DEF Types

LEMMA PausedTypes ==
    ASSUME Types, NEW a \in Actors, Read(a) \/ Encode(a)
    PROVE  Types'
<1>1. phase' \in [Actors -> {"ready", "read", "encoded"}]
  BY DEF Read, Encode, Types
<1>2. copy' = [b \in Actors |-> copy'[b]]
  BY DEF Read, Encode, Types
<1>3. sealing' \in [Actors -> BOOLEAN]
  <2>1. CASE Read(a)
    BY <2>1 DEF Read, Types
  <2>2. CASE Encode(a)
    BY <2>2 DEF Encode, Types
  <2> QED
    BY <2>1, <2>2
<1> QED
  BY <1>1, <1>2, <1>3 DEF Read, Encode, Types, files, histories

LEMMA BrokenOffTypes ==
    ASSUME Types, NEW a \in Actors, Refuse(a) \/ Stop(a)
    PROVE  Types'
<1>1. todo[a] # <<>> /\ Finish(a, <<>>) /\ <<>> \in Seq(Steps)
  BY DEF Refuse, Stop, Doing
<1>2. stops' \in 0 .. MaxStops
  BY WorkspaceAssumption DEF Refuse, Stop, Types
<1>3. stored' \subseteq stored /\ plain' \subseteq stored'
  BY DEF Refuse, Stop, Types, files
<1>4. IsFiniteSet(stored')
  BY <1>3, FS_Subset DEF Types
<1>5. /\ UNCHANGED <<serving, jobs, owner, met>> /\ order' \in Seq(Nat) /\ secured' \in BOOLEAN
      /\ content' = [f \in Shared |-> content'[f]] /\ written' = [f \in Shared |-> written'[f]]
      /\ raced' = [f \in Shared |-> raced'[f]]
  BY DEF Refuse, Stop, Types, files, histories
<1> QED
  BY <1>1, <1>2, <1>3, <1>4, <1>5, OwnTypes DEF Types

LEMMA SkippedTypes ==
    ASSUME Types, NEW a \in Actors, Skip(a)
    PROVE  Types'
<1>1. todo[a] # <<>> /\ Finish(a, Tail(todo[a])) /\ Tail(todo[a]) \in Seq(Steps)
  BY FirstStep DEF Skip, Done
<1>2. /\ UNCHANGED <<stored, plain, serving, jobs, owner, met, order, stops>> /\ secured' \in BOOLEAN
      /\ content' = [f \in Shared |-> content'[f]] /\ written' = [f \in Shared |-> written'[f]]
      /\ raced' = [f \in Shared |-> raced'[f]]
  BY DEF Skip, Types, files, Migrated
<1> QED
  BY <1>1, <1>2, OwnTypes DEF Types

\* What replacing a file leaves of the types.
LEMMA StoreTypes ==
    ASSUME Types, NEW a \in Actors, Target(a) \in Sealable, Store(a)
    PROVE  stored' \subseteq Sealable /\ IsFiniteSet(stored') /\ plain' \subseteq stored'
<1>1. IsFiniteSet(stored \cup {Target(a)})
  BY FS_AddElement DEF Types
<1> QED
  BY <1>1 DEF Store, Types

LEMMA WriteSharedTypes ==
    ASSUME Types, NEW a \in Actors, WriteShared(a)
    PROVE  Types'
<1>1. todo[a] # <<>> /\ Finish(a, Tail(todo[a])) /\ Tail(todo[a]) \in Seq(Steps)
  BY FirstStep DEF WriteShared, Done, Doing
<1>2. stored' \subseteq Sealable /\ IsFiniteSet(stored') /\ plain' \subseteq stored'
  <2>1. CASE Name(a) \in Bare
    BY <2>1 DEF WriteShared, Types
  <2>2. CASE Name(a) \notin Bare
    <3>1. Store(a) /\ Target(a) \in Sealable
      BY <1>1, <2>2, FilesThatChange DEF WriteShared
    <3> QED
      BY <3>1, StoreTypes
  <2> QED
    BY <2>1, <2>2
<1>3. UNCHANGED <<serving, jobs, owner, order, stops, met>> /\ secured' \in BOOLEAN
  BY DEF WriteShared, Types, Migrated
<1>4. /\ content' = [f \in Shared |-> content'[f]] /\ written' = [f \in Shared |-> written'[f]]
      /\ raced' = [f \in Shared |-> raced'[f]]
  BY DEF WriteShared, Types
<1> QED
  BY <1>1, <1>2, <1>3, <1>4, OwnTypes DEF Types

LEMMA WriteOwnTypes ==
    ASSUME Types, NEW a \in Actors, WriteOwn(a)
    PROVE  Types'
<1>1. todo[a] # <<>> /\ Finish(a, Tail(todo[a])) /\ Tail(todo[a]) \in Seq(Steps)
  BY FirstStep DEF WriteOwn, Done, Doing
<1>2. Store(a) /\ Target(a) \in Sealable
  BY <1>1, FilesThatChange DEF WriteOwn, Doing
<1>3. order' \in Seq(Nat)
  BY <1>2 DEF WriteOwn, Types, Sealable
<1>4. UNCHANGED <<serving, jobs, owner, stops, met>> /\ secured' \in BOOLEAN
  BY DEF WriteOwn, Types, Migrated
<1>5. /\ content' = [f \in Shared |-> content'[f]] /\ written' = [f \in Shared |-> written'[f]]
      /\ raced' = [f \in Shared |-> raced'[f]]
  BY DEF WriteOwn, Types
<1> QED
  BY <1>1, <1>2, <1>3, <1>4, <1>5, StoreTypes, OwnTypes DEF Types

LEMMA ParseTypes ==
    ASSUME Types, NEW a \in Actors, Parse(a)
    PROVE  Types'
<1>1. todo[a] # <<>> /\ Finish(a, Tail(todo[a])) /\ Tail(todo[a]) \in Seq(Steps)
  BY FirstStep DEF Parse, Done, Doing
<1>2. Target(a) \in Sealable
  BY <1>1, FilesThatChange DEF Parse, Doing
<1>3. IsFiniteSet(stored \cup {Target(a)}) /\ IsFiniteSet(stored \ {Target(a)})
  BY FS_AddElement, FS_RemoveElement DEF Types
<1>4. stored' \subseteq Sealable /\ IsFiniteSet(stored') /\ plain' \subseteq stored'
  BY <1>2, <1>3 DEF Parse, Types
<1>5. /\ UNCHANGED <<serving, jobs, owner, met, order, stops, secured>>
      /\ content' = [f \in Shared |-> content'[f]] /\ written' = [f \in Shared |-> written'[f]]
      /\ raced' = [f \in Shared |-> raced'[f]]
  BY DEF Parse, Types, histories
<1> QED
  BY <1>1, <1>4, <1>5, OwnTypes DEF Types

\* SetToSeq enumerates a finite set.
LEMMA Enumeration ==
    ASSUME NEW S, IsFiniteSet(S)
    PROVE  /\ SetToSeq(S) \in Seq(S) /\ Len(SetToSeq(S)) = Cardinality(S)
           /\ \A x \in S : \E i \in 1 .. Len(SetToSeq(S)) : SetToSeq(S)[i] = x
<1> DEFINE n == Cardinality(S)
           s == SetToSeq(S)
<1>1. n \in Nat /\ ExistsBijection(1 .. n, S)
  BY FS_CardinalityType
<1>2. PICK f \in [1 .. n -> S] : IsInjective(f)
  BY <1>1 DEF ExistsBijection, Bijection, Injection
<1>3. s \in [1 .. n -> S] /\ IsInjective(s)
  BY <1>2 DEF SetToSeq
<1>4. s \in Surjection(1 .. n, S)
  <2>1. s \in Injection(1 .. n, S)
    BY <1>3 DEF Injection
  <2>2. Cardinality(1 .. n) = n
    BY <1>1, FS_Interval
  <2> QED
    BY <2>1, <2>2, FS_Injection
<1> HIDE DEF n, s
<1>5. s \in Seq(S) /\ Len(s) = n
  BY <1>1, <1>3
<1>6. \A x \in S : \E i \in 1 .. Len(s) : s[i] = x
  BY <1>4, <1>5 DEF Surjection
<1> QED
  BY <1>5, <1>6 DEF n, s

\* The migration seals every file that was there.
Sealing == [i \in 1 .. Len(Candidates) |-> Step("seal", Candidates[i], Nothing)]

LEMMA SealsListed ==
    ASSUME Types
    PROVE  /\ Sealing \in Seq(Steps)
           /\ \A i \in 1 .. Len(Sealing) : Sealing[i].do = "seal"
           /\ \A f \in stored : \E i \in 1 .. Len(Sealing) : Sealing[i].file = f
           /\ Candidates = <<>> <=> stored = {}
           /\ Sealing = <<>> <=> stored = {}
<1> DEFINE c == Candidates
<1>1. /\ c \in Seq(stored)
      /\ \A x \in stored : \E i \in 1 .. Len(c) : c[i] = x
  BY Enumeration DEF Types, Candidates
<1>2. /\ Sealing = [i \in 1 .. Len(c) |-> Step("seal", c[i], Nothing)]
      /\ c = Candidates
  BY DEF Sealing
<1> HIDE DEF c
<1>3. \A i \in 1 .. Len(c) : c[i] \in Sealable /\ Step("seal", c[i], Nothing) \in Steps
  BY <1>1, JobSteps DEF Types
<1>4. Sealing \in Seq(Steps) /\ Len(Sealing) = Len(c)
  BY <1>1, <1>2, <1>3
<1>5. \A i \in 1 .. Len(c) : Sealing[i].do = "seal" /\ Sealing[i].file = c[i]
  BY <1>1, <1>2 DEF Step
<1>6. c = <<>> <=> stored = {}
  BY <1>1
<1>7. Sealing = <<>> <=> c = <<>>
  BY <1>1, <1>4
<1>8. \A f \in stored : \E i \in 1 .. Len(Sealing) : Sealing[i].file = f
  BY <1>1, <1>4, <1>5
<1>9. \A i \in 1 .. Len(Sealing) : Sealing[i].do = "seal"
  BY <1>4, <1>5
<1>10. Candidates = <<>> <=> stored = {}
  BY <1>2, <1>6
<1>11. Sealing = <<>> <=> stored = {}
  BY <1>6, <1>7
<1> QED
  BY <1>4, <1>8, <1>9, <1>10, <1>11

LEMMA ListTypes ==
    ASSUME Types, NEW a \in Actors, List(a)
    PROVE  Types'
<1>1. PICK left \in Seq(Steps) : Finish(a, left)
  <2>1. Finish(a, Sealing) \/ Finish(a, <<>>)
    BY DEF List, Sealing
  <2>2. Sealing \in Seq(Steps) /\ <<>> \in Seq(Steps)
    BY SealsListed
  <2> QED
    BY <2>1, <2>2
<1>2. /\ todo[a] # <<>> /\ UNCHANGED <<stored, plain, serving, jobs, owner, met, order, stops>> /\ secured' \in BOOLEAN
      /\ content' = [f \in Shared |-> content'[f]] /\ written' = [f \in Shared |-> written'[f]]
      /\ raced' = [f \in Shared |-> raced'[f]]
  BY DEF List, Types, files, Doing
<1> QED
  BY <1>1, <1>2, OwnTypes DEF Types

LEMMA RestartTypes ==
    ASSUME Types, Restart
    PROVE  Types'
BY DEF Restart, Types, files, working, histories

LEMMA InitTypes == Init => Types
<1> SUFFICES ASSUME Init PROVE Types
  OBVIOUS
<1>1. IsFiniteSet({})
  BY FS_EmptySet
<1>2. <<>> \in Seq(Tenants) /\ Len(<<>>) = 0 /\ <<>> \in Seq(Steps) /\ <<>> \in Seq(Nat)
  OBVIOUS
<1>3. jobs \in 0 .. MaxJobs /\ stops \in 0 .. MaxStops
  BY WorkspaceAssumption DEF Init
<1>4. /\ job \in [Actors -> {"none", "web", "command", "migration"}]
      /\ todo \in [Actors -> Seq(Steps)]
      /\ \A a \in Actors : job[a] = "none" <=> todo[a] = <<>>
  BY <1>2 DEF Init
<1>5. /\ phase \in [Actors -> {"ready", "read", "encoded"}]
      /\ sealing \in [Actors -> BOOLEAN] /\ met \in [Actors -> BOOLEAN]
  BY DEF Init
<1>6. /\ content = [f \in Shared |-> content[f]] /\ written = [f \in Shared |-> written[f]]
      /\ raced = [f \in Shared |-> raced[f]] /\ copy = [a \in Actors |-> copy[a]]
  BY DEF Init
<1>7. /\ stored \subseteq Sealable /\ IsFiniteSet(stored) /\ plain \subseteq stored
      /\ serving \in {"local", "jwt"} /\ secured \in BOOLEAN
      /\ owner \in Seq(Tenants) /\ Len(owner) = jobs /\ order \in Seq(Nat)
  BY <1>1, <1>2 DEF Init
<1> QED
  BY <1>3, <1>4, <1>5, <1>6, <1>7 DEF Types

-----------------------------------------------------------------------------
(* Documents: what is still to be stored, and what is there.               *)

\* What is left of an actor's steps when it does one, breaks off, or pauses.
Left(a, left) == left = todo[a] \/ left = <<>> \/ (todo[a] # <<>> /\ left = Tail(todo[a]))

\* Only what a parser left behind is ever removed.
LEMMA FilesStay ==
    ASSUME Types, NEW a \in Actors, Work(a) \/ Stop(a)
    PROVE  \A f \in stored : f[1] # "parse" => f \in stored'
<1> SUFFICES ASSUME NEW f \in stored, f[1] # "parse"
             PROVE  f \in stored'
  OBVIOUS
<1>1. CASE Skip(a) \/ Read(a) \/ Encode(a) \/ Refuse(a) \/ List(a)
  BY <1>1 DEF Skip, Read, Encode, Refuse, List, files
<1>2. CASE WriteShared(a) \/ WriteOwn(a)
  BY <1>2 DEF WriteShared, WriteOwn, Store
<1>3. CASE Parse(a)
  <2>1. Doing(a, {"unpack", "remove"}) /\ todo[a] # <<>>
    BY <1>3 DEF Parse, Doing
  <2>2. Name(a) = "parse"
    BY <2>1, FilesThatChange
  <2> QED
    BY <1>3, <2>2 DEF Parse, Name
<1>4. CASE Stop(a)
  <2>1. PICK removed \in {{}, {g \in stored : Doing(a, {"remove"}) /\ g = Target(a)}} : stored' = stored \ removed
    BY <1>4 DEF Stop
  <2>2. f \notin removed
    BY <1>4, FilesThatChange DEF Name, Doing, Stop
  <2> QED
    BY <2>1, <2>2
<1> QED
  BY <1>1, <1>2, <1>3, <1>4 DEF Work

\* Every step that is left was there before, and is not the first unless all are left.
LEMMA LeftSteps ==
    ASSUME Types, NEW a \in Actors, NEW left, Left(a, left)
    PROVE  \/ left = todo[a]
           \/ left = <<>> /\ Len(left) = 0
           \/ /\ todo[a] # <<>> /\ left = Tail(todo[a]) /\ Len(left) = Len(todo[a]) - 1 /\ Len(todo[a]) \in Nat
              /\ \A i \in 1 .. Len(left) : left[i] = todo[a][i + 1] /\ i + 1 \in 1 .. Len(todo[a])
<1>1. CASE todo[a] # <<>> /\ left = Tail(todo[a])
  <2>1. /\ Len(left) = Len(todo[a]) - 1 /\ Len(todo[a]) \in Nat
        /\ \A i \in 1 .. Len(left) : left[i] = todo[a][i + 1]
    BY <1>1, FirstStep
  <2>2. \A i \in 1 .. Len(left) : i + 1 \in 1 .. Len(todo[a])
    BY <2>1
  <2> QED
    BY <1>1, <2>1, <2>2
<1> QED
  BY <1>1 DEF Left

\* What has been created stays, and what the first step creates is there when it is done.
Grown(a, left) ==
    /\ \A f : f[1] # "parse" /\ Here(f) => Here(f)'
    /\ left # todo[a] /\ left # <<>> => \A f : Creates(Head(todo[a]), f) => Here(f)'
    /\ \A n \in ToSet(order') :
         n \in ToSet(order) \/ (todo[a] # <<>> /\ left = Tail(todo[a]) /\ left # todo[a] /\ Creates(Head(todo[a]), <<"text", n>>))

LEMMA SuppliedKept ==
    ASSUME Types, NEW a \in Actors, NEW left, Left(a, left), Grown(a, left), todo' = [todo EXCEPT ![a] = left],
           NEW b \in Actors, Supplied(b)
    PROVE  Supplied(b)'
<1> SUFFICES ASSUME NEW i \in 1 .. Len(todo'[b]), todo'[b][i].do \in {"row", "note"},
                    NEW f, f = Subject(todo'[b][i].entry)
             PROVE  Here(f)' \/ \E j \in 1 .. (i - 1) : Creates(todo'[b][j], f)
  BY DEF Supplied
<1>1. f[1] # "parse"
  BY DEF Subject
<1>2. CASE todo'[b] = todo[b]
  <2>1. Here(f) \/ \E j \in 1 .. (i - 1) : Creates(todo[b][j], f)
    BY <1>2 DEF Supplied
  <2> QED
    BY <1>1, <1>2, <2>1 DEF Grown
<1>3. CASE todo'[b] # todo[b]
  <2>1. b = a /\ todo'[b] = left
    BY <1>3 DEF Types
  <2>2. /\ todo[a] # <<>> /\ left # todo[a] /\ left # <<>> /\ Len(todo[a]) \in Nat /\ Len(left) = Len(todo[a]) - 1
        /\ \A k \in 1 .. Len(left) : left[k] = todo[a][k + 1] /\ k + 1 \in 1 .. Len(todo[a])
    BY <1>3, <2>1, LeftSteps
  <2>3. Here(f) \/ \E j \in 1 .. i : Creates(todo[a][j], f)
    <3>1. i + 1 \in 1 .. Len(todo[a]) /\ todo[a][i + 1] = todo'[b][i] /\ (i + 1) - 1 = i
      BY <2>1, <2>2
    <3> QED
      BY <2>1, <3>1 DEF Supplied
  <2>4. CASE Here(f)
    BY <1>1, <2>4 DEF Grown
  <2>5. CASE \E j \in 1 .. i : Creates(todo[a][j], f)
    <3>1. PICK j \in 1 .. i : Creates(todo[a][j], f)
      BY <2>5
    <3>2. CASE j = 1
      <4>1. Head(todo[a]) = todo[a][1]
        BY <2>2, FirstStep
      <4> QED
        BY <2>2, <3>1, <3>2, <4>1 DEF Grown
    <3>3. CASE j # 1
      <4>1. j - 1 \in 1 .. (i - 1) /\ j - 1 \in 1 .. Len(left) /\ (j - 1) + 1 = j
        BY <2>1, <2>2, <3>3
      <4>2. todo'[b][j - 1] = todo[a][j]
        BY <2>1, <2>2, <4>1
      <4> QED
        BY <3>1, <4>1, <4>2
    <3> QED
      BY <3>2, <3>3
  <2> QED
    BY <2>3, <2>4, <2>5
<1> QED
  BY <1>2, <1>3

\* A step that is left at position i was at position k.
Moved(a, left, b, i, k) ==
    /\ todo[b][k] = todo'[b][i]
    /\ todo'[b] = todo[b] => k = i
    /\ todo'[b] # todo[b] => /\ k = i + 1 /\ b = a /\ todo'[a] = left
                            /\ todo[a] # <<>> /\ left = Tail(todo[a]) /\ left # todo[a]

LEMMA Before ==
    ASSUME Types, NEW a \in Actors, NEW left, Left(a, left), todo' = [todo EXCEPT ![a] = left],
           NEW b \in Actors, NEW i \in 1 .. Len(todo'[b])
    PROVE  \E k \in 1 .. Len(todo[b]) : Moved(a, left, b, i, k)
<1>1. CASE todo'[b] = todo[b]
  BY <1>1 DEF Moved
<1>2. CASE todo'[b] # todo[b]
  <2>1. b = a /\ todo'[b] = left
    BY <1>2 DEF Types
  <2>2. /\ todo[a] # <<>> /\ left = Tail(todo[a])
        /\ \A k \in 1 .. Len(left) : left[k] = todo[a][k + 1] /\ k + 1 \in 1 .. Len(todo[a])
    BY <1>2, <2>1, LeftSteps
  <2>3. left[i] = todo[a][i + 1] /\ i + 1 \in 1 .. Len(todo[a])
    BY <2>1, <2>2
  <2> QED
    BY <1>2, <2>1, <2>2, <2>3 DEF Moved
<1> QED
  BY <1>1, <1>2

LEMMA DocumentsKept ==
    ASSUME Types, Documents, NEW a \in Actors, NEW left, Left(a, left), Grown(a, left),
           todo' = [todo EXCEPT ![a] = left], jobs' = jobs, Ordered'
    PROVE  Documents'
<1>1. ASSUME NEW b \in Actors
      PROVE  Supplied(b)'
  BY <1>1, SuppliedKept DEF Documents
<1>2. ASSUME NEW b \in Actors, NEW i \in 1 .. Len(todo'[b]), NEW c \in Actors, NEW j \in 1 .. Len(todo'[c]),
             Texts(todo'[b][i]), Texts(todo'[c][j]), todo'[b][i].file = todo'[c][j].file
      PROVE  b = c /\ i = j
  <2>1. PICK k \in 1 .. Len(todo[b]) : Moved(a, left, b, i, k)
    BY Before
  <2>2. PICK m \in 1 .. Len(todo[c]) : Moved(a, left, c, j, m)
    BY Before
  <2>3. b = c /\ k = m
    <3>1. todo[b][k] = todo'[b][i] /\ todo[c][m] = todo'[c][j]
      BY <2>1, <2>2 DEF Moved
    <3>2. Texts(todo[b][k]) /\ Texts(todo[c][m]) /\ todo[b][k].file = todo[c][m].file
      BY <1>2, <3>1
    <3> QED
      BY <3>2 DEF Documents, Apart
  <2> QED
    BY <2>1, <2>2, <2>3 DEF Moved
<1>3. ASSUME NEW b \in Actors, NEW i \in 1 .. Len(todo'[b]), Texts(todo'[b][i])
      PROVE  todo'[b][i].file[2] \in (1 .. jobs) \ ToSet(order')
  <2>1. PICK k \in 1 .. Len(todo[b]) : Moved(a, left, b, i, k)
    BY Before
  <2>2. PICK n : n = todo[b][k].file[2]
    OBVIOUS
  <2>3. n \in (1 .. jobs) \ ToSet(order)
    BY <1>3, <2>1, <2>2 DEF Documents, Unordered, Moved
  <2>4. n \notin ToSet(order')
    <3> SUFFICES ASSUME n \in ToSet(order')
                 PROVE  FALSE
      OBVIOUS
    <3>1. todo[a] # <<>> /\ left = Tail(todo[a]) /\ left # todo[a] /\ Creates(Head(todo[a]), <<"text", n>>)
      BY <2>3 DEF Grown
    <3>2. Head(todo[a]) = todo[a][1] /\ 1 \in 1 .. Len(todo[a])
      BY <3>1, FirstStep
    <3>3. StepSound(todo[b][k])
      BY StepsAreSound DEF Types
    <3>4. todo[b][k].file = <<"text", n>>
      BY <1>3, <2>1, <2>2, <3>3 DEF StepSound, Texts, Moved
    <3>5. todo[a][1].do = "create" /\ todo[a][1].file = <<"text", n>>
      BY <3>1, <3>2 DEF Creates
    <3>6. Texts(todo[a][1]) /\ Texts(todo[b][k])
      BY <1>3, <2>1, <3>5 DEF Texts, Moved
    <3>7. b = a /\ k = 1
      BY <3>2, <3>4, <3>5, <3>6 DEF Documents, Apart
    <3>8. todo'[a] = left /\ i \in Nat
      BY DEF Types
    <3> QED
      BY <2>1, <3>1, <3>7, <3>8 DEF Moved
  <2> QED
    BY <2>1, <2>2, <2>3, <2>4 DEF Moved
<1>4. Apart'
  BY <1>2 DEF Apart
<1>5. \A b \in Actors : Unordered(b)'
  BY <1>3 DEF Unordered
<1> QED
  BY <1>1, <1>4, <1>5 DEF Documents

\* A new job stores a text that there is not yet.
LEMMA BeginDocuments ==
    ASSUME Types, Documents, NEW a \in Actors, NEW kind, NEW steps, NEW tenant \in Tenants, Proper(kind, steps),
           Begin(a, kind, tenant, steps)
    PROVE  Documents'
<1>1. todo'[a] = steps /\ \A b \in Actors : b # a => todo'[b] = todo[b]
  BY DEF Begin, Types
<1>2. UNCHANGED <<stored, order>> /\ jobs' = jobs + 1 /\ Fresh = jobs + 1 /\ jobs \in Nat
  BY WorkspaceAssumption DEF Begin, files, Fresh, Types
<1>3. \A f : Here(f)' = Here(f)
  BY <1>2 DEF Here
<1>4. ASSUME NEW b \in Actors
      PROVE  Supplied(b)'
  <2>1. CASE b = a
    <3>1. \A i \in 1 .. Len(steps) : steps[i].do \in {"row", "note"} =>
            \E j \in 1 .. (i - 1) : Creates(steps[j], Subject(steps[i].entry))
      BY DEF Proper
    <3> QED
      BY <1>1, <2>1, <3>1 DEF Supplied
  <2>2. CASE b # a
    <3>1. Supplied(b) /\ todo'[b] = todo[b]
      BY <1>1, <2>2 DEF Documents
    <3> QED
      BY <1>3, <3>1 DEF Supplied
  <2> QED
    BY <2>1, <2>2
<1>5. ASSUME NEW b \in Actors, NEW i \in 1 .. Len(todo[b]), Texts(todo[b][i])
      PROVE  /\ todo[b][i].file[2] \in (1 .. jobs) \ ToSet(order)
             /\ todo[b][i].file # <<"text", Fresh>>
  <2>1. todo[b][i].file[2] \in (1 .. jobs) \ ToSet(order)
    BY <1>5 DEF Documents, Unordered
  <2> QED
    BY <1>2, <2>1
<1>6. ASSUME NEW i \in 1 .. Len(steps), Texts(steps[i])
      PROVE  steps[i].file = <<"text", Fresh>> /\ steps[i].file[2] \in (1 .. jobs') \ ToSet(order')
  <2>1. steps[i].file = <<"text", Fresh>>
    BY <1>6 DEF Proper
  <2>2. Fresh \notin ToSet(order)
    <3>1. \A n \in ToSet(order) : n \in 1 .. jobs
      BY DEF Documents, Ordered
    <3> QED
      BY <1>2, <3>1
  <2> QED
    BY <1>2, <2>1, <2>2
<1>7. ASSUME NEW b \in Actors
      PROVE  Unordered(b)'
  <2>1. CASE b = a
    BY <1>1, <1>6, <2>1 DEF Unordered
  <2>2. CASE b # a
    BY <1>1, <1>2, <1>5, <2>2 DEF Unordered
  <2> QED
    BY <2>1, <2>2
<1>8. Apart'
  <2> SUFFICES ASSUME NEW b \in Actors, NEW i \in 1 .. Len(todo'[b]), NEW c \in Actors, NEW j \in 1 .. Len(todo'[c]),
                      Texts(todo'[b][i]), Texts(todo'[c][j]), todo'[b][i].file = todo'[c][j].file
               PROVE  b = c /\ i = j
    BY DEF Apart
  <2>1. CASE b = a /\ c = a
    <3>1. \A k, m \in 1 .. Len(steps) : Texts(steps[k]) /\ Texts(steps[m]) => k = m
      BY DEF Proper
    <3>2. todo'[b] = steps /\ todo'[c] = steps
      BY <1>1, <2>1
    <3>3. i = j
      BY <3>1, <3>2
    <3> QED
      BY <2>1, <3>3
  <2>2. CASE b # a /\ c # a
    <3>1. todo'[b] = todo[b] /\ todo'[c] = todo[c]
      BY <1>1, <2>2
    <3> QED
      BY <3>1 DEF Documents, Apart
  <2>3. CASE b = a /\ c # a
    <3>1. todo'[b] = steps /\ todo'[c] = todo[c]
      BY <1>1, <2>3
    <3>2. steps[i].file = <<"text", Fresh>> /\ todo[c][j].file # <<"text", Fresh>>
      BY <1>5, <1>6, <3>1
    <3> QED
      BY <3>1, <3>2
  <2>4. CASE b # a /\ c = a
    <3>1. todo'[b] = todo[b] /\ todo'[c] = steps
      BY <1>1, <2>4
    <3>2. steps[j].file = <<"text", Fresh>> /\ todo[b][i].file # <<"text", Fresh>>
      BY <1>5, <1>6, <3>1
    <3> QED
      BY <3>1, <3>2
  <2> QED
    BY <2>1, <2>2, <2>3, <2>4
<1>9. Ordered'
  BY <1>2 DEF Documents, Ordered
<1> QED
  BY <1>4, <1>7, <1>8, <1>9 DEF Documents

\* Steps that store no document, and those that pause or break off.
LEMMA OtherDocuments ==
    ASSUME Types, Documents, NEW a \in Actors, NEW left, Left(a, left), todo' = [todo EXCEPT ![a] = left],
           left # todo[a] /\ left # <<>> => Head(todo[a]).do # "create",
           \A f \in stored : f[1] # "parse" => f \in stored',
           UNCHANGED <<jobs, order>>
    PROVE  Documents'
<1>1. \A f : f[1] # "parse" /\ Here(f) => Here(f)'
  BY DEF Here
<1>2. left # todo[a] /\ left # <<>> => \A f : ~Creates(Head(todo[a]), f)
  BY DEF Creates
<1>3. Grown(a, left)
  BY <1>1, <1>2 DEF Grown
<1>4. Ordered'
  <2>1. \A n : <<"text", n>>[1] # "parse"
    OBVIOUS
  <2> QED
    BY <2>1 DEF Documents, Ordered
<1> QED
  BY <1>3, <1>4, DocumentsKept

LEMMA PausedDocuments ==
    ASSUME Types, Documents, NEW a \in Actors, Read(a) \/ Encode(a)
    PROVE  Documents'
<1>1. todo' = todo /\ UNCHANGED <<jobs, order, stored>>
  BY DEF Read, Encode, files, histories
<1>2. todo' = [todo EXCEPT ![a] = todo[a]]
  BY <1>1 DEF Types
<1> QED
  BY <1>1, <1>2, OtherDocuments DEF Left

LEMMA BrokenOffDocuments ==
    ASSUME Types, Documents, NEW a \in Actors, Refuse(a) \/ Stop(a)
    PROVE  Documents'
<1>1. todo[a] # <<>> /\ todo' = [todo EXCEPT ![a] = <<>>] /\ UNCHANGED <<jobs, order>>
  BY DEF Refuse, Stop, Finish, Doing
<1>2. \A f \in stored : f[1] # "parse" => f \in stored'
  BY FilesStay DEF Work
<1> QED
  BY <1>1, <1>2, OtherDocuments DEF Left

LEMMA SkippedDocuments ==
    ASSUME Types, Documents, NEW a \in Actors, Skip(a)
    PROVE  Documents'
<1>1. /\ todo[a] # <<>> /\ todo' = [todo EXCEPT ![a] = Tail(todo[a])] /\ UNCHANGED <<jobs, order, stored>>
      /\ Head(todo[a]).do # "create"
  BY DEF Skip, Done, Finish, Idle, Doing, files
<1> QED
  BY <1>1, OtherDocuments DEF Left

LEMMA WriteSharedDocuments ==
    ASSUME Types, Documents, NEW a \in Actors, WriteShared(a)
    PROVE  Documents'
<1>1. /\ todo[a] # <<>> /\ todo' = [todo EXCEPT ![a] = Tail(todo[a])] /\ UNCHANGED <<jobs, order>>
      /\ Head(todo[a]).do # "create"
  BY DEF WriteShared, Done, Finish, Doing, Changes
<1>2. stored \subseteq stored'
  BY DEF WriteShared, Store
<1> QED
  BY <1>1, <1>2, OtherDocuments DEF Left

LEMMA ParseDocuments ==
    ASSUME Types, Documents, NEW a \in Actors, Parse(a)
    PROVE  Documents'
<1>1. /\ todo[a] # <<>> /\ todo' = [todo EXCEPT ![a] = Tail(todo[a])] /\ UNCHANGED <<jobs, order>>
      /\ Head(todo[a]).do # "create"
  BY DEF Parse, Done, Finish, Doing, histories
<1>2. \A f \in stored : f[1] # "parse" => f \in stored'
  BY FilesStay DEF Work
<1> QED
  BY <1>1, <1>2, OtherDocuments DEF Left

LEMMA TailIsAnother ==
    ASSUME Types, NEW a \in Actors, todo[a] # <<>>
    PROVE  Tail(todo[a]) # todo[a]
<1>1. PICK n : n = Len(todo[a])
  OBVIOUS
<1>2. n \in Nat /\ Len(Tail(todo[a])) = n - 1
  BY <1>1, FirstStep
<1>3. n - 1 # n
  BY <1>2
<1> QED
  BY <1>1, <1>2, <1>3, Zenon

LEMMA WriteOwnDocuments ==
    ASSUME Types, Documents, NEW a \in Actors, WriteOwn(a)
    PROVE  Documents'
<1> DEFINE s == Head(todo[a])
           left == Tail(todo[a])
           new == Doing(a, {"create"}) /\ Name(a) = "text"
<1>1. /\ todo[a] # <<>> /\ todo' = [todo EXCEPT ![a] = left] /\ jobs' = jobs
      /\ stored' = stored \cup {s.file}
      /\ s.do \in {"create", "seal"} /\ (new <=> Texts(s))
      /\ order' = IF new THEN Append(order, s.file[2]) ELSE order
  BY DEF WriteOwn, Done, Finish, Doing, Store, Target, Name, Texts
<1>2. s = todo[a][1] /\ StepSound(s) /\ 1 \in 1 .. Len(todo[a])
  BY <1>1, FirstStep
<1>3. CASE ~new
  <2>1. order' = order
    BY <1>1, <1>3
  <2>2. Ordered'
    BY <1>1, <2>1 DEF Documents, Ordered
  <2>3. \A f : Here(f) => Here(f)'
    BY <1>1, <2>1 DEF Here
  <2>4. \A f : Creates(s, f) => Here(f)'
    BY <1>1, <1>3 DEF Creates, Here, Texts
  <2>5. Grown(a, left)
    BY <2>1, <2>3, <2>4 DEF Grown
  <2> QED
    BY <1>1, <2>2, <2>5, DocumentsKept DEF Left
<1>4. CASE new
  <2>1. PICK n : n = s.file[2]
    OBVIOUS
  <2>2. n \in (1 .. jobs) \ ToSet(order) /\ s.file = <<"text", n>>
    <3>1. n \in (1 .. jobs) \ ToSet(order)
      BY <1>1, <1>2, <1>4, <2>1 DEF Documents, Unordered
    <3>2. s.file = <<"text", n>>
      BY <1>1, <1>2, <1>4, <2>1 DEF StepSound, Texts
    <3> QED
      BY <3>1, <3>2
  <2>3. order' = Append(order, n) /\ order \in Seq(Nat) /\ n \in Nat
    BY <1>1, <1>4, <2>1, <2>2 DEF Types
  <2>4. ToSet(order') = ToSet(order) \cup {n}
    BY <2>3 DEF ToSet
  <2>5. IsInjective(order')
    BY <2>2, <2>3 DEF Documents, Ordered, IsInjective, ToSet
  <2>6. Ordered'
    BY <1>1, <2>2, <2>4, <2>5 DEF Documents, Ordered
  <2>7. \A f : Here(f) => Here(f)'
    BY <1>1, <2>4 DEF Here
  <2>8. \A f : Creates(s, f) => Here(f)'
    BY <2>2, <2>4 DEF Creates, Here
  <2>9. left # todo[a]
    BY <1>1, TailIsAnother
  <2>10. Creates(s, <<"text", n>>)
    BY <1>1, <1>4, <2>2 DEF Creates, Texts
  <2>11. Grown(a, left)
    BY <1>1, <2>4, <2>7, <2>8, <2>9, <2>10 DEF Grown
  <2> QED
    BY <1>1, <2>6, <2>11, DocumentsKept DEF Left
<1> QED
  BY <1>3, <1>4

\* The migration stores no document, and puts seals in the place of its step.
LEMMA SealedDocuments ==
    ASSUME Types, Documents, NEW a \in Actors, NEW left, todo' = [todo EXCEPT ![a] = left],
           \A i \in 1 .. Len(left) : left[i].do = "seal",
           UNCHANGED <<jobs, order, stored>>
    PROVE  Documents'
<1>1. ASSUME NEW b \in Actors, NEW i \in 1 .. Len(todo'[b]), todo'[b][i].do # "seal"
      PROVE  todo'[b] = todo[b]
  BY <1>1 DEF Types
<1>2. \A f : Here(f)' = Here(f)
  BY DEF Here
<1>3. ASSUME NEW b \in Actors
      PROVE  Supplied(b)'
  BY <1>1, <1>2 DEF Documents, Supplied
<1>4. ASSUME NEW b \in Actors
      PROVE  Unordered(b)'
  BY <1>1 DEF Documents, Unordered, Texts
<1>5. Apart'
  <2> SUFFICES ASSUME NEW b \in Actors, NEW i \in 1 .. Len(todo'[b]), NEW c \in Actors, NEW j \in 1 .. Len(todo'[c]),
                      Texts(todo'[b][i]), Texts(todo'[c][j]), todo'[b][i].file = todo'[c][j].file
               PROVE  b = c /\ i = j
    BY DEF Apart
  <2>1. todo'[b] = todo[b] /\ todo'[c] = todo[c]
    BY <1>1 DEF Texts
  <2> QED
    BY <2>1 DEF Documents, Apart
<1>6. Ordered'
  BY DEF Documents, Ordered
<1> QED
  BY <1>3, <1>4, <1>5, <1>6 DEF Documents

LEMMA ListDocuments ==
    ASSUME Types, Documents, NEW a \in Actors, List(a)
    PROVE  Documents'
<1>1. UNCHANGED <<jobs, order, stored>>
  BY DEF List, files
<1>2. Finish(a, Sealing) \/ Finish(a, <<>>)
  BY DEF List, Sealing
<1>3. \A i \in 1 .. Len(Sealing) : Sealing[i].do = "seal"
  BY SealsListed
<1>4. CASE Finish(a, Sealing)
  BY <1>1, <1>3, <1>4, SealedDocuments DEF Finish
<1>5. CASE Finish(a, <<>>)
  <2>1. todo' = [todo EXCEPT ![a] = <<>>] /\ \A i \in 1 .. Len(<<>>) : <<>>[i].do = "seal"
    BY <1>5 DEF Finish
  <2> QED
    BY <1>1, <2>1, SealedDocuments
<1> QED
  BY <1>2, <1>4, <1>5

LEMMA RestartDocuments ==
    ASSUME Documents, Restart
    PROVE  Documents'
<1>1. UNCHANGED <<stored, jobs, order, todo>>
  BY DEF Restart, files, working
<1>2. \A f : Here(f)' = Here(f)
  BY <1>1 DEF Here
<1>3. Ordered' /\ Apart'
  BY <1>1 DEF Documents, Ordered, Apart
<1>4. \A b \in Actors : Supplied(b)' /\ Unordered(b)'
  BY <1>1, <1>2 DEF Documents, Supplied, Unordered
<1> QED
  BY <1>3, <1>4 DEF Documents

LEMMA InitDocuments == Init => Documents
<1> SUFFICES ASSUME Init PROVE Documents
  OBVIOUS
<1>1. order = <<>> /\ \A a \in Actors : todo[a] = <<>>
  BY DEF Init
<1>2. Ordered
  BY <1>1 DEF Ordered, IsInjective, ToSet
<1>3. \A a \in Actors : Supplied(a) /\ Unordered(a)
  BY <1>1 DEF Supplied, Unordered
<1>4. Apart
  BY <1>1 DEF Apart
<1> QED
  BY <1>2, <1>3, <1>4 DEF Documents

-----------------------------------------------------------------------------
(* Contents: the order of documents, and the rows that are cut.            *)

\* The age of a document is its place in the order.
LEMMA PlaceIsUnique ==
    ASSUME NEW o \in Seq(Nat), IsInjective(o), NEW i \in 1 .. Len(o)
    PROVE  (CHOOSE j \in 1 .. Len(o) : o[j] = o[i]) = i
<1>1. \A j \in 1 .. Len(o) : o[j] = o[i] => j = i
  BY DEF IsInjective
<1> QED
  BY <1>1

\* Documents keep their ages.
Aged == \A m \in ToSet(order) : m \in ToSet(order') /\ Age(m)' = Age(m)

LEMMA AgesKept ==
    ASSUME Types, Documents, Types', Documents',
           order' = order \/ \E n \in Nat : order' = Append(order, n)
    PROVE  Aged
<1> SUFFICES ASSUME NEW m \in ToSet(order)
             PROVE  m \in ToSet(order') /\ Age(m)' = Age(m)
  BY DEF Aged
<1>1. order \in Seq(Nat) /\ order' \in Seq(Nat) /\ IsInjective(order) /\ IsInjective(order')
  BY DEF Types, Documents, Ordered
<1>2. PICK i \in 1 .. Len(order) : order[i] = m
  BY <1>1 DEF ToSet
<1>3. i \in 1 .. Len(order') /\ order'[i] = m
  <2>1. CASE order' = order
    BY <1>2, <2>1
  <2>2. CASE \E n \in Nat : order' = Append(order, n)
    BY <1>1, <1>2, <2>2
  <2> QED
    BY <2>1, <2>2
<1>4. m \in ToSet(order')
  BY <1>1, <1>3 DEF ToSet
<1>5. Age(m) = i
  BY <1>1, <1>2, PlaceIsUnique DEF Age
<1>6. Age(m)' = i
  <2>1. (CHOOSE j \in 1 .. Len(order') : order'[j] = order'[i]) = i
    BY <1>1, <1>3, PlaceIsUnique
  <2> QED
    BY <1>3, <2>1 DEF Age
<1> QED
  BY <1>4, <1>5, <1>6

\* Rows that have been cut remain so when the index grows.
LEMMA CutsKept ==
    ASSUME Listing, Listing', Aged, written["index"] \subseteq written'["index"],
           NEW e \in written["index"], Cut(e)
    PROVE  Cut(e)'
<1> DEFINE old == NewerIn(e[2], written["index"])
<1>1. PICK new : new = NewerIn(e[2], written["index"])'
  OBVIOUS
<1>2. e[2] \in ToSet(order) /\ \A r \in written["index"] : r[2] \in ToSet(order)
  BY DEF Listing
<1>3. \A r \in old : r \in new
  BY <1>1, <1>2 DEF NewerIn, Aged
<1>4. new \subseteq written'["index"]
  BY <1>1 DEF NewerIn
<1>5. IsFiniteSet(new)
  BY <1>4, FS_Subset DEF Listing
<1>6. IsFiniteSet(old) /\ Cardinality(old) <= Cardinality(new)
  BY <1>3, <1>5, FS_Subset
<1>7. Cardinality(old) \in Nat /\ Cardinality(new) \in Nat
  BY <1>5, <1>6, FS_CardinalityType
<1>8. Cardinality(old) >= Limit
  BY DEF Cut
<1> HIDE DEF old
<1>9. Cardinality(new) >= Limit
  BY <1>6, <1>7, <1>8, WorkspaceAssumption
<1> QED
  BY <1>1, <1>9 DEF Cut

\* What a change of one file, by an entry or more, leaves of the others and of the documents.
Steady ==
    /\ Listing /\ Listing' /\ Aged
    /\ written["index"] \subseteq written'["index"]
    /\ \A f \in stored : f[1] # "parse" => f \in stored'

\* What another has read of a file, and the file itself, while entries are stored in it or removed.
LEMMA GoodKept ==
    ASSUME Steady, NEW f \in Shared, NEW S, Good(S, f), NEW M,
           written'[f] = written[f] \cup M \/ written'[f] = written[f] \ M,
           raced'[f] = raced[f] \cup M
    PROVE  Good(S, f)'
<1>1. Fits(S, f)'
  <2>1. f = "index" => S \subseteq written'["index"] /\ Whole(S)'
    <3> SUFFICES ASSUME f = "index"
                 PROVE  S \subseteq written'["index"] /\ Whole(S)'
      OBVIOUS
    <3>1. S \subseteq written["index"] /\ Whole(S)
      BY DEF Good, Fits
    <3>2. ASSUME NEW r \in S, r[1] = "raw"
          PROVE  <<"row", r[2]>> \in S /\ r \in stored'
      BY <3>1, <3>2 DEF Whole, Steady
    <3> QED
      BY <3>1, <3>2 DEF Whole, Steady
  <2>2. S \subseteq Room(f)
    BY DEF Good, Fits
  <2> QED
    BY <2>1, <2>2 DEF Fits
<1>2. Stays(S, f)'
  <2> SUFFICES ASSUME NEW e \in (S \ written'[f]) \cup (written'[f] \ S), e \notin raced'[f]
               PROVE  f = "index" /\ Cut(e)'
    BY DEF Stays
  <2>1. e \in (S \ written[f]) \cup (written[f] \ S) /\ e \notin raced[f]
    OBVIOUS
  <2>2. f = "index" /\ Cut(e)
    BY <2>1 DEF Good, Stays
  <2>3. e \in written["index"]
    BY <2>1, <2>2 DEF Good, Fits
  <2> QED
    BY <2>2, <2>3, CutsKept DEF Steady
<1> QED
  BY <1>1, <1>2 DEF Good

\* The new content of the file that is replaced.
LEMMA GoodWritten ==
    ASSUME Steady, NEW f \in Shared, NEW S, Good(S, f), NEW M, NEW new,
           \/ new = S \cup M /\ written'[f] = written[f] \cup M /\ Fits(S \cup M, f)'
           \/ new = S \ M /\ written'[f] = written[f] \ M /\ (f = "index" => M = {}),
           raced'[f] = raced[f] \cup M \/ raced'[f] = raced[f] \ M
    PROVE  Good(new, f)'
<1>1. Stays(new, f)'
  <2> SUFFICES ASSUME NEW e \in (new \ written'[f]) \cup (written'[f] \ new), e \notin raced'[f]
               PROVE  f = "index" /\ Cut(e)'
    BY DEF Stays
  <2>1. e \in (S \ written[f]) \cup (written[f] \ S) /\ e \notin raced[f]
    OBVIOUS
  <2>2. f = "index" /\ Cut(e)
    BY <2>1 DEF Good, Stays
  <2>3. e \in written["index"]
    BY <2>1, <2>2 DEF Good, Fits
  <2> QED
    BY <2>2, <2>3, CutsKept DEF Steady
<1>2. Fits(new, f)'
  <2>1. CASE new = S \cup M /\ Fits(S \cup M, f)'
    BY <2>1
  <2>2. CASE new = S \ M /\ (f = "index" => M = {})
    <3>1. S \subseteq Room(f)
      BY DEF Good, Fits
    <3>2. ASSUME f = "index"
          PROVE  new \subseteq written'["index"] /\ Whole(new)'
      <4>1. new = S /\ S \subseteq written["index"] /\ Whole(S)
        BY <2>2, <3>2 DEF Good, Fits
      <4>2. ASSUME NEW r \in S, r[1] = "raw"
            PROVE  <<"row", r[2]>> \in S /\ r \in stored'
        BY <4>1, <4>2 DEF Whole, Steady
      <4> QED
        BY <4>1, <4>2 DEF Whole, Steady
    <3> QED
      BY <2>2, <3>1, <3>2 DEF Fits
  <2> QED
    BY <2>1, <2>2
<1> QED
  BY <1>1, <1>2 DEF Good

\* A step that writes no shared file.
LEMMA SteadyOutside ==
    ASSUME Types, Types', Documents, Documents', Listing,
           order' = order \/ \E n \in Nat : order' = Append(order, n),
           \A f \in stored : f[1] # "parse" => f \in stored',
           written' = written
    PROVE  Steady
<1>1. Aged
  BY AgesKept
<1>2. Listing'
  BY <1>1 DEF Listing, Aged
<1> QED
  BY <1>1, <1>2 DEF Steady

LEMMA GoodOutside ==
    ASSUME Steady, UNCHANGED <<written, raced>>, NEW f \in Shared, NEW S, Good(S, f)
    PROVE  Good(S, f)'
<1>1. written'[f] = written[f] \cup {} /\ raced'[f] = raced[f] \cup {}
  OBVIOUS
<1> QED
  BY <1>1, GoodKept

\* Steps that neither write a shared file nor read one.
LEMMA ContentsOutside ==
    ASSUME Contents, Steady, UNCHANGED <<content, written, raced>>, NEW a \in Actors,
           \A b \in Actors : b # a => todo'[b] = todo[b] /\ phase'[b] = phase[b] /\ copy'[b] = copy[b],
           Busy(a)' => \E f \in Shared : \E S : f = Name(a)' /\ S = copy'[a] /\ Good(S, f),
           todo'[a] = <<>> => phase'[a] = "ready"
    PROVE  Contents'
<1>1. Listing'
  BY DEF Steady
<1>2. ASSUME NEW f \in Shared
      PROVE  Good(content[f], f)'
  <2>1. PICK S : S = content[f]
    OBVIOUS
  <2>2. Good(S, f)'
    BY <2>1, GoodOutside DEF Contents
  <2>3. content'[f] = S
    BY <2>1
  <2> QED
    BY <2>2, <2>3 DEF Good, Fits, Stays, Whole
<1>3. ASSUME NEW b \in Actors, Busy(b)'
      PROVE  \E f \in Shared : \E S : f = Name(b)' /\ S = copy'[b] /\ Good(S, f)'
  <2>1. PICK f \in Shared : \E S : f = Name(b)' /\ S = copy'[b] /\ Good(S, f)
    <3>1. CASE b = a
      BY <1>3, <3>1
    <3>2. CASE b # a
      <4>1. Busy(b) /\ Name(b)' = Name(b) /\ copy'[b] = copy[b]
        BY <1>3, <3>2 DEF Busy, Name, Target, Doing
      <4> QED
        BY <4>1 DEF Contents, Busy
    <3> QED
      BY <3>1, <3>2
  <2> QED
    BY <2>1, GoodOutside
<1>4. ASSUME NEW b \in Actors
      PROVE  (Busy(b) => Good(copy[b], Name(b)))'
  BY <1>3
<1>5. \A b \in Actors : todo'[b] = <<>> => phase'[b] = "ready"
  BY DEF Contents
<1> QED
  BY <1>1, <1>2, <1>4, <1>5 DEF Contents

LEMMA BeginContents ==
    ASSUME Types, Types', Documents, Documents', Contents, NEW a \in Actors, NEW kind, NEW steps,
           NEW tenant \in Tenants, Proper(kind, steps), Begin(a, kind, tenant, steps)
    PROVE  Contents'
<1>1. /\ todo'[a] = steps /\ steps # <<>> /\ phase'[a] = phase[a]
      /\ \A b \in Actors : b # a => todo'[b] = todo[b] /\ phase'[b] = phase[b] /\ copy'[b] = copy[b]
  BY DEF Begin, Types, Proper
<1>2. phase[a] = "ready"
  BY DEF Begin, Types, Contents
<1>3. UNCHANGED <<content, stored, order, written, raced>>
  BY DEF Begin, files
<1>4. Steady
  BY <1>3, SteadyOutside DEF Contents
<1>5. ~Busy(a)'
  BY <1>1, <1>2 DEF Busy
<1> QED
  BY <1>1, <1>3, <1>4, <1>5, ContentsOutside

\* Steps done without a change to a shared file, and jobs that break off.
LEMMA FinishedContents ==
    ASSUME Types, Types', Documents, Documents', Contents, NEW a \in Actors, NEW left \in Seq(Steps), Finish(a, left),
           Work(a) \/ Stop(a), order' = order \/ \E n \in Nat : order' = Append(order, n),
           UNCHANGED <<content, written, raced>>
    PROVE  Contents'
<1>1. /\ phase'[a] = "ready"
      /\ \A b \in Actors : b # a => todo'[b] = todo[b] /\ phase'[b] = phase[b] /\ copy'[b] = copy[b]
  BY Finished
<1>2. Steady
  BY FilesStay, SteadyOutside DEF Contents
<1>3. ~Busy(a)'
  BY <1>1 DEF Busy
<1> QED
  BY <1>1, <1>2, <1>3, ContentsOutside

LEMMA OtherContents ==
    ASSUME Types, Types', Documents, Documents', Contents, NEW a \in Actors,
           Skip(a) \/ Refuse(a) \/ WriteOwn(a) \/ Parse(a) \/ List(a) \/ Stop(a)
    PROVE  Contents'
<1>1. PICK left \in Seq(Steps) : Finish(a, left)
  <2>1. todo[a] # <<>>
    BY DEF Skip, Refuse, WriteOwn, Parse, List, Stop, Doing
  <2>2. Tail(todo[a]) \in Seq(Steps) /\ <<>> \in Seq(Steps) /\ Sealing \in Seq(Steps)
    BY <2>1, FirstStep, SealsListed
  <2>3. Finish(a, Tail(todo[a])) \/ Finish(a, <<>>) \/ Finish(a, Sealing)
    BY DEF Skip, Refuse, WriteOwn, Parse, List, Stop, Done, Sealing
  <2> QED
    BY <2>2, <2>3
<1>2. UNCHANGED <<content, written, raced>>
  BY DEF Skip, Refuse, WriteOwn, Parse, List, Stop, files, histories
<1>3. order' = order \/ \E n \in Nat : order' = Append(order, n)
  <2>1. CASE WriteOwn(a) /\ order' # order
    <3>1. order' = Append(order, Target(a)[2]) /\ todo[a] # <<>> /\ Doing(a, {"create"})
      BY <2>1 DEF WriteOwn, Doing
    <3>2. Target(a) \in Sealable
      BY <3>1, FilesThatChange DEF Doing
    <3>3. Target(a)[2] \in Nat
      BY <3>2 DEF Sealable
    <3> QED
      BY <3>1, <3>3
  <2>2. CASE ~WriteOwn(a)
    BY <2>2 DEF Skip, Refuse, Parse, List, Stop
  <2> QED
    BY <2>1, <2>2
<1> QED
  BY <1>1, <1>2, <1>3, FinishedContents DEF Work

\* The rows that are left when the index is read.
LEMMA ListedIsGood ==
    ASSUME Listing, NEW S, Good(S, "index")
    PROVE  Good(Listed(S), "index")
<1>1. /\ S \subseteq Room("index") /\ S \subseteq written["index"] /\ Whole(S)
      /\ Stays(S, "index")
  BY DEF Good, Fits
<1>2. Listed(S) \subseteq S
  BY DEF Listed
<1>3. Whole(Listed(S))
  <2> SUFFICES ASSUME NEW r \in Listed(S), r[1] = "raw"
               PROVE  <<"row", r[2]>> \in Listed(S) /\ r \in stored
    BY DEF Whole
  <2>1. <<"row", r[2]>> \in S /\ r \in stored
    BY <1>1, <1>2 DEF Whole
  <2>2. PICK n : n = r[2]
    OBVIOUS
  <2>3. Cardinality(NewerIn(n, S)) < Limit
    BY <2>2 DEF Listed
  <2>4. <<"row", n>> \in Listed(S)
    BY <2>1, <2>2, <2>3 DEF Listed
  <2> QED
    BY <2>1, <2>2, <2>4
<1>4. ASSUME NEW e \in S, e \notin Listed(S)
      PROVE  Cut(e)
  <2>1. ~(Cardinality(NewerIn(e[2], S)) < Limit)
    BY <1>4 DEF Listed
  <2>2. NewerIn(e[2], S) \subseteq NewerIn(e[2], written["index"])
    BY <1>1 DEF NewerIn
  <2>3. NewerIn(e[2], written["index"]) \subseteq written["index"]
    BY DEF NewerIn
  <2>4. IsFiniteSet(NewerIn(e[2], written["index"]))
    BY <2>3, FS_Subset DEF Listing
  <2>5. /\ IsFiniteSet(NewerIn(e[2], S))
        /\ Cardinality(NewerIn(e[2], S)) <= Cardinality(NewerIn(e[2], written["index"]))
    BY <2>2, <2>4, FS_Subset
  <2>6. Cardinality(NewerIn(e[2], S)) \in Nat /\ Cardinality(NewerIn(e[2], written["index"])) \in Nat
    BY <2>4, <2>5, FS_CardinalityType
  <2> QED
    BY <2>1, <2>5, <2>6, WorkspaceAssumption DEF Cut
<1>5. Stays(Listed(S), "index")
  BY <1>1, <1>2, <1>4 DEF Stays
<1>6. Listed(S) \subseteq Room("index") /\ Listed(S) \subseteq written["index"]
  BY <1>1, <1>2
<1> QED
  BY <1>3, <1>5, <1>6 DEF Good, Fits

LEMMA PausedContents ==
    ASSUME Types, Types', Documents, Documents', Contents, NEW a \in Actors, Read(a) \/ Encode(a)
    PROVE  Contents'
<1>1. /\ UNCHANGED <<content, stored, order, written, raced, todo>> /\ todo[a] # <<>>
      /\ \A b \in Actors : b # a => phase'[b] = phase[b] /\ copy'[b] = copy[b]
  BY DEF Read, Encode, Types, files, histories, Doing
<1>2. Steady
  BY <1>1, SteadyOutside DEF Contents
<1>3. Name(a)' = Name(a) /\ \A kinds : Doing(a, kinds)' <=> Doing(a, kinds)
  BY <1>1 DEF Name, Target, Doing
<1>4. ASSUME Busy(a)', Read(a)
      PROVE  \E f \in Shared : \E S : f = Name(a)' /\ S = copy'[a] /\ Good(S, f)
  <2>1. Name(a) \in Shared
    BY <1>3, <1>4 DEF Busy
  <2>2. copy'[a] = IF Name(a) = "index" /\ ~Doing(a, {"seal"}) THEN Listed(content["index"]) ELSE content[Name(a)]
    BY <1>4, <2>1 DEF Read, Types
  <2>3. Good(content[Name(a)], Name(a))
    BY <2>1 DEF Contents
  <2>4. CASE Name(a) = "index" /\ ~Doing(a, {"seal"})
    <3>1. Good(content["index"], "index") /\ "index" \in Shared
      BY <2>1, <2>3, <2>4
    <3>2. Good(Listed(content["index"]), "index")
      BY <3>1, ListedIsGood DEF Contents
    <3> QED
      BY <1>3, <2>2, <2>4, <3>1, <3>2
  <2>5. CASE ~(Name(a) = "index" /\ ~Doing(a, {"seal"}))
    BY <1>3, <2>1, <2>2, <2>3, <2>5
  <2> QED
    BY <2>4, <2>5
<1>5. ASSUME Busy(a)', Encode(a)
      PROVE  \E f \in Shared : \E S : f = Name(a)' /\ S = copy'[a] /\ Good(S, f)
  <2>1. Name(a) \in Shared /\ Doing(a, Changes \cup {"seal"}) /\ copy'[a] = copy[a]
    BY <1>3, <1>5 DEF Busy, Encode
  <2>2. ~Doing(a, {"create"})
    BY <2>1 DEF Doing, Changes
  <2>3. Busy(a)
    BY <1>5, <2>1, <2>2 DEF Busy, Encode
  <2> QED
    BY <1>3, <2>1, <2>3 DEF Contents
<1> QED
  BY <1>1, <1>2, <1>4, <1>5, ContentsOutside

\* Steps that change none of this.
LEMMA ContentsAlike ==
    ASSUME Contents, UNCHANGED <<content, stored, order, written, raced, todo, phase, copy>>
    PROVE  Contents'
<1>1. UNCHANGED <<content, stored, order, written, raced, todo, phase, copy>>
  OBVIOUS
<1>2. \A n : Age(n)' = Age(n)
  BY <1>1 DEF Age
<1>3. Listing'
  BY <1>1 DEF Contents, Listing
<1>4. Steady
  BY <1>1, <1>2, <1>3 DEF Contents, Steady, Aged
<1>5. \A a \in Actors : Busy(a)' => Busy(a) /\ Name(a)' = Name(a)
  BY <1>1 DEF Busy, Name, Target, Doing
<1>6. ASSUME NEW f \in Shared
      PROVE  Good(content[f], f)'
  BY <1>1, <1>4, GoodOutside DEF Contents
<1>7. ASSUME NEW b \in Actors, Busy(b)'
      PROVE  \E f \in Shared : \E S : f = Name(b)' /\ S = copy'[b] /\ Good(S, f)'
  <2>1. PICK f \in Shared : \E S : f = Name(b)' /\ S = copy'[b] /\ Good(S, f)
    BY <1>1, <1>5, <1>7 DEF Contents, Busy
  <2> QED
    BY <1>1, <1>4, <2>1, GoodOutside
<1>8. ASSUME NEW b \in Actors
      PROVE  (Busy(b) => Good(copy[b], Name(b)))'
  BY <1>7
<1> QED
  BY <1>1, <1>3, <1>6, <1>8 DEF Contents

LEMMA RestartContents ==
    ASSUME Contents, Restart
    PROVE  Contents'
BY ContentsAlike DEF Restart, files, working, histories

LEMMA InitContents == Init => Contents
<1> SUFFICES ASSUME Init PROVE Contents
  OBVIOUS
<1>1. Listing
  BY FS_EmptySet DEF Init, Listing, Shared
<1>2. ASSUME NEW f \in Shared
      PROVE  Good(content[f], f)
  <2>1. content[f] = {} /\ written[f] = {} /\ written["index"] = {}
    BY DEF Init, Shared
  <2> QED
    BY <2>1 DEF Good, Fits, Stays, Whole
<1>3. \A a \in Actors : ~Busy(a) /\ phase[a] = "ready"
  BY DEF Init, Busy
<1> QED
  BY <1>1, <1>2, <1>3 DEF Contents

-----------------------------------------------------------------------------
(* Contents: a shared file is replaced.                                    *)

\* What a change adds to the entries that it has read, or takes from them.
Adding(a, S, M) ==
    /\ After(a) = S \cup M /\ ~Doing(a, {"unset", "dequeue", "reset"})
    /\ M \subseteq Room(Name(a))
    /\ Name(a) = "index" =>
         /\ M \subseteq {Head(todo[a]).entry}
         /\ \A e \in M : e[2] \in ToSet(order) /\ (e[1] = "raw" => <<"row", e[2]>> \in S /\ e \in stored)

Removing(a, S, M) == After(a) = S \ M /\ Doing(a, {"unset", "dequeue", "reset"}) /\ Name(a) # "index"

LEMMA WhatIsWritten ==
    ASSUME Types, Documents, Contents, NEW a \in Actors, WriteShared(a)
    PROVE  \E S, M : Good(S, Name(a)) /\ M = Meant(a) /\ (Adding(a, S, M) \/ Removing(a, S, M))
<1> DEFINE s == Head(todo[a])
           f == Name(a)
           c == copy[a]
<1>1. todo[a] # <<>> /\ f \in Shared /\ s.do \in Changes \cup {"seal", "reset"} /\ f = s.file[1]
  BY DEF WriteShared, Doing, Name, Target
<1>2. StepSound(s) /\ s = todo[a][1] /\ 1 \in 1 .. Len(todo[a])
  BY <1>1, FirstStep
<1>3. \A kinds : Doing(a, kinds) <=> s.do \in kinds
  BY <1>1 DEF Doing
<1>4. s.do # "reset" => Good(c, f)
  <2> SUFFICES ASSUME s.do # "reset"
               PROVE  Good(c, f)
    OBVIOUS
  <2>1. phase[a] # "ready"
    BY <1>3 DEF WriteShared
  <2>2. Busy(a)
    BY <1>1, <1>3, <2>1 DEF Busy
  <2> QED
    BY <2>2 DEF Contents
<1>5. /\ Meant(a) = IF s.do = "reset" THEN content[f]
                    ELSE IF s.do = "seal" THEN {}
                    ELSE IF s.do = "note" THEN After(a) \cap {s.entry}
                    ELSE {s.entry}
      /\ After(a) = IF s.do = "reset" THEN {}
                    ELSE IF s.do = "seal" \/ (s.do = "note" /\ <<"row", s.entry[2]>> \notin c) THEN c
                    ELSE IF s.do \in {"unset", "dequeue"} THEN c \ {s.entry}
                    ELSE c \cup {s.entry}
  BY DEF Meant, After
<1>6. s.do \in {"row", "note"} => Here(Subject(s.entry))
  <2>1. Supplied(a)
    BY DEF Documents
  <2>2. ~\E j \in 1 .. (1 - 1) : Creates(todo[a][j], Subject(s.entry))
    OBVIOUS
  <2> QED
    BY <1>2, <2>1, <2>2 DEF Supplied
<1> HIDE DEF s, f, c
<1>7. CASE s.do = "reset"
  <2>1. f # "index" /\ Good(content[f], f)
    BY <1>1, <1>2, <1>7 DEF StepSound, File, Contents
  <2>2. Removing(a, content[f], content[f])
    BY <1>3, <1>5, <1>7, <2>1 DEF Removing, f
  <2> QED
    BY <1>5, <1>7, <2>1, <2>2 DEF f
<1>8. CASE s.do = "seal"
  <2>1. Adding(a, c, {})
    BY <1>3, <1>5, <1>8 DEF Adding
  <2> QED
    BY <1>4, <1>5, <1>8, <2>1 DEF f
<1>9. CASE s.do = "row"
  <2>1. f = "index" /\ s.entry \in {"row"} \X Nat
    BY <1>1, <1>2, <1>9 DEF StepSound, File
  <2>2. PICK n \in Nat : s.entry = <<"row", n>>
    BY <2>1
  <2>3. n \in ToSet(order)
    BY <1>6, <1>9, <2>2 DEF Subject, Here
  <2>4. s.entry \in Room("index")
    BY <2>2 DEF Room
  <2>5. Adding(a, c, {s.entry})
    BY <1>3, <1>5, <1>9, <2>1, <2>2, <2>3, <2>4 DEF Adding, f, s
  <2> QED
    BY <1>4, <1>5, <1>9, <2>5 DEF f
<1>10. CASE s.do = "note"
  <2>1. f = "index" /\ s.entry \in {"raw"} \X Nat
    BY <1>1, <1>2, <1>10 DEF StepSound, File
  <2>2. PICK n \in Nat : s.entry = <<"raw", n>>
    BY <2>1
  <2>3. s.entry \in stored
    BY <1>6, <1>10, <2>2 DEF Subject, Here
  <2>4. Good(c, "index")
    BY <1>4, <1>10, <2>1
  <2>5. CASE <<"row", n>> \notin c
    <3>1. After(a) = c
      BY <1>5, <1>10, <2>2, <2>5
    <3>2. s.entry \notin c
      BY <2>2, <2>4, <2>5 DEF Good, Fits, Whole
    <3>3. Meant(a) = {}
      BY <1>5, <1>10, <3>1, <3>2
    <3>4. Adding(a, c, {})
      BY <1>3, <1>10, <3>1 DEF Adding
    <3> QED
      BY <2>1, <2>4, <3>3, <3>4 DEF f
  <2>6. CASE <<"row", n>> \in c
    <3>1. After(a) = c \cup {s.entry}
      BY <1>5, <1>10, <2>2, <2>6
    <3>2. Meant(a) = {s.entry}
      BY <1>5, <1>10, <3>1
    <3>3. <<"row", n>> \in written["index"]
      BY <2>4, <2>6 DEF Good, Fits
    <3>4. n \in ToSet(order)
      BY <3>3 DEF Contents, Listing
    <3>5. s.entry \in Room("index")
      BY <2>2 DEF Room
    <3>6. Adding(a, c, {s.entry})
      BY <1>3, <1>10, <2>1, <2>2, <2>3, <2>6, <3>1, <3>4, <3>5 DEF Adding, f, s
    <3> QED
      BY <2>1, <2>4, <3>2, <3>6 DEF f
  <2> QED
    BY <2>5, <2>6
<1>11. CASE s.do \in {"unset", "dequeue"}
  <2>1. f # "index"
    BY <1>1, <1>2, <1>11 DEF StepSound, File
  <2>2. Removing(a, c, {s.entry})
    BY <1>3, <1>5, <1>11, <2>1 DEF Removing, f
  <2> QED
    BY <1>4, <1>5, <1>11, <2>2 DEF f
<1>12. CASE s.do \in {"set", "ensure", "enqueue"}
  <2>1. f # "index" /\ s.entry \in Room(f)
    BY <1>1, <1>2, <1>12 DEF StepSound, File, Room
  <2>2. Adding(a, c, {s.entry})
    BY <1>3, <1>5, <1>12, <2>1 DEF Adding, f
  <2> QED
    BY <1>4, <1>5, <1>12, <2>2 DEF f
<1> QED
  BY <1>1, <1>7, <1>8, <1>9, <1>10, <1>11, <1>12 DEF Changes

\* What the write does to the entries that belong in the file, and to those that were raced.
Marks(a, M) ==
    LET f == Name(a) IN
    /\ f \in Shared /\ content'[f] = After(a)
    /\ written'[f] = (IF Doing(a, {"unset", "dequeue", "reset"}) THEN written[f] \ M ELSE written[f] \cup M)
    /\ raced'[f] = (IF Open(a, f) # {} THEN raced[f] \cup M ELSE raced[f] \ M)
    /\ \A g \in Shared : g # f => content'[g] = content[g] /\ written'[g] = written[g] /\ raced'[g] = raced[g]

LEMMA MarksMade ==
    ASSUME Types, NEW a \in Actors, WriteShared(a), NEW M, M = Meant(a)
    PROVE  Marks(a, M)
BY DEF Types, WriteShared, Marks

\* The index keeps its rows, each of a document in the order.
LEMMA SteadyWritten ==
    ASSUME Types, Contents, NEW a \in Actors, WriteShared(a), NEW S, NEW M, Marks(a, M),
           Adding(a, S, M) \/ Removing(a, S, M)
    PROVE  Steady
<1>1. order' = order
  BY DEF WriteShared
<1>2. Aged
  BY <1>1 DEF Aged, Age
<1>3. \A f \in stored : f[1] # "parse" => f \in stored'
  BY FilesStay DEF Work
<1>4. "index" \in Shared
  BY DEF Shared
<1>5. Listing
  BY DEF Contents
<1>6. Listing' /\ written["index"] \subseteq written'["index"]
  <2>1. CASE Name(a) # "index"
    <3>1. written'["index"] = written["index"]
      BY <1>4, <2>1 DEF Marks
    <3> QED
      BY <1>1, <1>5, <3>1 DEF Listing
  <2>2. CASE Name(a) = "index"
    <3>1. Adding(a, S, M)
      BY <2>2 DEF Removing
    <3>2. written'["index"] = written["index"] \cup M /\ M \subseteq {Head(todo[a]).entry}
      BY <2>2, <3>1 DEF Adding, Marks
    <3>3. IsFiniteSet(written["index"] \cup {Head(todo[a]).entry})
      BY <1>5, FS_AddElement DEF Listing
    <3>4. IsFiniteSet(written'["index"])
      BY <3>2, <3>3, FS_Subset
    <3>5. M \subseteq {"row", "raw"} \X ToSet(order)
      <4>1. \A e \in M : e \in {"row", "raw"} \X Nat /\ e[2] \in ToSet(order)
        BY <2>2, <3>1 DEF Adding, Room
      <4> QED
        BY <4>1
    <3> QED
      BY <1>1, <1>5, <3>2, <3>4, <3>5 DEF Listing
  <2> QED
    BY <2>1, <2>2
<1> QED
  BY <1>2, <1>3, <1>5, <1>6 DEF Steady

LEMMA WriteSharedContents ==
    ASSUME Types, Documents, Contents, NEW a \in Actors, WriteShared(a)
    PROVE  Contents'
<1>1. PICK S, M : Good(S, Name(a)) /\ M = Meant(a) /\ (Adding(a, S, M) \/ Removing(a, S, M))
  BY WhatIsWritten
<1>2. Marks(a, M)
  BY <1>1, MarksMade
<1>3. Steady
  BY <1>1, <1>2, SteadyWritten
<1>4. PICK f \in Shared : f = Name(a)
  BY DEF WriteShared
<1>5. /\ phase'[a] = "ready"
      /\ \A b \in Actors : b # a => todo'[b] = todo[b] /\ phase'[b] = phase[b] /\ copy'[b] = copy[b]
  <2>1. todo[a] # <<>> /\ Finish(a, Tail(todo[a]))
    BY DEF WriteShared, Done, Doing
  <2>2. PICK left \in Seq(Steps) : Finish(a, left)
    BY <2>1, FirstStep
  <2> QED
    BY <2>2, Finished
<1>6. Adding(a, S, M) => Fits(S \cup M, f)'
  <2> SUFFICES ASSUME Adding(a, S, M)
               PROVE  Fits(S \cup M, f)'
    OBVIOUS
  <2>1. S \cup M \subseteq Room(f)
    BY <1>1, <1>4 DEF Good, Fits, Adding
  <2>2. ASSUME f = "index"
        PROVE  S \cup M \subseteq written'["index"] /\ Whole(S \cup M)'
    <3>1. S \subseteq written["index"] /\ Whole(S)
      BY <1>1, <1>4, <2>2 DEF Good, Fits
    <3>2. written'["index"] = written["index"] \cup M
      BY <1>2, <1>4, <2>2 DEF Adding, Marks
    <3>3. ASSUME NEW r \in S \cup M, r[1] = "raw"
          PROVE  <<"row", r[2]>> \in S \cup M /\ r \in stored
      BY <1>4, <2>2, <3>1, <3>3 DEF Adding, Whole
    <3>4. Whole(S \cup M)'
      BY <1>3, <3>3 DEF Whole, Steady
    <3> QED
      BY <3>1, <3>2, <3>4
  <2> QED
    BY <2>1, <2>2 DEF Fits
<1>7. ASSUME NEW g \in Shared
      PROVE  Good(content[g], g)'
  <2>1. CASE g = f
    <3>1. PICK new : new = content'[g]
      OBVIOUS
    <3>2. \/ new = S \cup M /\ written'[f] = written[f] \cup M /\ Fits(S \cup M, f)'
          \/ new = S \ M /\ written'[f] = written[f] \ M /\ (f = "index" => M = {})
      BY <1>1, <1>2, <1>4, <1>6, <2>1, <3>1 DEF Marks, Adding, Removing
    <3>3. raced'[f] = raced[f] \cup M \/ raced'[f] = raced[f] \ M
      BY <1>2, <1>4 DEF Marks
    <3>4. Good(new, f)'
      BY <1>1, <1>3, <1>4, <3>2, <3>3, GoodWritten
    <3> QED
      BY <2>1, <3>1, <3>4
  <2>2. CASE g # f
    <3>1. PICK T : T = content[g] /\ T = content'[g]
      BY <1>2, <1>4, <2>2 DEF Marks
    <3>2. Good(T, g) /\ written'[g] = written[g] \cup {} /\ raced'[g] = raced[g] \cup {}
      BY <1>2, <1>4, <2>2, <3>1 DEF Marks, Contents
    <3>3. Good(T, g)'
      BY <1>3, <3>2, GoodKept
    <3> QED
      BY <3>1, <3>3
  <2> QED
    BY <2>1, <2>2
<1>8. ASSUME NEW b \in Actors, Busy(b)'
      PROVE  \E g \in Shared : \E T : g = Name(b)' /\ T = copy'[b] /\ Good(T, g)'
  <2>1. b # a /\ Busy(b) /\ Name(b)' = Name(b) /\ copy'[b] = copy[b]
    BY <1>5, <1>8 DEF Busy, Name, Target, Doing
  <2>2. PICK g \in Shared, T \in {copy[b]} : g = Name(b) /\ T = copy[b] /\ Good(T, g)
    BY <2>1 DEF Contents, Busy
  <2>3. CASE g = f
    <3>1. b \in Open(a, f)
      BY <2>1, <2>2, <2>3 DEF Busy, Open
    <3>2. raced'[f] = raced[f] \cup M /\ (written'[f] = written[f] \cup M \/ written'[f] = written[f] \ M)
      BY <1>2, <1>4, <3>1 DEF Marks
    <3>3. Good(T, g)'
      BY <1>3, <2>2, <2>3, <3>2, GoodKept
    <3> QED
      BY <2>1, <2>2, <3>3
  <2>4. CASE g # f
    <3>1. written'[g] = written[g] \cup {} /\ raced'[g] = raced[g] \cup {}
      BY <1>2, <1>4, <2>4 DEF Marks
    <3>2. Good(T, g)'
      BY <1>3, <2>2, <3>1, GoodKept
    <3> QED
      BY <2>1, <2>2, <3>2
  <2> QED
    BY <2>3, <2>4
<1>9. ASSUME NEW b \in Actors
      PROVE  (Busy(b) => Good(copy[b], Name(b)))'
  BY <1>8
<1>10. \A b \in Actors : todo'[b] = <<>> => phase'[b] = "ready"
  BY <1>5 DEF Contents
<1>11. Listing'
  BY <1>3 DEF Steady
<1> QED
  BY <1>7, <1>9, <1>10, <1>11 DEF Contents

-----------------------------------------------------------------------------
(* Plains: what a migration seals, and what escapes it.                    *)

\* While a migration runs, or after one, whatever a step leaves in plain has escaped or was so before.
LEMMA PlainSteps ==
    ASSUME Types, Plains, NEW a \in Actors, Work(a) \/ Stop(a), Migrating \/ secured
    PROVE  \A f \in plain' : Explained(f)' \/ (f \in plain /\ ~Explained(f))
<1>1. todo[a] # <<>>
  BY DEF Work, Stop, Skip, Read, Encode, Refuse, WriteShared, WriteOwn, Parse, List, Doing
<1>2. met[a] \/ Encryption \in written["settings"]
  BY <1>1 DEF Types, Plains
<1>3. CASE plain' \subseteq plain /\ escaped' = escaped
  BY <1>3 DEF Explained
<1>4. CASE Store(a)
  BY <1>2, <1>4 DEF Store, Explained
<1>5. CASE Parse(a)
  <2>1. escaped' = escaped
    BY <1>5 DEF Parse, histories
  <2>2. Doing(a, {"unpack", "remove"})
    BY <1>5 DEF Parse, Doing
  <2>3. Target(a)[1] = "parse"
    BY <1>1, <2>2, FilesThatChange DEF Name
  <2> QED
    BY <1>5, <2>1, <2>3 DEF Parse, Explained
<1>6. CASE Skip(a) \/ Read(a) \/ Encode(a) \/ Refuse(a) \/ List(a) \/ Stop(a)
  <2>1. plain' \subseteq plain /\ escaped' = escaped
    BY <1>6 DEF Skip, Read, Encode, Refuse, List, Stop, files, histories
  <2> QED
    BY <1>3, <2>1
<1>7. CASE WriteShared(a) \/ WriteOwn(a)
  BY <1>3, <1>4, <1>7 DEF WriteShared, WriteOwn
<1> QED
  BY <1>5, <1>6, <1>7 DEF Work

\* A migration that is done with a file leaves it encrypted or escaped.
LEMMA OwnSeal ==
    ASSUME Types, Plains, NEW a \in Actors, job[a] = "migration", Doing(a, {"seal"}),
           Skip(a) \/ WriteShared(a) \/ WriteOwn(a)
    PROVE  \A f \in plain' : Explained(f)' \/ (f \in plain /\ ~Explained(f) /\ f # Target(a))
<1>1. met[a]
  BY DEF Plains, Migrating
<1>2. CASE Skip(a)
  <2>1. plain' = plain /\ escaped' = escaped /\ Target(a) \notin plain
    BY <1>2 DEF Skip, files, Idle, Doing
  <2> QED
    BY <2>1 DEF Explained
<1>3. CASE Store(a)
  BY <1>1, <1>3 DEF Store, Explained
<1>4. CASE WriteShared(a)
  <2>1. todo[a] # <<>> /\ Head(todo[a]).do = "seal"
    BY DEF Doing
  <2>2. Target(a) \in Sealable
    BY <2>1, FirstStep DEF StepSound, Target
  <2>3. Name(a) \notin Bare
    BY <2>2 DEF Sealable, Name, Bare
  <2> QED
    BY <1>3, <1>4, <2>3 DEF WriteShared
<1>5. CASE WriteOwn(a)
  BY <1>3, <1>5 DEF WriteOwn
<1> QED
  BY <1>2, <1>4, <1>5

\* The first step of a migration says how far it has come.
LEMMA CourseStep ==
    ASSUME Types, Plains, NEW a \in Actors, job[a] = "migration"
    PROVE  /\ todo[a] # <<>>
           /\ \/ Doing(a, {"list"}) /\ Tail(todo[a]) = <<>>
              \/ Doing(a, {"set"}) /\ Len(Tail(todo[a])) = 1 /\ Tail(todo[a])[1].do = "list"
              \/ /\ Doing(a, {"seal"})
                 /\ \A i \in 1 .. Len(Tail(todo[a])) : Tail(todo[a])[i].do = "seal"
                 /\ \A f \in plain : \/ Explained(f) \/ f = Target(a)
                                     \/ \E i \in 1 .. Len(Tail(todo[a])) : Tail(todo[a])[i].file = f
<1>1. todo[a] # <<>>
  BY DEF Types
<1> DEFINE left == Tail(todo[a])
<1>2. /\ Head(todo[a]) = todo[a][1] /\ Len(todo[a]) \in Nat /\ Len(todo[a]) >= 1 /\ Len(left) = Len(todo[a]) - 1
      /\ \A i \in 1 .. Len(left) : left[i] = todo[a][i + 1]
      /\ left \in Seq(Steps)
  BY <1>1, FirstStep
<1>3. \A kinds : Doing(a, kinds) <=> todo[a][1].do \in kinds
  BY <1>1, <1>2 DEF Doing
<1>4. Target(a) = todo[a][1].file
  BY <1>2 DEF Target
<1> HIDE DEF left
<1>5. CASE Len(todo[a]) = 1 /\ todo[a][1].do = "list"
  <2>1. left = <<>>
    BY <1>2, <1>5
  <2> QED
    BY <1>1, <1>3, <1>5, <2>1 DEF left
<1>6. CASE Len(todo[a]) = 2 /\ todo[a][1].do = "set" /\ todo[a][2].do = "list"
  <2>1. Len(left) = 1 /\ left[1] = todo[a][1 + 1]
    BY <1>2, <1>6
  <2>2. left[1].do = "list"
    BY <1>6, <2>1
  <2> QED
    BY <1>1, <1>3, <1>6, <2>1, <2>2 DEF left
<1>7. CASE Seals(a) /\ \A f \in plain : Explained(f) \/ \E i \in 1 .. Len(todo[a]) : todo[a][i].file = f
  <2>1. \A i \in 1 .. Len(left) : i + 1 \in 1 .. Len(todo[a]) /\ left[i] = todo[a][i + 1]
    BY <1>2
  <2>2. \A i \in 1 .. Len(left) : left[i].do = "seal"
    BY <1>7, <2>1 DEF Seals
  <2>3. todo[a][1].do = "seal"
    BY <1>2, <1>7 DEF Seals
  <2>4. ASSUME NEW f \in plain, ~Explained(f), f # Target(a)
        PROVE  \E i \in 1 .. Len(left) : left[i].file = f
    <3>1. PICK i \in 1 .. Len(todo[a]) : todo[a][i].file = f
      BY <1>7, <2>4
    <3>2. i # 1
      BY <1>4, <2>4, <3>1
    <3>3. i - 1 \in 1 .. Len(left) /\ (i - 1) + 1 = i
      BY <1>2, <3>2
    <3>4. left[i - 1] = todo[a][i]
      BY <1>2, <3>3
    <3> QED
      BY <3>1, <3>3, <3>4
  <2> QED
    BY <1>1, <1>3, <2>2, <2>3, <2>4 DEF left
<1> QED
  BY <1>5, <1>6, <1>7 DEF Plains, Course

\* The migrations of others, and one's own that has not gone on.
LEMMA CourseKept ==
    ASSUME Types, Plains, NEW b \in Actors, job[b] = "migration", todo'[b] = todo[b],
           \A f \in plain' : Explained(f)' \/ (f \in plain /\ ~Explained(f))
    PROVE  Course(b)'
<1>1. Course(b)
  BY DEF Plains
<1>2. CASE Seals(b) /\ \A f \in plain : Explained(f) \/ \E i \in 1 .. Len(todo[b]) : todo[b][i].file = f
  BY <1>2 DEF Course, Seals
<1>3. CASE ~(Seals(b) /\ \A f \in plain : Explained(f) \/ \E i \in 1 .. Len(todo[b]) : todo[b][i].file = f)
  BY <1>1, <1>3 DEF Course
<1> QED
  BY <1>2, <1>3

\* A migration goes on.
LEMMA CourseTaken ==
    ASSUME Types, Plains, NEW a \in Actors, job[a] = "migration", todo'[a] = Tail(todo[a]), todo'[a] # <<>>,
           Skip(a) \/ WriteShared(a) \/ WriteOwn(a) \/ Parse(a)
    PROVE  Course(a)'
<1>1. CASE Doing(a, {"list"}) /\ Tail(todo[a]) = <<>>
  BY <1>1
<1>2. CASE Doing(a, {"set"}) /\ Len(Tail(todo[a])) = 1 /\ Tail(todo[a])[1].do = "list"
  BY <1>2 DEF Course
<1>3. CASE /\ Doing(a, {"seal"})
           /\ \A i \in 1 .. Len(Tail(todo[a])) : Tail(todo[a])[i].do = "seal"
           /\ \A f \in plain : \/ Explained(f) \/ f = Target(a)
                               \/ \E i \in 1 .. Len(Tail(todo[a])) : Tail(todo[a])[i].file = f
  <2>1. ~Parse(a)
    BY <1>3 DEF Parse, Doing
  <2>2. \A f \in plain' : Explained(f)' \/ (f \in plain /\ ~Explained(f) /\ f # Target(a))
    BY <1>3, <2>1, OwnSeal
  <2>3. Seals(a)'
    BY <1>3 DEF Seals
  <2>4. \A f \in plain' : Explained(f)' \/ \E i \in 1 .. Len(todo'[a]) : todo'[a][i].file = f
    BY <1>3, <2>2
  <2> QED
    BY <2>3, <2>4 DEF Course
<1> QED
  BY <1>1, <1>2, <1>3, CourseStep

\* The encryption stays in the settings unless they are reset.
LEMMA EncryptionKept ==
    ASSUME Types, NEW a \in Actors, Work(a) \/ Stop(a), Encryption \in written["settings"],
           WriteShared(a) => ~(Doing(a, {"reset"}) /\ Name(a) = "settings")
    PROVE  Encryption \in written'["settings"]
<1>1. CASE WriteShared(a)
  <2>1. PICK M : M = Meant(a)
    OBVIOUS
  <2>2. Marks(a, M)
    BY <1>1, <2>1, MarksMade
  <2>3. "settings" \in Shared
    BY DEF Shared
  <2>4. CASE Name(a) # "settings" \/ ~Doing(a, {"unset", "dequeue", "reset"})
    BY <2>2, <2>3, <2>4 DEF Marks
  <2>5. CASE Name(a) = "settings" /\ Doing(a, {"unset", "dequeue", "reset"})
    <3>1. todo[a] # <<>> /\ Name(a) = Head(todo[a]).file[1]
      BY <2>5 DEF Doing, Name, Target
    <3>2. Head(todo[a]).do = "unset"
      <4>1. StepSound(Head(todo[a]))
        BY <3>1, FirstStep
      <4>2. Head(todo[a]).do # "dequeue"
        BY <2>5, <3>1, <4>1 DEF StepSound, File
      <4> QED
        BY <1>1, <2>5, <4>2 DEF Doing
    <3>3. M = {Head(todo[a]).entry} /\ Head(todo[a]).entry # Encryption
      BY <2>1, <3>1, <3>2, FirstStep DEF StepSound, Meant
    <3> QED
      BY <2>2, <2>5, <3>3 DEF Marks
  <2> QED
    BY <2>4, <2>5
<1>2. CASE ~WriteShared(a)
  BY <1>2 DEF Work, Stop, Skip, Read, Encode, Refuse, WriteOwn, Parse, List, histories
<1> QED
  BY <1>1, <1>2

\* The last step of a migration leaves nothing in plain that has not escaped.
LEMMA MigrationDone ==
    ASSUME Types, Plains, NEW a \in Actors, Migrated(a), Skip(a) \/ WriteShared(a) \/ WriteOwn(a)
    PROVE  /\ \A f \in plain' : Explained(f)'
           /\ Doing(a, {"seal"})
<1>1. job[a] = "migration" /\ Tail(todo[a]) = <<>>
  BY DEF Migrated
<1>2. ~Doing(a, {"list"})
  BY DEF Skip, WriteShared, WriteOwn, Idle, Doing, Changes
<1>3. Doing(a, {"seal"}) /\ \A f \in plain : Explained(f) \/ f = Target(a)
  <2>1. PICK left : left = Tail(todo[a])
    OBVIOUS
  <2>2. Len(left) = 0
    <3>1. left = <<>>
      BY <1>1, <2>1
    <3> QED
      BY <3>1
  <2>3. \A i : i \notin 1 .. Len(left)
    BY <2>2
  <2> QED
    BY <1>1, <1>2, <2>1, <2>2, <2>3, CourseStep
<1> QED
  BY <1>1, <1>3, OwnSeal

LEMMA SecuredKept ==
    ASSUME Types, Plains, NEW a \in Actors, Work(a) \/ Stop(a), secured'
    PROVE  Encryption \in written'["settings"] /\ \A f \in plain' : Explained(f)'
<1>1. WriteShared(a) => ~(Doing(a, {"reset"}) /\ Name(a) = "settings")
  BY DEF WriteShared
<1>2. CASE secured
  <2>1. Encryption \in written["settings"] /\ \A f \in plain : Explained(f)
    BY <1>2 DEF Plains
  <2> QED
    BY <1>1, <1>2, <2>1, EncryptionKept, PlainSteps
<1>3. CASE ~secured
  <2>1. CASE Skip(a) \/ WriteShared(a) \/ WriteOwn(a)
    <3>1. Migrated(a)
      BY <1>3, <2>1 DEF Skip, WriteShared, WriteOwn
    <3>2. Encryption \in written["settings"]
      BY <3>1 DEF Migrated
    <3> QED
      BY <1>1, <2>1, <3>1, <3>2, EncryptionKept, MigrationDone
  <2>2. CASE List(a)
    <3>1. Candidates = <<>> /\ Encryption \in written["settings"]
      BY <1>3, <2>2 DEF List
    <3>2. plain' = {} /\ written' = written
      BY <2>2, <3>1, SealsListed DEF List, files, Types
    <3> QED
      BY <3>1, <3>2
  <2>3. CASE Read(a) \/ Encode(a) \/ Refuse(a) \/ Parse(a) \/ Stop(a)
    BY <1>3, <2>3 DEF Read, Encode, Refuse, Parse, Stop, histories
  <2> QED
    BY <2>1, <2>2, <2>3 DEF Work
<1> QED
  BY <1>2, <1>3

\* Jobs end, and nobody comes to work.
LEMMA MetKept ==
    ASSUME Plains, met' = met, \A b \in Actors : job'[b] = job[b] \/ job'[b] = "none"
    PROVE  Migrating' => \A b \in Actors : job'[b] # "none" => met'[b]
BY DEF Plains, Migrating

\* What becomes of the jobs when a step is done.
LEMMA JobsLeft ==
    ASSUME Types, NEW a \in Actors, Work(a) \/ Stop(a)
    PROVE  /\ met' = met
           /\ \A b \in Actors : job'[b] = job[b] \/ job'[b] = "none"
           /\ \A b \in Actors : b # a => todo'[b] = todo[b] /\ job'[b] = job[b]
           /\ todo[a] # <<>>
<1>1. CASE Read(a) \/ Encode(a)
  BY <1>1 DEF Read, Encode, histories, Doing
<1>2. CASE ~(Read(a) \/ Encode(a))
  <2>1. todo[a] # <<>> /\ met' = met
    BY <1>2 DEF Work, Stop, Skip, Refuse, WriteShared, WriteOwn, Parse, List, Doing, histories
  <2>2. Tail(todo[a]) \in Seq(Steps) /\ <<>> \in Seq(Steps) /\ Sealing \in Seq(Steps)
    BY <2>1, FirstStep, SealsListed
  <2>3. Finish(a, Tail(todo[a])) \/ Finish(a, <<>>) \/ Finish(a, Sealing)
    BY <1>2 DEF Work, Skip, Refuse, WriteShared, WriteOwn, Parse, List, Stop, Done, Sealing
  <2>4. PICK left \in Seq(Steps) : Finish(a, left)
    BY <2>2, <2>3
  <2> QED
    BY <2>1, <2>4, Finished
<1> QED
  BY <1>1, <1>2

LEMMA WorkPlains ==
    ASSUME Types, Types', Plains, NEW a \in Actors, Work(a) \/ Stop(a)
    PROVE  Plains'
<1>1. Migrating' => \A b \in Actors : job'[b] # "none" => met'[b]
  BY JobsLeft, MetKept
<1>2. ASSUME NEW b \in Actors, job'[b] = "migration"
      PROVE  Course(b)'
  <2>1. job[b] = "migration" /\ Migrating
    <3>1. job[b] = "migration"
      BY <1>2, JobsLeft
    <3> QED
      BY <3>1 DEF Migrating
  <2>2. \A f \in plain' : Explained(f)' \/ (f \in plain /\ ~Explained(f))
    BY <2>1, PlainSteps
  <2>3. CASE todo'[b] = todo[b]
    BY <2>1, <2>2, <2>3, CourseKept
  <2>4. CASE todo'[b] # todo[b]
    <3>1. b = a
      BY <2>4, JobsLeft
    <3>2. todo'[a] # <<>>
      BY <1>2, <3>1 DEF Types
    <3>3. CASE Skip(a) \/ WriteShared(a) \/ WriteOwn(a) \/ Parse(a)
      <4>1. todo'[a] = Tail(todo[a])
        BY <3>3 DEF Skip, WriteShared, WriteOwn, Parse, Done, Finish, Types
      <4> QED
        BY <2>1, <3>1, <3>2, <3>3, <4>1, CourseTaken
    <3>4. CASE List(a)
      <4>1. todo'[a] = Sealing
        BY <3>2, <3>4 DEF List, Finish, Sealing, Types
      <4>2. Seals(a)'
        BY <4>1, SealsListed DEF Seals
      <4>3. plain' \subseteq stored
        BY <3>4 DEF List, files, Types
      <4>4. \A f \in plain' : \E i \in 1 .. Len(todo'[a]) : todo'[a][i].file = f
        BY <4>1, <4>3, SealsListed
      <4> QED
        BY <3>1, <4>2, <4>4 DEF Course
    <3>5. CASE Read(a) \/ Encode(a)
      BY <2>4, <3>5 DEF Read, Encode
    <3>6. CASE Refuse(a) \/ Stop(a)
      BY <3>2, <3>6 DEF Refuse, Stop, Finish, Types
    <3> QED
      BY <3>3, <3>4, <3>5, <3>6 DEF Work
  <2> QED
    BY <2>3, <2>4
<1>3. secured' => Encryption \in written'["settings"] /\ \A f \in plain' : Explained(f)'
  BY SecuredKept
<1> QED
  BY <1>1, <1>2, <1>3 DEF Plains

LEMMA BeginPlains ==
    ASSUME Types, Plains, NEW a \in Actors, NEW kind, NEW steps, NEW tenant \in Tenants, Proper(kind, steps),
           Begin(a, kind, tenant, steps)
    PROVE  Plains'
<1>1. /\ job' = [job EXCEPT ![a] = kind] /\ todo' = [todo EXCEPT ![a] = steps] /\ job[a] = "none"
      /\ UNCHANGED <<plain, escaped, secured, written>>
      /\ met' = IF kind = "migration" THEN [b \in Actors |-> b = a \/ job[b] # "none"]
                ELSE [met EXCEPT ![a] = Migrating]
  BY DEF Begin, files
<1>2. /\ job'[a] = kind /\ todo'[a] = steps
      /\ \A b \in Actors : b # a => job'[b] = job[b] /\ todo'[b] = todo[b]
  BY <1>1 DEF Types
<1>3. Migrating' => \A b \in Actors : job'[b] # "none" => met'[b]
  <2> SUFFICES ASSUME Migrating', NEW b \in Actors, job'[b] # "none"
               PROVE  met'[b]
    OBVIOUS
  <2>1. CASE kind = "migration"
    BY <1>1, <1>2, <2>1
  <2>2. CASE kind # "migration"
    <3>1. Migrating
      BY <1>2, <2>2 DEF Migrating
    <3>2. met' = [met EXCEPT ![a] = Migrating]
      BY <1>1, <2>2
    <3>3. CASE b = a
      BY <3>1, <3>2, <3>3 DEF Types
    <3>4. CASE b # a
      BY <1>2, <3>1, <3>2, <3>4 DEF Plains, Types
    <3> QED
      BY <3>3, <3>4
  <2> QED
    BY <2>1, <2>2
<1>4. \A f : Explained(f)' = Explained(f)
  BY <1>1 DEF Explained
<1>5. ASSUME NEW b \in Actors, job'[b] = "migration"
      PROVE  Course(b)'
  <2>1. CASE b = a
    BY <1>2, <1>5, <2>1 DEF Proper, Course
  <2>2. CASE b # a
    <3>1. job[b] = "migration" /\ todo'[b] = todo[b]
      BY <1>2, <1>5, <2>2
    <3>2. \A f \in plain' : Explained(f)' \/ (f \in plain /\ ~Explained(f))
      BY <1>1, <1>4
    <3> QED
      BY <3>1, <3>2, CourseKept
  <2> QED
    BY <2>1, <2>2
<1>6. secured' => Encryption \in written'["settings"] /\ \A f \in plain' : Explained(f)'
  BY <1>1, <1>4 DEF Plains
<1> QED
  BY <1>3, <1>5, <1>6 DEF Plains

LEMMA RestartPlains ==
    ASSUME Types, Plains, Restart
    PROVE  Plains'
<1>1. UNCHANGED <<plain, escaped, secured, written, job, todo, met>>
  BY DEF Restart, files, working, histories
<1>2. \A f : Explained(f)' = Explained(f)
  BY <1>1 DEF Explained
<1>3. \A b \in Actors : job'[b] = "migration" => Course(b)'
  BY <1>1, <1>2, CourseKept
<1>4. Migrating' => \A b \in Actors : job'[b] # "none" => met'[b]
  BY <1>1 DEF Plains, Migrating
<1> QED
  BY <1>1, <1>2, <1>3, <1>4 DEF Plains

LEMMA InitPlains == Init => Plains
BY DEF Init, Plains, Migrating

-----------------------------------------------------------------------------
(* The invariant and what it says.                                         *)

LEMMA InitEstablishesWorkInv == Init => WorkInv
BY InitTypes, InitDocuments, InitContents, InitPlains DEF WorkInv

LEMMA NextKeepsTypes ==
    ASSUME WorkInv, Next
    PROVE  Types'
<1>1. Types /\ \A f \in Shared : Fits(content[f], f)
  BY DEF WorkInv, Contents, Good
<1>2. ASSUME NEW a \in Actors, Take(a)
      PROVE  Types'
  BY <1>1, <1>2, TakenJobsAreProper, BeginTypes
<1>3. ASSUME NEW a \in Actors, Work(a) \/ Stop(a)
      PROVE  Types'
  BY <1>1, <1>3, SkippedTypes, PausedTypes, BrokenOffTypes, WriteSharedTypes, WriteOwnTypes, ParseTypes, ListTypes
     DEF Work
<1> QED
  BY <1>1, <1>2, <1>3, RestartTypes DEF Next

LEMMA NextKeepsDocuments ==
    ASSUME WorkInv, Next
    PROVE  Documents'
<1>1. Types /\ Documents /\ \A f \in Shared : Fits(content[f], f)
  BY DEF WorkInv, Contents, Good
<1>2. ASSUME NEW a \in Actors, Take(a)
      PROVE  Documents'
  BY <1>1, <1>2, TakenJobsAreProper, BeginDocuments
<1>3. ASSUME NEW a \in Actors, Work(a) \/ Stop(a)
      PROVE  Documents'
  BY <1>1, <1>3, SkippedDocuments, PausedDocuments, BrokenOffDocuments, WriteSharedDocuments, WriteOwnDocuments,
     ParseDocuments, ListDocuments DEF Work
<1> QED
  BY <1>1, <1>2, <1>3, RestartDocuments DEF Next

LEMMA NextKeepsContents ==
    ASSUME WorkInv, Next
    PROVE  Contents'
<1>1. Types /\ Documents /\ Contents /\ Types' /\ Documents' /\ \A f \in Shared : Fits(content[f], f)
  BY NextKeepsTypes, NextKeepsDocuments DEF WorkInv, Contents, Good
<1>2. ASSUME NEW a \in Actors, Take(a)
      PROVE  Contents'
  BY <1>1, <1>2, TakenJobsAreProper, BeginContents
<1>3. ASSUME NEW a \in Actors, Work(a) \/ Stop(a)
      PROVE  Contents'
  BY <1>1, <1>3, OtherContents, PausedContents, WriteSharedContents DEF Work
<1> QED
  BY <1>1, <1>2, <1>3, RestartContents DEF Next

LEMMA NextKeepsPlains ==
    ASSUME WorkInv, Next
    PROVE  Plains'
<1>1. Types /\ Plains /\ Types' /\ \A f \in Shared : Fits(content[f], f)
  BY NextKeepsTypes DEF WorkInv, Contents, Good
<1>2. ASSUME NEW a \in Actors, Take(a)
      PROVE  Plains'
  BY <1>1, <1>2, TakenJobsAreProper, BeginPlains
<1>3. ASSUME NEW a \in Actors, Work(a) \/ Stop(a)
      PROVE  Plains'
  BY <1>1, <1>3, WorkPlains
<1> QED
  BY <1>1, <1>2, <1>3, RestartPlains DEF Next

LEMMA StutterKeepsWorkInv ==
    ASSUME WorkInv, UNCHANGED vars
    PROVE  WorkInv'
<1>1. UNCHANGED <<content, stored, plain, serving, jobs, owner, job, todo, phase, copy, sealing, order, stops,
                  written, raced, met, escaped, secured>>
  BY DEF vars, files, working, histories
<1>2. Types'
  BY <1>1 DEF WorkInv, Types
<1>3. Documents'
  BY <1>1 DEF WorkInv, Documents, Ordered, Apart, Supplied, Here, Unordered
<1>4. Contents'
  BY <1>1, ContentsAlike DEF WorkInv
<1>5. Plains'
  BY <1>1 DEF WorkInv, Plains, Migrating, Course, Seals, Explained
<1> QED
  BY <1>2, <1>3, <1>4, <1>5 DEF WorkInv

\* Every reachable state satisfies the invariant.
THEOREM WorkInvHolds == Spec => []WorkInv
<1>1. WorkInv /\ [Next]_vars => WorkInv'
  BY NextKeepsTypes, NextKeepsDocuments, NextKeepsContents, NextKeepsPlains, StutterKeepsWorkInv DEF WorkInv
<1> QED
  BY <1>1, InitEstablishesWorkInv, PTL DEF Spec

LEMMA WorkInvImpliesTypeOK == WorkInv => TypeOK
<1> SUFFICES ASSUME WorkInv PROVE TypeOK
  OBVIOUS
<1>1. Types /\ Documents /\ Contents
  BY DEF WorkInv
<1>2. \A f \in Shared : content[f] \subseteq Room(f)
  BY <1>1 DEF Contents, Good, Fits
<1>3. /\ content["settings"] \subseteq Settings
      /\ content["skills"] \subseteq {Entry("skill")}
      /\ content["secrets"] \subseteq Secrets
  BY <1>2 DEF Room, Shared
<1>4. /\ content["index"] \subseteq written["index"] /\ Whole(content["index"])
      /\ written["index"] \subseteq {"row", "raw"} \X ToSet(order)
  BY <1>1 DEF Contents, Good, Fits, Listing, Shared
<1>5. \A n \in ToSet(order) : n \in 1 .. jobs /\ <<"text", n>> \in stored
  BY <1>1 DEF Documents, Ordered
<1>6. content["index"] \subseteq {"row", "raw"} \X (1 .. jobs)
  BY <1>4, <1>5
<1>7. ASSUME NEW r \in content["index"]
      PROVE  <<IF r[1] = "row" THEN "text" ELSE "raw", r[2]>> \in stored /\ <<"row", r[2]>> \in content["index"]
  <2>1. PICK n \in ToSet(order) : r = <<"row", n>> \/ r = <<"raw", n>>
    BY <1>4
  <2>2. CASE r = <<"row", n>>
    BY <1>5, <2>2
  <2>3. CASE r = <<"raw", n>>
    BY <1>4, <2>3 DEF Whole
  <2> QED
    BY <2>1, <2>2, <2>3
<1>8. /\ plain \subseteq stored /\ serving \in {"local", "jwt"}
      /\ jobs \in 0 .. MaxJobs /\ Len(owner) = jobs
      /\ IsInjective(order) /\ stops \in 0 .. MaxStops /\ secured \in BOOLEAN
  BY <1>1 DEF Types, Documents, Ordered
<1>9. \A a \in Actors :
         /\ job[a] \in {"none", "web", "command", "migration"} /\ (job[a] = "none" <=> todo[a] = <<>>)
         /\ phase[a] \in {"ready", "read", "encoded"} /\ sealing[a] \in BOOLEAN /\ met[a] \in BOOLEAN
  BY <1>1 DEF Types
<1> QED
  BY <1>3, <1>6, <1>7, <1>8, <1>9 DEF TypeOK, Settings, Secrets

\* The files of a workspace hold what they may, and no row of the index speaks of a document or an
\* original that is not there, whatever requests, commands and a migration are under way, and
\* wherever they break off.
THEOREM WorkspaceTypesHold == Spec => []TypeOK
BY WorkInvHolds, WorkInvImpliesTypeOK, PTL

\* A section of the settings, a secret, a document or a queued task is lost, or comes back, only by
\* a change of the same file that was under way when it was stored or removed, or, a document, when
\* Limit newer ones have come.
THEOREM WritesStayStored == Spec => []WritesStay
<1>1. WorkInv => WritesStay
  <2> SUFFICES ASSUME WorkInv, NEW f \in Shared, NEW e \in (content[f] \ written[f]) \cup (written[f] \ content[f])
               PROVE  e \in raced[f] \/ (f = "index" /\ Cardinality(NewerIn(e[2], written["index"])) >= Limit)
    BY DEF WritesStay
  <2> QED
    BY DEF WorkInv, Contents, Good, Stays, Cut
<1> QED
  BY <1>1, WorkInvHolds, PTL

\* Once a migration has ended with the encryption set, whatever lies in plain was written by a job
\* that overlapped a migration, or while the settings had lost the encryption, or is what a parser left.
THEOREM PlainFilesAreExplained == Spec => []PlainIsExplained
<1>1. WorkInv => PlainIsExplained
  BY DEF WorkInv, Plains, PlainIsExplained, Explained
<1> QED
  BY <1>1, WorkInvHolds, PTL

-----------------------------------------------------------------------------
(* The task table: the calls of threads and processes.                     *)

\* The deployment without workers: every thread lives in the web process.
OneProcess == \A g, h \in Threads : ProcessOf[g] = ProcessOf[h]

\* No call of delete, the clean-up or recover_stale_running is made.
LockedOnly == \A o \in Ops : KindOf[o] \in Locking

\* The copy a thread works on is the stored table: nobody writes in between.
CopyIsCurrent == \A h \in Threads : op[h] # NoOp => snap[h] = table

\* A call under way has not returned before.
UnderWayOnce == \A h \in Threads : op[h] \notin done

StoreInv == StoreTypeOK /\ CopyIsCurrent /\ UnderWayOnce

-----------------------------------------------------------------------------
(* What a call makes of a table.                                           *)

\* A call turns a table into a table.
LEMMA EffectType ==
    ASSUME NEW o \in Ops, NEW T \in Table!Tables
    PROVE  Table!Effect(o, T) \in Table!Tables
<1>1. Table!Absent \in Table!Rows
  BY DEF Table!Absent, Table!Rows
<1>2. ASSUME NEW row \in Table!Rows, NEW s \in Table!Statuses
      PROVE  Table!Mark(row, o, s) \in Table!Rows
  BY <1>2 DEF Table!Mark, Table!Rows, Table!Absent
<1>3. ASSUME NEW i \in Ids
      PROVE  Table!Changed(o, T, i) \in Table!Rows
  <2>1. T[i] \in Table!Rows
    BY DEF Table!Tables
  <2>2. /\ StatusOf[o] \in Table!Statuses
        /\ {"pending", "running"} \subseteq Table!Statuses
    BY StoreAssumption DEF Table!Statuses
  <2> QED
    BY <1>1, <1>2, <2>1, <2>2, StoreAssumption
       DEF Table!Changed, Table!Added, Table!Updated, Table!Claimed,
           Table!Deleted, Table!CleanedUp, Table!Recovered, Table!Kinds
<1> QED
  BY <1>3 DEF Table!Effect, Table!Tables

\* A call that locks throughout removes no row.
LEMMA LockedKeeps ==
    ASSUME NEW o \in Ops, KindOf[o] \in Locking, NEW T \in Table!Tables
    PROVE  Table!Present(T) \subseteq Table!Present(Table!Effect(o, T))
<1> SUFFICES ASSUME NEW i \in Table!Present(T)
             PROVE  /\ i \in Ids
                    /\ Table!Effect(o, T)[i].status # "absent"
  BY DEF Table!Present
<1>1. i \in Ids /\ T[i].status # "absent"
  BY DEF Table!Present
<1>2. CASE i \notin IdsOf[o]
  BY <1>1, <1>2 DEF Table!Effect
<1>3. CASE i \in IdsOf[o]
  <2>1. Table!Effect(o, T)[i] = Table!Changed(o, T, i)
    BY <1>1, <1>3 DEF Table!Effect
  <2>2. StatusOf[o] # "absent"
    BY StoreAssumption DEF Table!Statuses
  <2> QED
    BY <1>1, <2>1, <2>2 DEF Table!Changed, Table!Added, Table!Updated,
           Table!Claimed, Table!Mark, Table!Present, Locking
<1> QED
  BY <1>2, <1>3

\* Writing a copy of the stored table in which no row is missing stores exactly
\* that copy: the tenants it does not mention have no rows.
LEMMA StoredExact ==
    ASSUME NEW T \in Table!Tables, table \in Table!Tables,
           Table!Present(table) \subseteq Table!Present(T)
    PROVE  Stored(T) = T
<1>1. CASE Backend = "file"
  BY <1>1 DEF Stored
<1>2. CASE Backend # "file"
  <2>1. ASSUME NEW i \in Ids, OwnerOf[i] \notin Owners(T)
        PROVE  T[i] = table[i]
    <3>1. T[i].status = "absent" /\ table[i].status = "absent"
      BY <2>1 DEF Table!Present, Owners
    <3>2. "absent" \notin Table!Statuses
      BY DEF Table!Statuses
    <3> QED
      BY <3>1, <3>2 DEF Table!Tables, Table!Rows
  <2>2. Stored(T) = [i \in Ids |-> T[i]]
    BY <1>2, <2>1 DEF Stored
  <2> QED
    BY <2>2 DEF Table!Tables
<1> QED
  BY <1>1, <1>2

\* The threads that have stored the table are threads.
LEMMA SinceType ==
    ASSUME StoreTypeOK, StoreNext
    PROVE  since' \in [Threads -> SUBSET Threads]
<1>1. ASSUME NEW h \in Threads, Save(h)
      PROVE  since' \in [Threads -> SUBSET Threads]
  <2>1. PICK quiet \in BOOLEAN :
          since' = [g \in Threads |-> IF g = h \/ op[g] = NoOp THEN {}
                                    ELSE IF quiet THEN since[g] ELSE since[g] \cup {h}]
    BY <1>1 DEF Save
  <2> QED
    BY <2>1 DEF StoreTypeOK
<1>2. ASSUME NEW p \in Processes, Crash(p)
      PROVE  since' \in [Threads -> SUBSET Threads]
  BY <1>2 DEF Crash, StoreTypeOK
<1> QED
  BY <1>1, <1>2 DEF StoreNext, Load, StoreTypeOK

-----------------------------------------------------------------------------
(* The invariant is inductive.                                             *)

LEMMA InitStoreInv == StoreInit => StoreInv
<1> SUFFICES ASSUME StoreInit
             PROVE  StoreInv
  OBVIOUS
<1>1. [i \in Ids |-> Table!Absent] \in Table!Tables
  BY DEF Table!Tables, Table!Rows
<1>2. LockHeld
  BY StoreAssumption DEF StoreInit, LockHeld
<1>3. StoreTypeOK
  BY <1>1, <1>2 DEF StoreInit, StoreTypeOK
<1> QED
  BY <1>3 DEF StoreInit, StoreInv, CopyIsCurrent, UnderWayOnce

\* Under the two assumptions a Save is a call of the abstract table.
LEMMA SaveIsCall ==
    ASSUME LockedOnly, StoreInv, NEW h \in Threads, Save(h)
    PROVE  /\ op[h] \in Ops
           /\ table' = Table!Effect(op[h], table)
           /\ table' \in Table!Tables
<1> DEFINE T == Table!Effect(op[h], table)
<1>1. op[h] \in Ops /\ KindOf[op[h]] \in Locking
  BY DEF Save, StoreInv, StoreTypeOK, LockedOnly
<1>2. snap[h] = table
  BY DEF Save, StoreInv, CopyIsCurrent
<1>3. table \in Table!Tables
  BY DEF StoreInv, StoreTypeOK
<1>4. T \in Table!Tables
  BY <1>1, <1>3, EffectType
<1>5. Stored(T) = T
  BY <1>1, <1>3, <1>4, LockedKeeps, StoredExact
<1>6. table' = IF T = table THEN table ELSE Stored(T)
  BY <1>2 DEF Save
<1> QED
  BY <1>1, <1>4, <1>5, <1>6

LEMMA ReadKeepsStoreInv ==
    ASSUME OneProcess, LockedOnly, StoreInv, NEW h \in Threads, NEW o \in Ops, Load(h, o)
    PROVE  StoreInv'
<1> USE DEF StoreInv
<1>1. KindOf[o] \in Locking /\ o # NoOp
  BY StoreAssumption DEF LockedOnly
<1>2. lock' = [lock EXCEPT ![ProcessOf[h]] = h] /\ ProcessOf[h] \in Processes
  BY <1>1 DEF Load, Processes
<1>3. \A g \in Threads : op[g] = NoOp
  <2> SUFFICES ASSUME NEW g \in Threads, op[g] # NoOp
               PROVE  FALSE
    OBVIOUS
  <2>1. lock[ProcessOf[g]] = g
    BY DEF StoreTypeOK, LockHeld, LockedOnly
  <2> QED
    BY <2>1, StoreAssumption DEF OneProcess, Load
<1>4. op' = [g \in Threads |-> IF g = h THEN o ELSE NoOp]
  BY <1>3 DEF Load, StoreTypeOK
<1>5. snap' = [snap EXCEPT ![h] = table] /\ UNCHANGED <<table, done>>
  BY DEF Load
<1>6. LockHeld'
  BY <1>2, <1>4, StoreAssumption DEF LockHeld, StoreTypeOK
<1>7. StoreTypeOK'
  <2>1. since' \in [Threads -> SUBSET Threads]
    BY SinceType DEF StoreNext
  <2> QED
    BY <1>2, <1>4, <1>5, <1>6, <2>1 DEF StoreTypeOK
<1>8. CopyIsCurrent'
  BY <1>4, <1>5 DEF CopyIsCurrent, StoreTypeOK
<1>9. UnderWayOnce'
  <2>1. o \notin done /\ NoOp \notin done
    BY StoreAssumption DEF Load, StoreTypeOK
  <2> QED
    BY <1>4, <1>5, <2>1 DEF UnderWayOnce
<1> QED
  BY <1>7, <1>8, <1>9

LEMMA SaveKeepsStoreInv ==
    ASSUME OneProcess, LockedOnly, StoreInv, NEW h \in Threads, Save(h)
    PROVE  StoreInv'
<1> USE DEF StoreInv
<1>1. op[h] \in Ops /\ table' \in Table!Tables
  BY SaveIsCall
<1>2. \A g \in Threads \ {h} : op[g] = NoOp
  <2> SUFFICES ASSUME NEW g \in Threads \ {h}, op[g] # NoOp
               PROVE  FALSE
    OBVIOUS
  <2>1. lock[ProcessOf[g]] = g /\ lock[ProcessOf[h]] = h
    BY <1>1 DEF StoreTypeOK, LockHeld, LockedOnly
  <2> QED
    BY <2>1 DEF OneProcess
<1>3. op' = [g \in Threads |-> NoOp]
  BY <1>2 DEF Save, StoreTypeOK
<1>4. lock' \in [Processes -> Threads \cup {NoThread}]
  BY DEF Save, StoreTypeOK
<1>5. done' \subseteq Ops /\ snap' = snap
  BY <1>1 DEF Save, StoreTypeOK
<1>6. LockHeld'
  BY <1>3, StoreAssumption DEF LockHeld
<1>7. StoreTypeOK'
  <2>1. since' \in [Threads -> SUBSET Threads]
    BY SinceType DEF StoreNext
  <2> QED
    BY <1>1, <1>3, <1>4, <1>5, <1>6, <2>1 DEF StoreTypeOK
<1>8. CopyIsCurrent'
  BY <1>3 DEF CopyIsCurrent
<1>9. UnderWayOnce'
  BY <1>3, <1>7, StoreAssumption DEF UnderWayOnce, StoreTypeOK
<1> QED
  BY <1>7, <1>8, <1>9

LEMMA CrashKeepsStoreInv ==
    ASSUME StoreInv, NEW p \in Processes, Crash(p)
    PROVE  StoreInv'
<1> USE DEF StoreInv
<1>1. op' = [g \in Threads |-> IF ProcessOf[g] = p THEN NoOp ELSE op[g]]
  BY DEF Crash
<1>2. lock' = [lock EXCEPT ![p] = NoThread] /\ UNCHANGED <<table, done, snap>>
  BY DEF Crash
<1>3. LockHeld'
  BY <1>1, <1>2, StoreAssumption DEF LockHeld, StoreTypeOK, Processes
<1>4. StoreTypeOK'
  <2>1. since' \in [Threads -> SUBSET Threads]
    BY SinceType DEF StoreNext
  <2> QED
    BY <1>1, <1>2, <1>3, <2>1 DEF StoreTypeOK
<1>5. CopyIsCurrent'
  BY <1>1, <1>2 DEF CopyIsCurrent
<1>6. UnderWayOnce'
  BY <1>1, <1>2, StoreAssumption DEF UnderWayOnce, StoreTypeOK
<1> QED
  BY <1>4, <1>5, <1>6

LEMMA NextKeepsStoreInv ==
    ASSUME OneProcess, LockedOnly, StoreInv, [StoreNext]_storeVars
    PROVE  StoreInv'
<1>1. ASSUME NEW h \in Threads, NEW o \in Ops, Load(h, o)
      PROVE  StoreInv'
  BY <1>1, ReadKeepsStoreInv
<1>2. ASSUME NEW h \in Threads, Save(h)
      PROVE  StoreInv'
  BY <1>2, SaveKeepsStoreInv
<1>3. ASSUME NEW p \in Processes, Crash(p)
      PROVE  StoreInv'
  BY <1>3, CrashKeepsStoreInv
<1>4. CASE UNCHANGED storeVars
  BY <1>4 DEF storeVars, StoreInv, StoreTypeOK, LockHeld, CopyIsCurrent, UnderWayOnce
<1> QED
  BY <1>1, <1>2, <1>3, <1>4 DEF StoreNext

LEMMA Invariance ==
    ASSUME OneProcess, LockedOnly
    PROVE  StoreSpec => []StoreInv
<1>1. StoreInv /\ [StoreNext]_storeVars => StoreInv'
  BY NextKeepsStoreInv
<1> QED
  BY <1>1, InitStoreInv, PTL DEF StoreSpec

-----------------------------------------------------------------------------
(* The theorems.                                                           *)

\* A step of the store is a call of the abstract table, or it changes neither
\* the rows nor the calls that have returned.
LEMMA StepIsCallOrStutter ==
    ASSUME LockedOnly, StoreInv, [StoreNext]_storeVars
    PROVE  [Table!Next]_<<table, done>>
<1>1. ASSUME NEW h \in Threads, NEW o \in Ops, Load(h, o)
      PROVE  UNCHANGED <<table, done>>
  BY <1>1 DEF Load
<1>2. ASSUME NEW h \in Threads, Save(h)
      PROVE  Table!Call(op[h]) /\ op[h] \in Ops
  BY <1>2, SaveIsCall DEF Save, Table!Call, StoreInv, UnderWayOnce
<1>3. ASSUME NEW p \in Processes, Crash(p)
      PROVE  UNCHANGED <<table, done>>
  BY <1>3 DEF Crash
<1> QED
  BY <1>1, <1>2, <1>3 DEF StoreNext, storeVars, Table!Next

\* Every call takes effect at once and as a whole, in the file and in
\* PostgreSQL, for any tasks, calls, threads and crashes of the one process.
THEOREM LockedCallsAreAtomic ==
    ASSUME OneProcess, LockedOnly
    PROVE  StoreSpec => ImplementsTable
<1>1. StoreInit => Table!Init
  BY DEF StoreInit, Table!Init
<1>2. StoreInv /\ [StoreNext]_storeVars => [Table!Next]_<<table, done>>
  BY StepIsCallOrStutter
<1> QED
  BY <1>1, <1>2, Invariance, PTL DEF StoreSpec, ImplementsTable, Table!Spec

\* Whatever the processes, the backend and the calls: the state keeps its type,
\* and a call that locks throughout holds the lock of its process until it saves.
THEOREM StoreTypeCorrect == StoreSpec => []StoreTypeOK
<1>1. ASSUME StoreTypeOK, NEW h \in Threads, NEW o \in Ops, Load(h, o)
      PROVE  StoreTypeOK'
  <2>1. snap' \in [Threads -> Table!Tables] /\ op' \in [Threads -> Ops \cup {NoOp}]
    BY <1>1 DEF Load, StoreTypeOK
  <2>2. lock' \in [Processes -> Threads \cup {NoThread}]
    BY <1>1 DEF Load, StoreTypeOK
  <2>3. LockHeld'
    <3> SUFFICES ASSUME NEW g \in Threads, op'[g] \in Ops, KindOf[op'[g]] \in Locking
                 PROVE  lock'[ProcessOf[g]] = g
      BY DEF LockHeld
    <3>1. CASE g = h
      BY <1>1, <3>1 DEF Load, StoreTypeOK, Processes
    <3>2. CASE g # h
      <4>1. op'[g] = op[g]
        BY <1>1, <3>2 DEF Load, StoreTypeOK
      <4>2. lock[ProcessOf[g]] = g /\ lock[ProcessOf[h]] = NoThread
        BY <1>1, <4>1 DEF Load, StoreTypeOK, LockHeld
      <4> QED
        BY <1>1, <4>2, StoreAssumption DEF Load, StoreTypeOK
    <3> QED
      BY <3>1, <3>2
  <2> QED
    BY <1>1, <2>1, <2>2, <2>3 DEF Load, StoreTypeOK
<1>2. ASSUME StoreTypeOK, NEW h \in Threads, Save(h)
      PROVE  StoreTypeOK'
  <2>1. op[h] \in Ops /\ op' \in [Threads -> Ops \cup {NoOp}] /\ snap' = snap
    BY <1>2 DEF Save, StoreTypeOK
  <2>2. table' \in Table!Tables
    <3> DEFINE T == Table!Effect(op[h], snap[h])
    <3>1. T \in Table!Tables
      BY <1>2, <2>1, EffectType DEF StoreTypeOK
    <3>2. Stored(T) \in Table!Tables
      BY <1>2, <3>1 DEF Stored, StoreTypeOK, Table!Tables
    <3>3. table' = IF T = snap[h] THEN table ELSE Stored(T)
      BY <1>2 DEF Save
    <3> QED
      BY <1>2, <3>2, <3>3 DEF StoreTypeOK
  <2>3. lock' = [lock EXCEPT ![ProcessOf[h]] = NoThread]
    BY <1>2 DEF Save
  <2>4. since' \in [Threads -> SUBSET Threads]
    BY <1>2, SinceType DEF StoreNext
  <2>5. LockHeld'
    <3> SUFFICES ASSUME NEW g \in Threads, op'[g] \in Ops, KindOf[op'[g]] \in Locking
                 PROVE  lock'[ProcessOf[g]] = g
      BY DEF LockHeld
    <3>1. g # h /\ op'[g] = op[g]
      BY <1>2, StoreAssumption DEF Save, StoreTypeOK
    <3>2. lock[ProcessOf[g]] = g /\ lock[ProcessOf[h]] \in {h, NoThread}
      BY <1>2, <3>1 DEF Save, StoreTypeOK, LockHeld
    <3> QED
      BY <1>2, <2>3, <3>1, <3>2, StoreAssumption DEF StoreTypeOK
  <2> QED
    BY <1>2, <2>1, <2>2, <2>3, <2>4, <2>5 DEF Save, StoreTypeOK
<1>3. ASSUME StoreTypeOK, NEW p \in Processes, Crash(p)
      PROVE  StoreTypeOK'
  <2>1. op' = [g \in Threads |-> IF ProcessOf[g] = p THEN NoOp ELSE op[g]]
    BY <1>3 DEF Crash
  <2>2. lock' = [lock EXCEPT ![p] = NoThread] /\ UNCHANGED <<table, done, snap>>
    BY <1>3 DEF Crash
  <2>3. LockHeld'
    BY <1>3, <2>1, <2>2, StoreAssumption DEF LockHeld, StoreTypeOK, Processes
  <2>4. since' \in [Threads -> SUBSET Threads]
    BY <1>3, SinceType DEF StoreNext
  <2> QED
    BY <1>3, <2>1, <2>2, <2>3, <2>4 DEF StoreTypeOK
<1>4. ASSUME StoreTypeOK, UNCHANGED storeVars
      PROVE  StoreTypeOK'
  BY <1>4 DEF storeVars, StoreTypeOK, LockHeld
<1>5. StoreTypeOK /\ [StoreNext]_storeVars => StoreTypeOK'
  BY <1>1, <1>2, <1>3, <1>4 DEF StoreNext
<1>6. StoreInit => StoreTypeOK
  BY InitStoreInv DEF StoreInv
<1> QED
  BY <1>5, <1>6, PTL DEF StoreSpec

-----------------------------------------------------------------------------
(* A removed row does not come back, as long as one call removes.          *)

\* Of the calls that do not lock throughout one is made.
OneRemover == \A o, q \in Ops : KindOf[o] \notin Locking /\ KindOf[q] \notin Locking => o = q

\* A call that locks throughout works on the stored table; the copy of the other has no row more.
CopiesAreBounded ==
    /\ \A g, h \in Threads : op[g] # NoOp /\ op[g] = op[h] => g = h
    /\ \A h \in Threads : op[h] # NoOp => op[h] \notin done
    /\ \A h \in Threads : op[h] # NoOp =>
          IF KindOf[op[h]] \in Locking THEN snap[h] = table
          ELSE Table!Present(snap[h]) \subseteq Table!Present(table)

\* What a call adds to the rows of a table: the row of an add.
LEMMA EffectAdds ==
    ASSUME NEW o \in Ops, NEW T \in Table!Tables, NEW i \in Table!Present(Table!Effect(o, T)),
           i \notin Table!Present(T)
    PROVE  KindOf[o] = "add" /\ i \in IdsOf[o]
<1>1. i \in Ids /\ Table!Effect(o, T)[i].status # "absent" /\ T[i].status = "absent"
  BY DEF Table!Present
<1>2. i \in IdsOf[o]
  BY <1>1 DEF Table!Effect
<1>3. Table!Effect(o, T)[i] = Table!Changed(o, T, i)
  BY <1>1, <1>2 DEF Table!Effect
<1>4. KindOf[o] \in Table!Kinds
  BY StoreAssumption
<1> QED
  BY <1>1, <1>2, <1>3, <1>4
     DEF Table!Kinds, Table!Changed, Table!Updated, Table!Claimed, Table!Deleted,
         Table!CleanedUp, Table!Recovered, Table!Absent, Table!Present

\* The rows that are stored were in the table that is written, or were stored before.
LEMMA StoredRows ==
    ASSUME NEW T \in Table!Tables, NEW i \in Table!Present(Stored(T))
    PROVE  i \in Table!Present(T) \/ i \in Table!Present(table)
  BY DEF Stored, Table!Present, Table!Tables

LEMMA SaveRows ==
    ASSUME StoreTypeOK, CopiesAreBounded, NEW h \in Threads, Save(h)
    PROVE  /\ op[h] \in Ops
           /\ \A i \in Table!Present(table') :
                 i \in Table!Present(table) \/ (KindOf[op[h]] = "add" /\ i \in IdsOf[op[h]])
           /\ KindOf[op[h]] \in Locking => Table!Present(table) \subseteq Table!Present(table')
<1>1. op[h] \in Ops /\ snap[h] \in Table!Tables
  BY DEF StoreTypeOK, Save
<1>2. PICK T : T = Table!Effect(op[h], snap[h]) /\ T \in Table!Tables
  BY <1>1, EffectType
<1>3. table' = table \/ table' = Stored(T)
  BY <1>2 DEF Save
<1>4. Table!Present(snap[h]) \subseteq Table!Present(table)
  BY <1>1, StoreAssumption DEF CopiesAreBounded, Save
<1>5. ASSUME NEW i \in Table!Present(table')
      PROVE  i \in Table!Present(table) \/ (KindOf[op[h]] = "add" /\ i \in IdsOf[op[h]])
  <2>1. i \in Table!Present(table) \/ i \in Table!Present(T)
    BY <1>2, <1>3, <1>5, StoredRows
  <2>2. i \in Table!Present(T) => i \in Table!Present(snap[h]) \/ (KindOf[op[h]] = "add" /\ i \in IdsOf[op[h]])
    BY <1>1, <1>2, EffectAdds
  <2> QED
    BY <1>4, <2>1, <2>2
<1>6. ASSUME KindOf[op[h]] \in Locking
      PROVE  Table!Present(table) \subseteq Table!Present(table')
  <2>1. snap[h] = table
    BY <1>1, <1>6, StoreAssumption DEF CopiesAreBounded, Save
  <2>2. Table!Present(table) \subseteq Table!Present(T)
    BY <1>1, <1>2, <1>6, <2>1, LockedKeeps
  <2>3. table \in Table!Tables
    BY DEF StoreTypeOK
  <2>4. Stored(T) = T
    BY <1>2, <2>2, <2>3, StoredExact
  <2> QED
    BY <1>3, <2>2, <2>4
<1> QED
  BY <1>1, <1>5, <1>6

LEMMA CopiesStayBounded ==
    ASSUME OneProcess, OneRemover, StoreTypeOK, CopiesAreBounded, [StoreNext]_storeVars
    PROVE  CopiesAreBounded'
<1>1. ASSUME NEW h \in Threads, NEW o \in Ops, Load(h, o)
      PROVE  CopiesAreBounded'
  <2>1. /\ op' = [op EXCEPT ![h] = o] /\ snap' = [snap EXCEPT ![h] = table] /\ UNCHANGED <<table, done>>
        /\ o \notin done /\ \A g \in Threads : op[g] # o
    BY <1>1 DEF Load
  <2>2. /\ op'[h] = o /\ snap'[h] = table
        /\ \A g \in Threads : g # h => op'[g] = op[g] /\ snap'[g] = snap[g]
    BY <2>1 DEF StoreTypeOK
  <2> QED
    BY <2>1, <2>2 DEF CopiesAreBounded, Locking, Table!Present
<1>2. ASSUME NEW h \in Threads, Save(h)
      PROVE  CopiesAreBounded'
  <2>1. op' = [op EXCEPT ![h] = NoOp] /\ snap' = snap /\ lock[ProcessOf[h]] \in {h, NoThread}
    BY <1>2 DEF Save
  <2>2. op'[h] = NoOp /\ \A g \in Threads : g # h => op'[g] = op[g]
    BY <2>1 DEF StoreTypeOK
  <2>3. ASSUME NEW g \in Threads, g # h, op[g] # NoOp
        PROVE  IF KindOf[op[g]] \in Locking THEN snap[g] = table'
               ELSE Table!Present(snap[g]) \subseteq Table!Present(table')
    <3>1. op[g] \in Ops /\ op[h] \in Ops /\ op[g] # op[h]
      BY <1>2, <2>3 DEF StoreTypeOK, CopiesAreBounded, Save
    <3>2. KindOf[op[g]] \notin Locking
      <4> SUFFICES ASSUME KindOf[op[g]] \in Locking PROVE FALSE
        OBVIOUS
      <4>1. lock[ProcessOf[g]] = g
        BY <3>1 DEF StoreTypeOK, LockHeld
      <4> QED
        BY <2>1, <2>3, <4>1, StoreAssumption DEF OneProcess
    <3>3. KindOf[op[h]] \in Locking
      BY <3>1, <3>2 DEF OneRemover
    <3>4. Table!Present(snap[g]) \subseteq Table!Present(table)
      BY <2>3, <3>2 DEF CopiesAreBounded
    <3> QED
      BY <1>2, <3>2, <3>3, <3>4, SaveRows
  <2>4. done' = done \cup {op[h]} /\ \A g \in Threads : op'[g] # NoOp => op'[g] \notin done'
    BY <1>2, <2>1, <2>2 DEF Save, CopiesAreBounded
  <2> QED
    BY <2>1, <2>2, <2>3, <2>4 DEF CopiesAreBounded, Table!Present, Locking
<1>3. ASSUME NEW p \in Processes, Crash(p)
      PROVE  CopiesAreBounded'
  <2>1. op' = [h \in Threads |-> IF ProcessOf[h] = p THEN NoOp ELSE op[h]] /\ UNCHANGED <<table, done, snap>>
    BY <1>3 DEF Crash
  <2> QED
    BY <2>1 DEF CopiesAreBounded, Table!Present, Locking
<1>4. CASE UNCHANGED storeVars
  BY <1>4 DEF storeVars, CopiesAreBounded, Table!Present, Locking
<1> QED
  BY <1>1, <1>2, <1>3, <1>4 DEF StoreNext

\* In one process, as long as one call is made of those that do not lock throughout (a delete, a
\* clean-up or a recovery), every row that comes into the table is that of an add: no write of an
\* older copy brings a removed task back, in the file and in PostgreSQL, whatever crashes there are.
THEOREM RemovedStaysRemoved ==
    ASSUME OneProcess, OneRemover
    PROVE  StoreSpec => NoResurrection
<1> DEFINE AddsOnly == \A i \in Table!Present(table)' \ Table!Present(table) :
                      \E o \in Ops : Returns(o) /\ KindOf[o] = "add" /\ i \in IdsOf[o]
<1>1. StoreInit => CopiesAreBounded
  BY DEF StoreInit, CopiesAreBounded
<1>2. StoreTypeOK /\ CopiesAreBounded /\ [StoreNext]_storeVars => CopiesAreBounded'
  BY CopiesStayBounded
<1>3. ASSUME StoreTypeOK, CopiesAreBounded, [StoreNext]_storeVars
      PROVE  [AddsOnly]_storeVars
  <2>1. CASE \E h \in Threads : Save(h)
    <3>1. PICK h \in Threads : Save(h)
      BY <2>1
    <3> SUFFICES ASSUME NEW i \in Table!Present(table)' \ Table!Present(table)
                 PROVE  \E o \in Ops : Returns(o) /\ KindOf[o] = "add" /\ i \in IdsOf[o]
      OBVIOUS
    <3>2. op[h] \in Ops /\ KindOf[op[h]] = "add" /\ i \in IdsOf[op[h]]
      BY <1>3, <3>1, SaveRows DEF Table!Present
    <3>3. Returns(op[h])
      BY <1>3, <3>1 DEF Save, Returns, CopiesAreBounded
    <3> QED
      BY <3>2, <3>3
  <2>2. CASE ~\E h \in Threads : Save(h)
    <3>1. table' = table
      BY <1>3, <2>2 DEF StoreNext, storeVars, Load, Crash
    <3> QED
      BY <3>1 DEF Table!Present
  <2> QED
    BY <2>1, <2>2
<1> QED
  BY <1>1, <1>2, <1>3, StoreTypeCorrect, PTL DEF StoreSpec, NoResurrection

-----------------------------------------------------------------------------
(* Rows are lost to an older copy only, written by a call that was         *)
(* overtaken.                                                              *)

\* A call that nobody has overtaken works on the stored table, and a call that locks throughout
\* is overtaken by no thread of its own process.
Overtakers ==
    /\ \A g, h \in Threads : op[g] # NoOp /\ op[g] = op[h] => g = h
    /\ \A h \in Threads : op[h] = NoOp => since[h] = {}
    /\ \A h \in Threads : op[h] # NoOp /\ since[h] = {} => snap[h] = table
    /\ \A h \in Threads : op[h] # NoOp /\ KindOf[op[h]] \in Locking =>
          \A g \in since[h] : ProcessOf[g] # ProcessOf[h]

LEMMA LoadKeepsOvertakers ==
    ASSUME StoreTypeOK, Overtakers, NEW h \in Threads, NEW o \in Ops, Load(h, o)
    PROVE  Overtakers'
<1>1. /\ op' = [op EXCEPT ![h] = o] /\ snap' = [snap EXCEPT ![h] = table] /\ UNCHANGED <<table, since>>
      /\ op[h] = NoOp /\ \A g \in Threads : op[g] # o
  BY DEF Load
<1>2. op'[h] = o /\ snap'[h] = table /\ since[h] = {} /\ o # NoOp
  BY <1>1, StoreAssumption DEF StoreTypeOK, Overtakers
<1>3. \A g \in Threads : g # h => op'[g] = op[g] /\ snap'[g] = snap[g]
  BY <1>1 DEF StoreTypeOK
<1> QED
  BY <1>1, <1>2, <1>3 DEF Overtakers

LEMMA SaveKeepsOvertakers ==
    ASSUME StoreTypeOK, Overtakers, NEW h \in Threads, Save(h)
    PROVE  Overtakers'
<1>1. /\ op' = [op EXCEPT ![h] = NoOp] /\ snap' = snap /\ op[h] \in Ops
      /\ lock[ProcessOf[h]] \in {h, NoThread}
  BY DEF Save, StoreTypeOK
<1>2. PICK quiet \in BOOLEAN :
        /\ since' = [g \in Threads |-> IF g = h \/ op[g] = NoOp THEN {}
                                      ELSE IF quiet THEN since[g] ELSE since[g] \cup {h}]
        /\ quiet => table' = table
  BY DEF Save
<1>3. op'[h] = NoOp /\ \A g \in Threads : g # h => op'[g] = op[g]
  BY <1>1 DEF StoreTypeOK
<1>4. ASSUME NEW g \in Threads, g # h, op[g] # NoOp
      PROVE  /\ since'[g] = {} => snap[g] = table'
             /\ KindOf[op[g]] \in Locking => \A k \in since'[g] : ProcessOf[k] # ProcessOf[g]
  <2>1. since'[g] = IF quiet THEN since[g] ELSE since[g] \cup {h}
    BY <1>2, <1>4
  <2>2. KindOf[op[g]] \in Locking => ProcessOf[h] # ProcessOf[g]
    <3>1. op[g] \in Ops
      BY <1>4 DEF StoreTypeOK
    <3> QED
      BY <1>1, <1>4, <3>1, StoreAssumption DEF StoreTypeOK, LockHeld
  <2> QED
    BY <1>2, <1>4, <2>1, <2>2 DEF Overtakers
<1>5. since'[h] = {} /\ \A g \in Threads : op[g] = NoOp => since'[g] = {}
  BY <1>2
<1> QED
  BY <1>1, <1>3, <1>4, <1>5 DEF Overtakers

LEMMA CrashKeepsOvertakers ==
    ASSUME StoreTypeOK, Overtakers, NEW p \in Processes, Crash(p)
    PROVE  Overtakers'
<1>1. /\ op' = [h \in Threads |-> IF ProcessOf[h] = p THEN NoOp ELSE op[h]]
      /\ since' = [h \in Threads |-> IF ProcessOf[h] = p THEN {} ELSE since[h]]
      /\ UNCHANGED <<table, snap>>
  BY DEF Crash
<1> QED
  BY <1>1 DEF Overtakers

\* What is stored of a row: what the call makes of its copy, or, where the copy is not written or
\* has no row of the tenant, the row that was there.
LEMMA SavedRow ==
    ASSUME NEW h \in Threads, Save(h), NEW i \in Ids
    PROVE  \/ Within(h, i)
           \/ table'[i] = table[i]
  BY DEF Save, Stored, Within

\* A call that works on the stored table does to a row what it means to do, unless it removes in
\* PostgreSQL.
LEMMA SavedAsMeant ==
    ASSUME StoreTypeOK, NEW h \in Threads, Save(h), snap[h] = table, NEW i \in Ids
    PROVE  \/ table'[i] = Table!Effect(op[h], table)[i]
           \/ /\ Backend = "postgres" /\ KindOf[op[h]] \in {"delete", "cleanup"}
              /\ table'[i] = table[i]
<1>1. op[h] \in Ops /\ table \in Table!Tables
  BY DEF Save, StoreTypeOK
<1>2. PICK T : T = Table!Effect(op[h], table) /\ T \in Table!Tables
  BY <1>1, EffectType
<1>3. table' = IF T = table THEN table ELSE Stored(T)
  BY <1>2 DEF Save
<1>4. CASE T = table \/ Backend = "file" \/ OwnerOf[i] \in Owners(T)
  <2>1. table'[i] = T[i]
    BY <1>3, <1>4 DEF Stored
  <2> QED
    BY <1>2, <2>1
<1>5. CASE T # table /\ Backend # "file" /\ OwnerOf[i] \notin Owners(T)
  <2>1. table'[i] = table[i] /\ i \notin Table!Present(T) /\ Backend = "postgres"
    BY <1>3, <1>5, StoreAssumption DEF Stored, Owners
  <2>2. CASE i \in Table!Present(table)
    <3>1. T[i] # table[i] /\ T[i] = Table!Changed(op[h], table, i)
      BY <1>2, <2>1, <2>2 DEF Table!Present, Table!Effect
    <3>2. T[i].status = "absent" /\ table[i].status # "absent"
      BY <2>1, <2>2 DEF Table!Present
    <3>3. StatusOf[op[h]] # "absent" /\ KindOf[op[h]] \in Table!Kinds
      BY <1>1, StoreAssumption DEF Table!Statuses
    <3>4. KindOf[op[h]] \in {"delete", "cleanup"}
      BY <2>2, <3>1, <3>2, <3>3 DEF Table!Kinds, Table!Changed, Table!Added, Table!Updated,
         Table!Claimed, Table!Recovered, Table!Mark
    <3> QED
      BY <2>1, <3>4
  <2>3. CASE i \notin Table!Present(table)
    <3>1. T[i].status = "absent" /\ table[i].status = "absent"
      BY <2>1, <2>3 DEF Table!Present
    <3>2. "absent" \notin Table!Statuses
      BY DEF Table!Statuses
    <3>3. T[i] = table[i]
      BY <1>1, <1>2, <3>1, <3>2 DEF Table!Tables, Table!Rows
    <3> QED
      BY <1>2, <2>1, <3>3
  <2> QED
    BY <2>2, <2>3
<1> QED
  BY <1>4, <1>5

\* In any deployment, with any calls in any number of threads and processes and either backend: a
\* task is lost or changed by a call about another, or an update undone, only by the older copy of a
\* call that was overtaken, which among the threads of one process is a delete, a clean-up or a
\* recovery; and in PostgreSQL such a copy touches no tenant it has no row of.
THEOREM LossNeedsAnOvertakenCall == StoreSpec => LossIsOvertaken
<1> DEFINE Lossless == \A h \in Threads : Returns(op[h]) => \A i \in Ids :
                         \/ table'[i] = Table!Effect(op[h], table)[i]
                         \/ Overtaken(h) /\ (Within(h, i) \/ table'[i] = table[i])
                         \/ /\ Backend = "postgres" /\ KindOf[op[h]] \in {"delete", "cleanup"}
                            /\ table'[i] = table[i]
<1>1. StoreInit => Overtakers
  BY DEF StoreInit, Overtakers
<1>2. ASSUME StoreTypeOK, Overtakers, [StoreNext]_storeVars
      PROVE  Overtakers'
  <2>1. CASE UNCHANGED storeVars
    BY <1>2, <2>1 DEF storeVars, Overtakers
  <2> QED
    BY <1>2, <2>1, LoadKeepsOvertakers, SaveKeepsOvertakers, CrashKeepsOvertakers DEF StoreNext
<1>3. ASSUME StoreTypeOK, Overtakers, [StoreNext]_storeVars
      PROVE  [Lossless]_storeVars
  <2> SUFFICES ASSUME NEW h \in Threads, Returns(op[h]), NEW i \in Ids
               PROVE  \/ table'[i] = Table!Effect(op[h], table)[i]
                      \/ Overtaken(h) /\ (Within(h, i) \/ table'[i] = table[i])
                      \/ /\ Backend = "postgres" /\ KindOf[op[h]] \in {"delete", "cleanup"}
                         /\ table'[i] = table[i]
    OBVIOUS
  <2>1. PICK k \in Threads : Save(k)
    BY <1>3 DEF StoreNext, storeVars, Load, Crash, Returns
  <2>2. Save(h) /\ op[h] # NoOp
    <3>1. op[h] = op[k] /\ op[k] # NoOp
      BY <2>1 DEF Save, Returns
    <3>2. h = k
      BY <1>3, <3>1 DEF Overtakers
    <3> QED
      BY <2>1, <3>1, <3>2
  <2>3. CASE Overtaken(h)
    BY <2>2, <2>3, SavedRow
  <2>4. CASE ~Overtaken(h)
    <3>1. since[h] = {}
      BY <1>3, <2>2, <2>4 DEF Overtaken, Overtakers
    <3>2. snap[h] = table
      BY <1>3, <2>2, <3>1 DEF Overtakers
    <3> QED
      BY <1>3, <2>2, <3>2, SavedAsMeant
  <2> QED
    BY <2>3, <2>4
<1> QED
  BY <1>1, <1>2, <1>3, StoreTypeCorrect, PTL DEF StoreSpec, LossIsOvertaken

=============================================================================
