-------------------------- MODULE FeishuBridgeProofs --------------------------
(***************************************************************************)
(* Proofs about FeishuBridge: what makes a second review of a message      *)
(* possible, and what leaves one without an answer, for any number of      *)
(* instances, handlers, messages and deliveries and any cap of the file.   *)
(***************************************************************************)
EXTENDS FeishuBridge, FiniteSetTheorems, SequenceTheorems, WellFoundedInduction, TLAPS

-----------------------------------------------------------------------------
(* The file of marks.  What the function in Without returns is proved by   *)
(* the least number for which it would not hold.                           *)

LEMMA LeastNumber ==
    ASSUME NEW T \in SUBSET Nat, T # {}
    PROVE  \E i \in T : \A j \in T : ~(j < i)
<1>1. PICK i \in T : \A j \in T : ~(<<j, i>> \in OpToRel(<, Nat))
  BY NatLessThanWellFounded, WFMin
<1> QED
  BY <1>1 DEF OpToRel

\* f is the function in Without for the first k ids.
LeftAt(ids, m, f, n) ==
    IF n = 0 THEN <<>>
    ELSE IF ids[n] # m THEN Append(f[n - 1], ids[n]) ELSE f[n - 1]

Leaves(ids, m, k, f) == f = [n \in 0 .. k |-> LeftAt(ids, m, f, n)]

LEMMA LeavesAt ==
    ASSUME NEW ids, NEW m, NEW k \in Nat, NEW f, Leaves(ids, m, k, f), NEW n \in 0 .. k
    PROVE  f[n] = LeftAt(ids, m, f, n)
  BY DEF Leaves

LEMMA LeavesExists ==
    ASSUME NEW ids, NEW m, NEW k \in Nat
    PROVE  \E f : Leaves(ids, m, k, f)
<1> DEFINE T == {x \in Nat : ~\E f : Leaves(ids, m, x, f)}
<1> SUFFICES ASSUME T # {} PROVE FALSE
  OBVIOUS
<1>1. PICK i \in T : \A j \in T : ~(j < i)
  BY LeastNumber
<1>2. i # 0
  <2> SUFFICES ASSUME i = 0 PROVE FALSE
    OBVIOUS
  <2> DEFINE g == [n \in 0 .. 0 |-> <<>>]
  <2>1. Leaves(ids, m, 0, g)
    BY DEF Leaves, LeftAt
  <2> QED
    BY <1>1, <2>1
<1>3. PICK p \in Nat : i = p + 1 /\ i \in Nat
  BY <1>1, <1>2
<1>4. PICK f : Leaves(ids, m, p, f)
  BY <1>1, <1>3
<1> DEFINE v == IF ids[i] # m THEN Append(f[p], ids[i]) ELSE f[p]
           g == [n \in 0 .. i |-> IF n = i THEN v ELSE f[n]]
<1>5. \A n \in 0 .. i : g[n] = LeftAt(ids, m, g, n)
  <2>1. ASSUME NEW n \in 0 .. p PROVE g[n] = LeftAt(ids, m, g, n)
    <3>1. g[n] = f[n] /\ (n # 0 => g[n - 1] = f[n - 1])
      BY <1>3
    <3>2. f[n] = LeftAt(ids, m, f, n)
      BY <1>4, LeavesAt
    <3> HIDE DEF g
    <3> QED
      BY <3>1, <3>2 DEF LeftAt
  <2>2. g[i] = LeftAt(ids, m, g, i)
    <3>1. g[i] = v /\ g[i - 1] = f[p] /\ i # 0
      BY <1>3
    <3> HIDE DEF g
    <3> QED
      BY <3>1 DEF LeftAt
  <2>3. \A n \in 0 .. i : n = i \/ n \in 0 .. p
    BY <1>3
  <2> HIDE DEF g
  <2> QED
    BY <2>1, <2>2, <2>3
<1>6. g = [n \in 0 .. i |-> g[n]]
  OBVIOUS
<1> HIDE DEF g
<1>7. Leaves(ids, m, i, g)
  BY <1>5, <1>6 DEF Leaves
<1> QED
  BY <1>1, <1>7

LEMMA WithoutLeaves ==
    ASSUME NEW ids, NEW m, Len(ids) \in Nat
    PROVE  \E f : Leaves(ids, m, Len(ids), f) /\ Without(ids, m) = f[Len(ids)]
<1>1. \E f : Leaves(ids, m, Len(ids), f)
  BY LeavesExists
<1> DEFINE F == CHOOSE f : Leaves(ids, m, Len(ids), f)
<1>2. Leaves(ids, m, Len(ids), F)
  BY <1>1
<1>3. Without(ids, m) = F[Len(ids)]
  BY DEF Leaves, LeftAt, Without
<1> QED
  BY <1>2, <1>3

\* A file of marks: ids, each once.
IsList(ids) == ids \in Seq(Messages) /\ \A i, j \in 1 .. Len(ids) : ids[i] = ids[j] => i = j

\* What is left of the first n ids: ids of their own, each one of the n and not m.
PartOf(ids, m, n, left) ==
    IsList(left) /\ \A i \in 1 .. Len(left) : left[i] # m /\ \E j \in 1 .. n : left[i] = ids[j]

LEMMA PartGrows ==
    ASSUME NEW ids, IsList(ids), NEW m, NEW n \in Nat, n + 1 \in 1 .. Len(ids),
           NEW left, PartOf(ids, m, n, left), ids[n + 1] # m
    PROVE  PartOf(ids, m, n + 1, Append(left, ids[n + 1]))
<1>1. PICK e, more : e = ids[n + 1] /\ more = Append(left, e)
  OBVIOUS
<1>2. e \in Messages /\ left \in Seq(Messages) /\ Len(left) \in Nat
  BY <1>1 DEF IsList, PartOf
<1>3. /\ more \in Seq(Messages) /\ Len(more) = Len(left) + 1
      /\ \A i \in 1 .. Len(left) : more[i] = left[i]
      /\ more[Len(left) + 1] = e
  BY <1>1, <1>2, AppendProperties
<1>4. \A i \in 1 .. Len(left) : left[i] # e
  <2> SUFFICES ASSUME NEW i \in 1 .. Len(left), left[i] = e PROVE FALSE
    OBVIOUS
  <2>1. PICK j \in 1 .. n : left[i] = ids[j]
    BY DEF PartOf
  <2>2. j \in 1 .. Len(ids) /\ Len(ids) \in Nat
    BY DEF IsList
  <2> QED
    BY <1>1, <2>1, <2>2 DEF IsList
<1>5. \A i \in 1 .. Len(more) : i \in 1 .. Len(left) \/ i = Len(left) + 1
  BY <1>2, <1>3
<1>6. IsList(more)
  <2>1. ASSUME NEW i \in 1 .. Len(more), NEW j \in 1 .. Len(more), more[i] = more[j] PROVE i = j
    <3>1. CASE i \in 1 .. Len(left) /\ j \in 1 .. Len(left)
      BY <1>3, <2>1, <3>1 DEF PartOf, IsList
    <3>2. CASE i \in 1 .. Len(left) /\ j = Len(left) + 1
      BY <1>3, <1>4, <2>1, <3>2
    <3>3. CASE j \in 1 .. Len(left) /\ i = Len(left) + 1
      BY <1>3, <1>4, <2>1, <3>3
    <3> QED
      BY <1>5, <3>1, <3>2, <3>3
  <2> QED
    BY <1>3, <2>1 DEF IsList
<1>7. ASSUME NEW i \in 1 .. Len(more) PROVE more[i] # m /\ \E j \in 1 .. n + 1 : more[i] = ids[j]
  <2>1. CASE i \in 1 .. Len(left)
    <3>1. more[i] = left[i] /\ left[i] # m
      BY <1>3, <2>1 DEF PartOf
    <3>2. PICK j \in 1 .. n : left[i] = ids[j]
      BY <2>1 DEF PartOf
    <3>3. j \in 1 .. n + 1
      OBVIOUS
    <3> QED
      BY <3>1, <3>2, <3>3
  <2>2. CASE i = Len(left) + 1
    BY <1>1, <1>3, <2>2
  <2> QED
    BY <1>5, <2>1, <2>2
<1> QED
  BY <1>1, <1>6, <1>7 DEF PartOf

LEMMA WithoutIsPart ==
    ASSUME NEW ids, IsList(ids), NEW m
    PROVE  PartOf(ids, m, Len(ids), Without(ids, m))
<1>1. PICK k \in Nat : k = Len(ids)
  BY DEF IsList
<1>2. PICK f : Leaves(ids, m, k, f) /\ Without(ids, m) = f[k]
  BY <1>1, WithoutLeaves
<1> DEFINE T == {n \in 0 .. k : ~PartOf(ids, m, n, f[n])}
<1>3. T = {}
  <2> SUFFICES ASSUME T # {} PROVE FALSE
    OBVIOUS
  <2>1. PICK i \in T : \A j \in T : ~(j < i)
    <3>1. T \in SUBSET Nat
      OBVIOUS
    <3> QED
      BY <3>1, LeastNumber
  <2>2. f[i] = LeftAt(ids, m, f, i)
    BY <1>2, LeavesAt
  <2>3. i # 0
    <3> SUFFICES ASSUME i = 0 PROVE FALSE
      OBVIOUS
    <3>1. f[0] = <<>>
      BY <2>2 DEF LeftAt
    <3>2. PartOf(ids, m, 0, <<>>)
      BY DEF PartOf, IsList
    <3> QED
      BY <2>1, <3>1, <3>2
  <2>4. PICK p \in Nat : i = p + 1 /\ i \in 1 .. k
    BY <2>3
  <2>5. PartOf(ids, m, p, f[p])
    BY <2>1, <2>4
  <2>6. CASE ids[i] # m
    <3>1. f[i] = Append(f[p], ids[p + 1])
      BY <2>2, <2>4, <2>6 DEF LeftAt
    <3>2. PartOf(ids, m, p + 1, Append(f[p], ids[p + 1]))
      BY <1>1, <2>4, <2>5, <2>6, PartGrows
    <3> QED
      BY <2>1, <2>4, <3>1, <3>2
  <2>7. CASE ids[i] = m
    <3>1. f[i] = f[p]
      BY <2>2, <2>4, <2>7 DEF LeftAt
    <3>2. \A j \in 1 .. p : j \in 1 .. i
      BY <2>4
    <3>3. PartOf(ids, m, i, f[p])
      BY <2>5, <3>2 DEF PartOf
    <3> QED
      BY <2>1, <3>1, <3>3
  <2> QED
    BY <2>6, <2>7
<1> QED
  BY <1>1, <1>2, <1>3

\* A mark is the last of at most Cap ids, each once, the others of which were there before.
LEMMA MarkedList ==
    ASSUME NEW ids, IsList(ids), NEW m \in Messages
    PROVE  /\ IsList(Marked(ids, m)) /\ Len(Marked(ids, m)) <= Cap
           /\ m \in ToSet(Marked(ids, m))
           /\ ToSet(Marked(ids, m)) \subseteq ToSet(ids) \union {m}
<1>1. PICK left, all : left = Without(ids, m) /\ all = Append(left, m)
  OBVIOUS
<1>2. PartOf(ids, m, Len(ids), left) /\ left \in Seq(Messages) /\ Len(left) \in Nat
  BY <1>1, WithoutIsPart DEF PartOf, IsList
<1>3. /\ all \in Seq(Messages) /\ Len(all) = Len(left) + 1
      /\ \A i \in 1 .. Len(left) : all[i] = left[i]
      /\ all[Len(left) + 1] = m
  BY <1>1, <1>2, AppendProperties
<1>4. \A i \in 1 .. Len(all) : i \in 1 .. Len(left) \/ i = Len(left) + 1
  BY <1>2, <1>3
<1>5. IsList(all)
  <2>1. ASSUME NEW i \in 1 .. Len(all), NEW j \in 1 .. Len(all), all[i] = all[j] PROVE i = j
    <3>1. CASE i \in 1 .. Len(left) /\ j \in 1 .. Len(left)
      BY <1>2, <1>3, <2>1, <3>1 DEF PartOf, IsList
    <3>2. CASE i \in 1 .. Len(left) /\ j = Len(left) + 1
      BY <1>2, <1>3, <2>1, <3>2 DEF PartOf
    <3>3. CASE j \in 1 .. Len(left) /\ i = Len(left) + 1
      BY <1>2, <1>3, <2>1, <3>3 DEF PartOf
    <3> QED
      BY <1>4, <3>1, <3>2, <3>3
  <2> QED
    BY <1>3, <2>1 DEF IsList
<1>6. \A i \in 1 .. Len(all) : all[i] \in ToSet(ids) \union {m}
  <2>1. ASSUME NEW i \in 1 .. Len(left) PROVE left[i] \in ToSet(ids)
    <3>1. PICK j \in 1 .. Len(ids) : left[i] = ids[j]
      BY <1>2 DEF PartOf
    <3> QED
      BY <3>1 DEF ToSet, IsList
  <2> QED
    BY <1>3, <1>4, <2>1
<1>7. PICK new : new = Marked(ids, m) /\ new = Newest(all)
  BY <1>1 DEF Marked
<1>8. PICK n \in Nat : n = Len(all) /\ n # 0
  BY <1>2, <1>3
<1>9. Cap \in Nat \ {0}
  BY BridgeAssumption
<1>10. CASE n <= Cap
  <2>1. new = all
    BY <1>7, <1>8, <1>9, <1>10 DEF Newest
  <2>2. n \in 1 .. Len(all) /\ all[n] = m /\ DOMAIN all = 1 .. Len(all)
    BY <1>2, <1>3, <1>8
  <2>3. m \in ToSet(all)
    BY <2>2 DEF ToSet
  <2>4. ToSet(all) \subseteq ToSet(ids) \union {m}
    BY <1>6, <2>2 DEF ToSet
  <2> QED
    BY <1>5, <1>7, <1>8, <1>10, <2>1, <2>3, <2>4
<1>11. CASE n > Cap
  <2>1. PICK d \in Nat : d = n - Cap /\ new = SubSeq(all, d + 1, n)
    <3>1. n - Cap \in Nat
      BY <1>8, <1>9, <1>11
    <3> QED
      BY <1>7, <1>8, <1>11, <3>1 DEF Newest
  <2>2. \A i \in d + 1 .. n : all[i] \in Messages
    BY <1>3, <1>8, <2>1
  <2>3. /\ new \in Seq(Messages)
        /\ Len(new) = IF d + 1 <= n THEN n - (d + 1) + 1 ELSE 0
        /\ \A i \in 1 .. n - (d + 1) + 1 : new[i] = all[d + 1 + i - 1]
    BY <2>1, <2>2, SubSeqProperties
  <2>4. Len(new) = Cap /\ \A i \in 1 .. Cap : new[i] = all[d + i] /\ d + i \in 1 .. n
    BY <1>8, <1>9, <1>11, <2>1, <2>3
  <2>5. IsList(new)
    <3>1. ASSUME NEW i \in 1 .. Cap, NEW j \in 1 .. Cap, new[i] = new[j] PROVE i = j
      <4>1. PICK x, y \in 1 .. n : x = d + i /\ y = d + j /\ all[x] = all[y]
        BY <2>4, <3>1
      <4>2. x = y
        BY <1>5, <1>8, <4>1 DEF IsList
      <4> QED
        BY <1>9, <2>1, <4>1, <4>2
    <3> QED
      BY <2>3, <2>4, <3>1 DEF IsList
  <2>6. DOMAIN new = 1 .. Cap
    BY <2>3, <2>4
  <2>7. new[Cap] = m /\ Cap \in 1 .. Cap
    <3>1. d + Cap = n /\ Cap \in 1 .. Cap
      BY <1>8, <1>9, <2>1
    <3>2. all[n] = m
      BY <1>2, <1>3, <1>8
    <3> QED
      BY <2>4, <3>1, <3>2
  <2>8. m \in ToSet(new)
    BY <2>6, <2>7 DEF ToSet
  <2>9. ToSet(new) \subseteq ToSet(ids) \union {m}
    BY <1>6, <1>8, <2>4, <2>6 DEF ToSet
  <2> QED
    BY <1>7, <1>9, <2>4, <2>5, <2>8, <2>9
<1> QED
  BY <1>8, <1>9, <1>10, <1>11

-----------------------------------------------------------------------------
(* The inductive invariant.                                                *)

Types ==
    /\ config \in Configs /\ kind \in [Messages -> Kinds]
    /\ at \in [Handlers -> Places] /\ msg \in [Handlers -> Messages \union {Nobody}]
    /\ way \in [Handlers -> Ways] /\ text \in [Handlers -> Told \union {"none"}]
    /\ cacheAt \in [Processes -> {"none", "redis", "memory"}]
    /\ redis \subseteq Messages /\ memory \in [Processes -> SUBSET Messages]
    /\ delivered \in [Messages -> Nat] /\ reviews \in [Messages -> Nat]
    /\ told \in [Messages -> SUBSET Told]
    /\ crashes \in 0 .. MaxCrashes
    /\ overlapped \subseteq Messages /\ placed \subseteq Messages /\ blind \subseteq Messages
    /\ dropped \subseteq Messages /\ died \subseteq Messages /\ unsent \subseteq Messages

\* A handler that is at something has a message, what it does with it fits its kind, and what it
\* sends is a reply.
HandOf(h) ==
    /\ at[h] # "idle" => msg[h] \in Messages
    /\ at[h] \in {"mark_cache", "mark_read", "mark_write"} => way[h] \in Read(kind[msg[h]])
    /\ at[h] = "reply" => text[h] \in Told

Hands == \A h \in Handlers : HandOf(h)

\* The file and what has been read of it.
IsFile(ids) == IsList(ids) /\ Len(ids) <= Cap

Files ==
    /\ IsFile(file)
    /\ copy = [h \in Handlers |-> copy[h]] /\ \A h \in Handlers : IsFile(copy[h])

\* Every review of a message has used up one of its deliveries, and so does every handler that is
\* at it and has not come to its reply.
AtIt(m) == {h \in Handlers : at[h] \notin {"idle", "reply"} /\ msg[h] = m}

PaidOf(m) ==
    /\ IsFiniteSet(AtIt(m)) /\ delivered[m] <= Deliveries[m]
    /\ reviews[m] + Cardinality(AtIt(m)) <= delivered[m]

Paid == \A m \in Messages : PaidOf(m)

\* Before a message is marked, a handler has been the only one to look it up, or another was.  One
\* that is still to look at the file, or to mark, after another has put its mark in a cache has
\* not been shown it.
New == {"look_file", "obtain", "mark_cache"}

AloneOf(m) ==
    m \notin overlapped =>
        /\ \A g, h \in Handlers :
              at[g] \in Unmarked /\ msg[g] = m /\ at[h] \in Unmarked /\ msg[h] = m => g = h
        /\ \A h \in Handlers : at[h] \in New /\ msg[h] = m /\ m \in placed => m \in blind

\* What is being marked or has been reviewed has its mark in a cache, and what is about to be
\* reviewed or has been is in the file, or the file has lost it.
MarkOf(m) ==
    /\ reviews[m] > 0 => m \in placed /\ m \in ToSet(file) \union dropped
    /\ \A h \in Handlers : at[h] \in Marking /\ msg[h] = m => m \in placed
    /\ \A h \in Handlers :
          at[h] \in {"save", "review"} /\ msg[h] = m => m \in ToSet(file) \union dropped

\* Without an explanation there is one review, or one handler that may still come to it.
Bound == {"obtain", "mark_cache", "mark_read", "mark_write", "save", "review"}

Explained(m) == m \in overlapped \/ (m \in blind /\ m \in dropped)

OnceOf(m) ==
    \/ Explained(m)
    \/ /\ reviews[m] <= 1
       /\ \A h \in Handlers : at[h] \in Bound /\ msg[h] = m => reviews[m] = 0
       /\ \A g, h \in Handlers :
             at[g] \in Bound /\ msg[g] = m /\ at[h] \in Bound /\ msg[h] = m => g = h

WatchOf(m) == AloneOf(m) /\ MarkOf(m) /\ OnceOf(m)

Watched == \A m \in Messages : WatchOf(m)

\* What has been put in a cache is heard of, and every record of a message was preceded by that.
HeardOf(m) ==
    \/ ~config.auto_reply
    \/ kind[m] = "silent"
    \/ told[m] # {} \/ m \in unsent \/ m \in died
    \/ \E h \in Handlers : at[h] \in Marking /\ msg[h] = m

Heard ==
    /\ \A m \in placed : HeardOf(m)
    /\ redis \subseteq placed /\ ToSet(file) \subseteq placed
    /\ \A h \in Handlers : ToSet(copy[h]) \subseteq placed

BridgeInv == Types /\ Hands /\ Files /\ Paid /\ Watched /\ Heard

-----------------------------------------------------------------------------
(* What a step changes of the handlers, and what it leaves alone.          *)

HandTypes ==
    /\ at \in [Handlers -> Places] /\ msg \in [Handlers -> Messages \union {Nobody}]
    /\ way \in [Handlers -> Ways] /\ text \in [Handlers -> Told \union {"none"}]
    /\ copy = [h \in Handlers |-> copy[h]]

Others(h) ==
    \A g \in Handlers : g # h =>
        /\ at'[g] = at[g] /\ msg'[g] = msg[g]
        /\ way'[g] = way[g] /\ text'[g] = text[g] /\ copy'[g] = copy[g]

LEMMA RestFacts ==
    ASSUME Types, Files, NEW hs, Rest(hs)
    PROVE  /\ HandTypes'
           /\ \A h \in Handlers : h \in hs => at'[h] = "idle" /\ copy'[h] = <<>>
           /\ \A h \in Handlers : h \notin hs =>
                  /\ at'[h] = at[h] /\ msg'[h] = msg[h]
                  /\ way'[h] = way[h] /\ text'[h] = text[h] /\ copy'[h] = copy[h]
<1>1. HandTypes'
  <2>1. at' \in [Handlers -> Places]
    BY DEF Types, Rest, Places
  <2>2. msg' \in [Handlers -> Messages \union {Nobody}]
    BY DEF Types, Rest
  <2>3. way' \in [Handlers -> Ways]
    BY DEF Types, Rest, Ways
  <2>4. text' \in [Handlers -> Told \union {"none"}]
    BY DEF Types, Rest
  <2>5. copy' = [h \in Handlers |-> copy'[h]]
    BY DEF Rest
  <2> QED
    BY <2>1, <2>2, <2>3, <2>4, <2>5 DEF HandTypes
<1> QED
  BY <1>1 DEF Rest

LEMMA EndFacts ==
    ASSUME Types, Files, NEW h \in Handlers, End(h)
    PROVE  HandTypes' /\ Others(h) /\ at'[h] = "idle" /\ copy'[h] = <<>>
<1>1. Rest({h})
  BY DEF End
<1> QED
  BY <1>1, RestFacts DEF Others

LEMMA NothingIsFile == IsFile(<<>>)
  BY BridgeAssumption DEF IsFile, IsList

LEMMA HandsFrame ==
    ASSUME Hands, NEW h \in Handlers, Others(h), kind' = kind, HandOf(h)'
    PROVE  Hands'
<1>1. ASSUME NEW g \in Handlers, g # h PROVE HandOf(g)'
  <2>1. HandOf(g)
    BY DEF Hands
  <2>2. at'[g] = at[g] /\ msg'[g] = msg[g] /\ way'[g] = way[g] /\ text'[g] = text[g]
    BY <1>1 DEF Others
  <2> QED
    BY <2>1, <2>2 DEF HandOf, Read, Ways, Told
<1> QED
  BY <1>1 DEF Hands

LEMMA FilesFrame ==
    ASSUME Files, NEW h \in Handlers, Others(h), HandTypes', IsFile(file'), IsFile(copy'[h])
    PROVE  Files'
<1>1. \A g \in Handlers : IsFile(copy'[g])
  BY DEF Others, Files
<1> QED
  BY <1>1 DEF Files, HandTypes, IsFile, IsList

LEMMA PaidFrame ==
    ASSUME Types, Paid, reviews' = reviews, delivered' = delivered,
           \A g \in Handlers : at'[g] \notin {"idle", "reply"} =>
               at[g] \notin {"idle", "reply"} /\ msg'[g] = msg[g]
    PROVE  Paid'
<1> SUFFICES ASSUME NEW m \in Messages PROVE PaidOf(m)'
  BY DEF Paid
<1>1. PaidOf(m)
  BY DEF Paid
<1>2. AtIt(m)' \subseteq AtIt(m)
  BY DEF AtIt
<1>3. IsFiniteSet(AtIt(m)') /\ Cardinality(AtIt(m)') <= Cardinality(AtIt(m))
  BY <1>1, <1>2, FS_Subset DEF PaidOf
<1>4. PICK a, b, r, d : a = Cardinality(AtIt(m)) /\ b = Cardinality(AtIt(m)') /\ r = reviews[m] /\ d = delivered[m]
  OBVIOUS
<1>5. a \in Nat /\ b \in Nat
  BY <1>1, <1>3, <1>4, FS_CardinalityType DEF PaidOf
<1>6. r \in Nat /\ d \in Nat /\ r + a <= d /\ d <= Deliveries[m] /\ Deliveries[m] \in Nat
  BY <1>1, <1>4, BridgeAssumption DEF Types, PaidOf
<1> QED
  BY <1>1, <1>3, <1>4, <1>5, <1>6 DEF PaidOf

\* A review uses up the handler that makes it.
LEMMA ReviewPaid ==
    ASSUME Types, Paid, NEW h \in Handlers, at[h] \in {"save", "review"}, msg[h] \in Messages,
           delivered' = delivered, Others(h), at'[h] \in {"idle", "reply"},
           reviews' = [reviews EXCEPT ![msg[h]] = @ + 1]
    PROVE  Paid'
<1> SUFFICES ASSUME NEW m \in Messages PROVE PaidOf(m)'
  BY DEF Paid
<1>1. PaidOf(m) /\ Deliveries[m] \in Nat
  BY BridgeAssumption DEF Paid
<1>2. AtIt(m)' \subseteq AtIt(m) \ {h}
  BY DEF AtIt, Others
<1>3. /\ IsFiniteSet(AtIt(m) \ {h})
      /\ Cardinality(AtIt(m) \ {h}) = IF h \in AtIt(m) THEN Cardinality(AtIt(m)) - 1 ELSE Cardinality(AtIt(m))
  BY <1>1, FS_RemoveElement DEF PaidOf
<1>4. IsFiniteSet(AtIt(m)') /\ Cardinality(AtIt(m)') <= Cardinality(AtIt(m) \ {h})
  BY <1>2, <1>3, FS_Subset
<1>5. PICK a, b, c, r, d : /\ a = Cardinality(AtIt(m)) /\ b = Cardinality(AtIt(m)') /\ c = Cardinality(AtIt(m) \ {h})
                           /\ r = reviews[m] /\ d = delivered[m]
  OBVIOUS
<1>6. a \in Nat /\ b \in Nat /\ c \in Nat /\ r \in Nat /\ d \in Nat /\ r + a <= d
  BY <1>1, <1>3, <1>4, <1>5, FS_CardinalityType DEF PaidOf, Types
<1>7. CASE m = msg[h]
  <2>1. h \in AtIt(m)
    BY <1>7 DEF AtIt
  <2>2. reviews'[m] = r + 1 /\ b <= a - 1
    BY <1>3, <1>4, <1>5, <1>6, <1>7, <2>1 DEF Types
  <2> QED
    BY <1>1, <1>4, <1>5, <1>6, <2>2 DEF PaidOf
<1>8. CASE m # msg[h]
  <2>1. reviews'[m] = r /\ b <= a
    BY <1>3, <1>4, <1>5, <1>6, <1>8 DEF Types
  <2> QED
    BY <1>1, <1>4, <1>5, <1>6, <2>1 DEF PaidOf
<1> QED
  BY <1>7, <1>8

\* A delivery pays for the handler that takes it.
LEMMA DeliveryPaid ==
    ASSUME Types, Paid, NEW h \in Handlers, at[h] = "idle", NEW x \in Messages,
           delivered[x] < Deliveries[x], delivered' = [delivered EXCEPT ![x] = @ + 1], reviews' = reviews,
           Others(h), at'[h] = "idle" \/ msg'[h] = x
    PROVE  Paid'
<1> SUFFICES ASSUME NEW m \in Messages PROVE PaidOf(m)'
  BY DEF Paid
<1>1. PaidOf(m) /\ Deliveries[m] \in Nat
  BY BridgeAssumption DEF Paid
<1>2. /\ IsFiniteSet(AtIt(m) \union {h})
      /\ Cardinality(AtIt(m) \union {h}) = IF h \in AtIt(m) THEN Cardinality(AtIt(m)) ELSE Cardinality(AtIt(m)) + 1
  BY <1>1, FS_AddElement DEF PaidOf
<1>3. h \notin AtIt(m)
  BY DEF AtIt
<1>4. PICK a, r, d : a = Cardinality(AtIt(m)) /\ r = reviews[m] /\ d = delivered[m]
  OBVIOUS
<1>5. a \in Nat /\ r \in Nat /\ d \in Nat /\ r + a <= d
  BY <1>1, <1>4, FS_CardinalityType DEF PaidOf, Types
<1>6. CASE m = x
  <2>1. AtIt(m)' \subseteq AtIt(m) \union {h}
    BY DEF AtIt, Others
  <2>2. IsFiniteSet(AtIt(m)') /\ Cardinality(AtIt(m)') <= Cardinality(AtIt(m) \union {h})
    BY <1>2, <2>1, FS_Subset
  <2>3. PICK b : b = Cardinality(AtIt(m)') /\ b \in Nat
    BY <2>2, FS_CardinalityType
  <2>4. b <= a + 1
    BY <1>2, <1>3, <1>4, <1>5, <2>2, <2>3
  <2>5. delivered'[m] = d + 1 /\ d + 1 <= Deliveries[m] /\ reviews'[m] = r
    BY <1>1, <1>4, <1>5, <1>6 DEF Types
  <2> QED
    BY <1>5, <2>2, <2>3, <2>4, <2>5 DEF PaidOf
<1>7. CASE m # x
  <2>1. AtIt(m)' \subseteq AtIt(m)
    BY <1>7 DEF AtIt, Others
  <2>2. IsFiniteSet(AtIt(m)') /\ Cardinality(AtIt(m)') <= Cardinality(AtIt(m))
    BY <1>1, <2>1, FS_Subset DEF PaidOf
  <2>3. PICK b : b = Cardinality(AtIt(m)') /\ b \in Nat
    BY <2>2, FS_CardinalityType
  <2>4. delivered'[m] = d /\ reviews'[m] = r
    BY <1>4, <1>7 DEF Types
  <2> QED
    BY <1>1, <1>4, <1>5, <2>2, <2>3, <2>4 DEF PaidOf
<1> QED
  BY <1>6, <1>7

-----------------------------------------------------------------------------
(* How far handlers are with a message.                                    *)

\* What a handler may do without a word about a message.
Quiet ==
    {<<"obtain", "mark_cache">>, <<"mark_read", "mark_write">>, <<"save", "review">>}
        \union (Marking \X {"reply"})

Quietly(m) ==
    \A g \in Handlers : at'[g] # "idle" /\ msg'[g] = m =>
        \/ at'[g] = "look_cache"
        \/ msg[g] = m /\ (at'[g] = at[g] \/ <<at[g], at'[g]>> \in Quiet)

\* A handler's step is a quiet one for the messages it is not at.
LEMMA QuietOthers ==
    ASSUME NEW h, Others(h), NEW m, msg'[h] # m
    PROVE  Quietly(m)
<1> SUFFICES ASSUME NEW g \in Handlers, msg'[g] = m
             PROVE  msg[g] = m /\ at'[g] = at[g]
  BY DEF Quietly
<1>1. g # h
  OBVIOUS
<1> QED
  BY <1>1 DEF Others

LEMMA QuietlyFacts ==
    ASSUME NEW m, Quietly(m), NEW g \in Handlers, msg'[g] = m
    PROVE  /\ at'[g] \in Unmarked => at[g] \in Unmarked /\ msg[g] = m
           /\ at'[g] \in New => at[g] \in New /\ msg[g] = m
           /\ at'[g] \in Marking => at[g] \in Marking /\ msg[g] = m
           /\ at'[g] \in {"save", "review"} => at[g] \in {"save", "review"} /\ msg[g] = m
           /\ at'[g] \in Bound => at[g] \in Bound /\ msg[g] = m
<1>1. CASE at'[g] \in {"idle", "look_cache"}
  BY <1>1 DEF Unmarked, New, Marking, Bound
<1>2. CASE at'[g] \notin {"idle", "look_cache"}
  <2>1. msg[g] = m /\ (at'[g] = at[g] \/ <<at[g], at'[g]>> \in Quiet)
    BY <1>2 DEF Quietly
  <2>2. CASE at'[g] = at[g]
    BY <2>1, <2>2
  <2>3. CASE <<at[g], at'[g]>> \in Quiet
    BY <2>1, <2>3 DEF Quiet, Unmarked, New, Marking, Bound
  <2> QED
    BY <2>1, <2>2, <2>3
<1> QED
  BY <1>1, <1>2

LEMMA WatchFrame ==
    ASSUME NEW m \in Messages, WatchOf(m), Quietly(m), reviews'[m] = reviews[m],
           m \in overlapped' <=> m \in overlapped, m \in placed' <=> m \in placed,
           m \in blind => m \in blind', m \in dropped => m \in dropped',
           m \in ToSet(file) \union dropped => m \in ToSet(file') \union dropped'
    PROVE  WatchOf(m)'
<1>1. AloneOf(m)'
  BY QuietlyFacts DEF WatchOf, AloneOf, Unmarked, New
<1>2. MarkOf(m)'
  BY QuietlyFacts DEF WatchOf, MarkOf, Marking, ToSet
<1>3. OnceOf(m)'
  BY QuietlyFacts DEF WatchOf, OnceOf, Explained, Bound
<1> QED
  BY <1>1, <1>2, <1>3 DEF WatchOf

LEMMA HeardFrame ==
    ASSUME NEW m, HeardOf(m), config' = config, kind' = kind,
           told[m] # {} => told'[m] # {}, unsent \subseteq unsent', died \subseteq died',
           \A h \in Handlers : at[h] \in Marking /\ msg[h] = m =>
               \/ at'[h] \in Marking /\ msg'[h] = m
               \/ told'[m] # {} \/ m \in unsent' \/ m \in died'
               \/ ~config.auto_reply \/ kind[m] = "silent"
    PROVE  HeardOf(m)'
  BY DEF HeardOf, Marking

-----------------------------------------------------------------------------
(* Every step preserves the invariant.                                     *)

LEMMA TypesFrame ==
    ASSUME Types, HandTypes',
           UNCHANGED <<config, kind, cacheAt, redis, memory, delivered, reviews, told, crashes, histories>>
    PROVE  Types'
  BY DEF Types, HandTypes, Told, Kinds, Configs, histories

LEMMA TypesAreHandTypes == Types /\ Files => HandTypes
  BY DEF Types, Files, HandTypes

\* A handler ends that has not marked its message.
LEMMA EndKeeps ==
    ASSUME BridgeInv, NEW h \in Handlers, End(h), at[h] \notin Marking,
           UNCHANGED <<config, kind, redis, memory, file, effects, delivered, crashes, histories>>,
           cacheAt' \in [Processes -> {"none", "redis", "memory"}]
    PROVE  BridgeInv'
<1>1. Types /\ Hands /\ Files /\ Paid /\ Watched /\ Heard
  BY DEF BridgeInv
<1>2. HandTypes' /\ Others(h) /\ at'[h] = "idle" /\ copy'[h] = <<>>
  BY <1>1, EndFacts
<1>3. UNCHANGED <<config, kind, redis, memory, file, reviews, told, delivered, crashes,
                  overlapped, placed, blind, dropped, died, unsent>>
  BY DEF effects, histories
<1>4. Types'
  BY <1>1, <1>2, <1>3 DEF Types, HandTypes, Told, Configs, Kinds
<1>5. Hands'
  BY <1>1, <1>2, <1>3, HandsFrame DEF HandOf
<1>6. Files'
  BY <1>1, <1>2, <1>3, NothingIsFile, FilesFrame DEF Files
<1>7. Paid'
  <2>1. \A g \in Handlers : at'[g] \notin {"idle", "reply"} =>
            at[g] \notin {"idle", "reply"} /\ msg'[g] = msg[g]
    BY <1>2 DEF Others
  <2> QED
    BY <1>1, <1>3, <2>1, PaidFrame
<1>8. Watched'
  <2> SUFFICES ASSUME NEW m \in Messages PROVE WatchOf(m)'
    BY DEF Watched
  <2>1. Quietly(m)
    BY <1>2 DEF Quietly, Others
  <2>2. WatchOf(m)
    BY <1>1 DEF Watched
  <2> QED
    BY <1>3, <2>1, <2>2, WatchFrame
<1>9. Heard'
  <2>1. ASSUME NEW m \in placed PROVE HeardOf(m)'
    <3>1. \A g \in Handlers : at[g] \in Marking /\ msg[g] = m => at'[g] \in Marking /\ msg'[g] = m
      BY <1>2 DEF Others
    <3>2. HeardOf(m)
      BY <1>1 DEF Heard
    <3> QED
      BY <1>3, <3>1, <3>2, HeardFrame
  <2>2. ToSet(<<>>) = {}
    BY DEF ToSet
  <2>3. \A g \in Handlers : ToSet(copy'[g]) \subseteq placed
    BY <1>1, <1>2, <2>2 DEF Others, Heard
  <2> QED
    BY <1>1, <1>3, <2>1, <2>3 DEF Heard, ToSet
<1> QED
  BY <1>4, <1>5, <1>6, <1>7, <1>8, <1>9 DEF BridgeInv

\* A handler goes on quietly, with what it has read of the file, if anything.
LEMMA QuietKeeps ==
    ASSUME BridgeInv, NEW h \in Handlers, HandTypes', Others(h), HandOf(h)',
           msg'[h] = msg[h], <<at[h], at'[h]>> \in Quiet, at'[h] # "reply", copy'[h] \in {copy[h], file},
           UNCHANGED <<config, kind, caches, file, effects, delivered, crashes, histories>>
    PROVE  BridgeInv'
<1>1. Types /\ Hands /\ Files /\ Paid /\ Watched /\ Heard
  BY DEF BridgeInv
<1>2. UNCHANGED <<config, kind, cacheAt, redis, memory, file, reviews, told, delivered, crashes,
                  overlapped, placed, blind, dropped, died, unsent>>
  BY DEF effects, histories, caches
<1>3. Types'
  BY <1>1, <1>2, TypesFrame DEF histories
<1>4. Hands'
  BY <1>1, <1>2, HandsFrame
<1>5. Files'
  <2>1. IsFile(copy'[h]) /\ IsFile(file')
    BY <1>1, <1>2 DEF Files
  <2> QED
    BY <1>1, <2>1, FilesFrame
<1>6. at[h] \notin {"idle", "reply"} /\ (at[h] \in Marking <=> at'[h] \in Marking)
  BY DEF Quiet, Marking
<1>7. Paid'
  <2>1. \A g \in Handlers : at'[g] \notin {"idle", "reply"} =>
            at[g] \notin {"idle", "reply"} /\ msg'[g] = msg[g]
    BY <1>6 DEF Others
  <2> QED
    BY <1>1, <1>2, <2>1, PaidFrame
<1>8. Watched'
  <2> SUFFICES ASSUME NEW m \in Messages PROVE WatchOf(m)'
    BY DEF Watched
  <2>1. Quietly(m)
    BY DEF Quietly, Others
  <2>2. WatchOf(m)
    BY <1>1 DEF Watched
  <2> QED
    BY <1>2, <2>1, <2>2, WatchFrame
<1>9. Heard'
  <2>1. ASSUME NEW m \in placed PROVE HeardOf(m)'
    <3>1. \A g \in Handlers : at[g] \in Marking /\ msg[g] = m => at'[g] \in Marking /\ msg'[g] = m
      BY <1>6 DEF Others
    <3>2. HeardOf(m)
      BY <1>1 DEF Heard
    <3> QED
      BY <1>2, <3>1, <3>2, HeardFrame
  <2>2. \A g \in Handlers : ToSet(copy'[g]) \subseteq placed
    BY <1>1 DEF Others, Heard
  <2> QED
    BY <1>1, <1>2, <2>1, <2>2 DEF Heard, ToSet
<1> QED
  BY <1>3, <1>4, <1>5, <1>7, <1>8, <1>9 DEF BridgeInv

LEMMA DeliverKeeps ==
    ASSUME BridgeInv, NEW h \in Handlers, NEW x \in Messages, Deliver(h, x)
    PROVE  BridgeInv'
<1>1. Types /\ Hands /\ Files /\ Paid /\ Watched /\ Heard
  BY DEF BridgeInv
<1>2. /\ at[h] = "idle" /\ delivered[x] < Deliveries[x] /\ delivered' = [delivered EXCEPT ![x] = @ + 1]
      /\ UNCHANGED <<config, kind, way, text, copy, cacheAt, redis, memory, file, reviews, told, crashes,
                     overlapped, placed, blind, dropped, died, unsent>>
  BY DEF Deliver, caches, effects, histories
<1>3. /\ at' \in [Handlers -> Places] /\ msg' \in [Handlers -> Messages \union {Nobody}]
      /\ \A g \in Handlers : g # h => at'[g] = at[g] /\ msg'[g] = msg[g]
      /\ at'[h] = "idle" \/ (at'[h] = "look_cache" /\ msg'[h] = x)
  <2>1. CASE kind[x] = "self"
    BY <1>1, <1>2, <2>1 DEF Deliver, Types
  <2>2. CASE kind[x] # "self"
    <3>1. at' = [at EXCEPT ![h] = "look_cache"] /\ msg' = [msg EXCEPT ![h] = x]
      BY <2>2 DEF Deliver
    <3>2. "look_cache" \in Places
      BY DEF Places
    <3> QED
      BY <1>1, <3>1, <3>2 DEF Types
  <2> QED
    BY <2>1, <2>2
<1>4. HandTypes' /\ Others(h)
  BY <1>1, <1>2, <1>3 DEF HandTypes, Others, Types, Files, Told, Ways
<1>5. Types'
  <2>1. delivered[x] + 1 \in Nat
    BY <1>1 DEF Types
  <2>2. delivered' \in [Messages -> Nat]
    BY <1>1, <1>2, <2>1 DEF Types
  <2> QED
    BY <1>1, <1>2, <1>4, <2>2 DEF Types, HandTypes, Told, Configs, Kinds
<1>6. Hands'
  BY <1>1, <1>2, <1>3, <1>4, HandsFrame DEF HandOf
<1>7. Files'
  BY <1>1, <1>2, <1>4, FilesFrame DEF Files
<1>8. Paid'
  BY <1>1, <1>2, <1>3, <1>4, DeliveryPaid
<1>9. Watched'
  <2> SUFFICES ASSUME NEW m \in Messages PROVE WatchOf(m)'
    BY DEF Watched
  <2>1. Quietly(m)
    BY <1>3 DEF Quietly
  <2>2. WatchOf(m)
    BY <1>1 DEF Watched
  <2> QED
    BY <1>2, <2>1, <2>2, WatchFrame
<1>10. Heard'
  <2>1. ASSUME NEW m \in placed PROVE HeardOf(m)'
    <3>1. \A g \in Handlers : at[g] \in Marking /\ msg[g] = m => at'[g] \in Marking /\ msg'[g] = m
      BY <1>2, <1>3 DEF Marking
    <3>2. HeardOf(m)
      BY <1>1 DEF Heard
    <3> QED
      BY <1>2, <3>1, <3>2, HeardFrame
  <2> QED
    BY <1>1, <1>2, <2>1 DEF Heard, ToSet
<1> QED
  BY <1>5, <1>6, <1>7, <1>8, <1>9, <1>10 DEF BridgeInv

\* A handler that goes on keeps its message.
LEMMA GoFacts ==
    ASSUME Types, Files, NEW h \in Handlers, NEW from, NEW to \in Places, Go(h, from, to),
           UNCHANGED <<msg, way, text, copy>>
    PROVE  HandTypes' /\ Others(h) /\ at[h] = from /\ at'[h] = to
<1>1. at[h] = from /\ at' = [at EXCEPT ![h] = to]
  BY DEF Go
<1>2. at' \in [Handlers -> Places] /\ at'[h] = to /\ \A g \in Handlers : g # h => at'[g] = at[g]
  BY <1>1 DEF Types
<1> QED
  BY <1>1, <1>2 DEF Types, Files, HandTypes, Others, Told, Ways

LEMMA LookCacheKeeps ==
    ASSUME BridgeInv, NEW h \in Handlers, LookCache(h)
    PROVE  BridgeInv'
<1>1. Types /\ Hands /\ Files /\ Paid /\ Watched /\ Heard
  BY DEF BridgeInv
<1>2. PICK m, p : m = msg[h] /\ p = ProcessOf[h]
  OBVIOUS
<1>3. m \in Messages /\ p \in Processes /\ at[h] = "look_cache"
  BY <1>1, <1>2, BridgeAssumption DEF LookCache, Hands, HandOf
<1>4. /\ cacheAt' \in [Processes -> {"none", "redis", "memory"}]
      /\ UNCHANGED <<config, kind, redis, memory, file, effects, delivered, crashes, placed, dropped, died, unsent>>
  <2>1. PICK backend \in Backends(p) : cacheAt' = [cacheAt EXCEPT ![p] = backend]
    BY <1>2 DEF LookCache
  <2>2. backend \in {"none", "redis", "memory"}
    BY <1>1, <1>3, <2>1 DEF Backends, Types
  <2> QED
    BY <1>1, <2>1, <2>2 DEF LookCache, Types
<1>5. CASE End(h) /\ UNCHANGED <<overlapped, blind>>
  <2>1. at[h] \notin Marking /\ UNCHANGED histories
    BY <1>3, <1>4, <1>5 DEF Marking, histories
  <2> QED
    BY <1>4, <1>5, <2>1, EndKeeps
<1>6. CASE /\ Go(h, "look_cache", "look_file")
           /\ overlapped' = IF \E g \in Handlers : msg[g] = m /\ at[g] \in Unmarked
                              THEN overlapped \cup {m} ELSE overlapped
           /\ blind' = IF m \in placed THEN blind \cup {m} ELSE blind
           /\ UNCHANGED <<msg, way, text, copy>>
  <2>1. HandTypes' /\ Others(h) /\ at'[h] = "look_file" /\ msg'[h] = m
    BY <1>1, <1>2, <1>6, GoFacts DEF Places
  <2>2. Types'
    BY <1>1, <1>3, <1>4, <1>6, <2>1 DEF Types, HandTypes, Told, Configs, Kinds, effects
  <2>3. Hands'
    BY <1>1, <1>3, <1>4, <2>1, HandsFrame DEF HandOf
  <2>4. Files'
    BY <1>1, <1>4, <1>6, <2>1, FilesFrame DEF Files
  <2>5. Paid'
    <3>1. \A g \in Handlers : at'[g] \notin {"idle", "reply"} =>
              at[g] \notin {"idle", "reply"} /\ msg'[g] = msg[g]
      BY <1>2, <1>3, <2>1 DEF Others
    <3> QED
      BY <1>1, <1>4, <3>1, PaidFrame DEF effects
  <2>6. Watched'
    <3> SUFFICES ASSUME NEW x \in Messages PROVE WatchOf(x)'
      BY DEF Watched
    <3>1. WatchOf(x)
      BY <1>1 DEF Watched
    <3>2. CASE x # m
      <4>1. Quietly(x)
        BY <2>1, <3>2, QuietOthers
      <4> QED
        BY <1>4, <1>6, <3>1, <3>2, <4>1, WatchFrame DEF effects
    <3>3. CASE x = m
      <4>1. AloneOf(m)'
        <5> SUFFICES ASSUME m \notin overlapped'
                     PROVE  /\ \A f, g \in Handlers : at'[f] \in Unmarked /\ msg'[f] = m
                                    /\ at'[g] \in Unmarked /\ msg'[g] = m => f = g
                            /\ \A g \in Handlers : at'[g] \in New /\ msg'[g] = m /\ m \in placed' => m \in blind'
          BY DEF AloneOf, Unmarked, New
        <5>1. \A g \in Handlers : ~(msg[g] = m /\ at[g] \in Unmarked)
          BY <1>6
        <5>2. \A g \in Handlers : at'[g] \in Unmarked /\ msg'[g] = m => g = h
          BY <2>1, <5>1 DEF Others
        <5>3. \A g \in Handlers : at'[g] \in New => at'[g] \in Unmarked
          BY DEF New, Unmarked
        <5> QED
          BY <1>4, <1>6, <5>2, <5>3
      <4>2. MarkOf(m)'
        BY <1>2, <1>3, <1>4, <2>1, <3>1, <3>3 DEF WatchOf, MarkOf, Marking, Others, effects, ToSet
      <4>3. OnceOf(m)'
        <5>1. \A g \in Handlers : at'[g] \in Bound /\ msg'[g] = m => at[g] \in Bound /\ msg[g] = m
          BY <2>1 DEF Others, Bound
        <5>2. Explained(m) => Explained(m)'
          BY <1>4, <1>6 DEF Explained
        <5> QED
          BY <1>4, <3>1, <3>3, <5>1, <5>2 DEF WatchOf, OnceOf, Bound, effects
      <4> QED
        BY <3>3, <4>1, <4>2, <4>3 DEF WatchOf
    <3> QED
      BY <3>2, <3>3
  <2>7. Heard'
    <3>1. ASSUME NEW x \in placed PROVE HeardOf(x)'
      <4>1. \A g \in Handlers : at[g] \in Marking /\ msg[g] = x => at'[g] \in Marking /\ msg'[g] = x
        BY <1>3, <2>1 DEF Marking, Others
      <4>2. HeardOf(x)
        BY <1>1 DEF Heard
      <4> QED
        BY <1>4, <4>1, <4>2, HeardFrame DEF effects
    <3> QED
      BY <1>1, <1>4, <1>6, <3>1 DEF Heard, ToSet
  <2> QED
    BY <2>2, <2>3, <2>4, <2>5, <2>6, <2>7 DEF BridgeInv
<1> QED
  BY <1>2, <1>5, <1>6 DEF LookCache

LEMMA LookFileKeeps ==
    ASSUME BridgeInv, NEW h \in Handlers, LookFile(h)
    PROVE  BridgeInv'
<1>1. Types /\ Hands /\ Files /\ Paid /\ Watched /\ Heard
  BY DEF BridgeInv
<1>2. PICK m : m = msg[h]
  OBVIOUS
<1>3. /\ m \in Messages /\ at[h] = "look_file" /\ cacheAt' = cacheAt
      /\ UNCHANGED <<config, kind, redis, memory, file, effects, delivered, crashes, histories>>
  BY <1>1, <1>2 DEF LookFile, Hands, HandOf, caches
<1>4. CASE End(h)
  BY <1>1, <1>3, <1>4, EndKeeps DEF Marking, Types
<1>5. CASE /\ ~Contains(file, m) /\ Go(h, "look_file", "obtain") /\ UNCHANGED <<msg, way, text, copy>>
  <2>1. HandTypes' /\ Others(h) /\ at'[h] = "obtain" /\ msg'[h] = m
    BY <1>1, <1>2, <1>5, GoFacts DEF Places
  <2>2. UNCHANGED <<reviews, told, overlapped, placed, blind, dropped, died, unsent>>
    BY <1>3 DEF effects, histories
  <2>3. Types'
    BY <1>1, <1>3, <2>1, <2>2, TypesFrame
  <2>4. Hands'
    BY <1>1, <1>3, <2>1, HandsFrame DEF HandOf
  <2>5. Files'
    BY <1>1, <1>3, <1>5, <2>1, FilesFrame DEF Files
  <2>6. Paid'
    <3>1. \A g \in Handlers : at'[g] \notin {"idle", "reply"} =>
              at[g] \notin {"idle", "reply"} /\ msg'[g] = msg[g]
      BY <1>2, <1>3, <2>1 DEF Others
    <3> QED
      BY <1>1, <1>3, <2>2, <3>1, PaidFrame
  <2>7. Watched'
    <3> SUFFICES ASSUME NEW x \in Messages PROVE WatchOf(x)'
      BY DEF Watched
    <3>1. WatchOf(x)
      BY <1>1 DEF Watched
    <3>2. CASE x # m
      <4>1. Quietly(x)
        BY <2>1, <3>2, QuietOthers
      <4> QED
        BY <1>3, <2>2, <3>1, <4>1, WatchFrame
    <3>3. CASE x = m
      <4>1. m \notin ToSet(file)
        BY <1>1, <1>5 DEF Contains, ToSet, Files, IsFile, IsList
      <4>2. /\ \A g \in Handlers : at'[g] \in Unmarked /\ msg'[g] = m => at[g] \in Unmarked /\ msg[g] = m
            /\ \A g \in Handlers : at'[g] \in New /\ msg'[g] = m => at[g] \in New /\ msg[g] = m
            /\ \A g \in Handlers : at'[g] \in Marking /\ msg'[g] = m => at[g] \in Marking /\ msg[g] = m
            /\ \A g \in Handlers : at'[g] \in {"save", "review"} /\ msg'[g] = m => at[g] \in {"save", "review"} /\ msg[g] = m
        BY <1>2, <1>3, <2>1 DEF Others, Unmarked, New, Marking
      <4>3. AloneOf(m)'
        BY <2>2, <3>1, <3>3, <4>2 DEF WatchOf, AloneOf, Unmarked, New
      <4>4. MarkOf(m)'
        BY <1>3, <2>2, <3>1, <3>3, <4>2 DEF WatchOf, MarkOf, Marking, ToSet
      <4>5. OnceOf(m)'
        <5> SUFFICES ASSUME ~Explained(m) PROVE OnceOf(m)'
          BY <2>2 DEF OnceOf, Explained
        <5>1. AloneOf(m) /\ MarkOf(m) /\ OnceOf(m)
          BY <3>1, <3>3 DEF WatchOf
        <5>2. m \notin overlapped /\ (m \in blind => m \notin dropped)
          BY DEF Explained
        <5>3. m \in placed => m \notin dropped
          BY <1>2, <1>3, <5>1, <5>2 DEF AloneOf, New
        <5>4. reviews[m] \in Nat /\ ~(reviews[m] > 0)
          BY <1>1, <1>3, <4>1, <5>1, <5>3 DEF MarkOf, Types
        <5>5. \A g \in Handlers : ~(at[g] \in {"save", "review"} /\ msg[g] = m)
          BY <4>1, <5>1, <5>3 DEF MarkOf, Marking
        <5>6. \A g \in Handlers : at[g] \in Bound /\ msg[g] = m => g = h
          BY <1>2, <1>3, <5>1, <5>2, <5>5 DEF AloneOf, Unmarked, Bound
        <5>7. \A g \in Handlers : at'[g] \in Bound /\ msg'[g] = m => g = h
          BY <2>1, <5>6 DEF Others
        <5>8. reviews'[m] = 0
          BY <2>2, <5>4
        <5> QED
          BY <5>7, <5>8 DEF OnceOf, Bound
      <4> QED
        BY <3>3, <4>3, <4>4, <4>5 DEF WatchOf
    <3> QED
      BY <3>2, <3>3
  <2>8. Heard'
    <3>1. ASSUME NEW x \in placed PROVE HeardOf(x)'
      <4>1. \A g \in Handlers : at[g] \in Marking /\ msg[g] = x => at'[g] \in Marking /\ msg'[g] = x
        BY <1>3, <2>1 DEF Marking, Others
      <4>2. HeardOf(x)
        BY <1>1 DEF Heard
      <4> QED
        BY <1>3, <2>2, <4>1, <4>2, HeardFrame
    <3> QED
      BY <1>1, <1>3, <1>5, <2>2, <3>1 DEF Heard, ToSet
  <2> QED
    BY <2>3, <2>4, <2>5, <2>6, <2>7, <2>8 DEF BridgeInv
<1> QED
  BY <1>2, <1>4, <1>5 DEF LookFile

LEMMA ObtainKeeps ==
    ASSUME BridgeInv, NEW h \in Handlers, Obtain(h)
    PROVE  BridgeInv'
<1>1. Types /\ Hands /\ Files
  BY DEF BridgeInv
<1>2. PICK w \in Read(kind[msg[h]]) : way' = [way EXCEPT ![h] = w]
  BY DEF Obtain
<1>3. /\ at[h] = "obtain" /\ at' = [at EXCEPT ![h] = "mark_cache"]
      /\ UNCHANGED <<config, kind, msg, text, copy, caches, file, effects, delivered, crashes, histories>>
  BY DEF Obtain, Go
<1>4. w \in Ways
  BY <1>2 DEF Read
<1>5. /\ at' \in [Handlers -> Places] /\ way' \in [Handlers -> Ways] /\ at'[h] = "mark_cache" /\ way'[h] = w
      /\ \A g \in Handlers : g # h => at'[g] = at[g] /\ way'[g] = way[g]
  BY <1>1, <1>2, <1>3, <1>4 DEF Types, Places
<1>6. HandTypes' /\ Others(h)
  BY <1>1, <1>3, <1>5 DEF Types, Files, HandTypes, Others, Told
<1>7. HandOf(h)'
  BY <1>1, <1>2, <1>3, <1>5 DEF Hands, HandOf, Read
<1>8. <<at[h], at'[h]>> \in Quiet
  BY <1>3, <1>5 DEF Quiet
<1> QED
  BY <1>3, <1>5, <1>6, <1>7, <1>8, QuietKeeps

LEMMA MarkReadKeeps ==
    ASSUME BridgeInv, NEW h \in Handlers, MarkRead(h)
    PROVE  BridgeInv'
<1>1. Types /\ Hands /\ Files
  BY DEF BridgeInv
<1>2. /\ at[h] = "mark_read" /\ at' = [at EXCEPT ![h] = "mark_write"] /\ copy' = [copy EXCEPT ![h] = file]
      /\ UNCHANGED <<config, kind, msg, way, text, caches, file, effects, delivered, crashes, histories>>
  BY DEF MarkRead, Go
<1>3. /\ at' \in [Handlers -> Places] /\ at'[h] = "mark_write"
      /\ \A g \in Handlers : g # h => at'[g] = at[g]
  BY <1>1, <1>2 DEF Types, Places
<1>4. copy' = [g \in Handlers |-> copy'[g]] /\ copy'[h] = file /\ \A g \in Handlers : g # h => copy'[g] = copy[g]
  BY <1>1, <1>2 DEF Files
<1>5. HandTypes' /\ Others(h)
  BY <1>1, <1>2, <1>3, <1>4 DEF Types, HandTypes, Others, Told, Ways
<1>6. HandOf(h)'
  BY <1>1, <1>2, <1>3 DEF Hands, HandOf, Read
<1>7. <<at[h], at'[h]>> \in Quiet
  BY <1>2, <1>3 DEF Quiet
<1> QED
  BY <1>2, <1>3, <1>4, <1>5, <1>6, <1>7, QuietKeeps

LEMMA SaveKeeps ==
    ASSUME BridgeInv, NEW h \in Handlers, Save(h)
    PROVE  BridgeInv'
<1>1. Types /\ Hands /\ Files
  BY DEF BridgeInv
<1>2. /\ Go(h, "save", "review")
      /\ UNCHANGED <<config, kind, msg, way, text, copy, caches, file, effects, delivered, crashes, histories>>
  BY DEF Save
<1>3. HandTypes' /\ Others(h) /\ at[h] = "save" /\ at'[h] = "review"
  BY <1>1, <1>2, GoFacts DEF Places
<1>4. HandOf(h)'
  BY <1>1, <1>2, <1>3 DEF Hands, HandOf
<1>5. <<at[h], at'[h]>> \in Quiet
  BY <1>3 DEF Quiet
<1> QED
  BY <1>2, <1>3, <1>4, <1>5, QuietKeeps

LEMMA EscapeKeeps ==
    ASSUME BridgeInv, NEW h \in Handlers, Escape(h)
    PROVE  BridgeInv'
<1>1. at[h] \notin Marking /\ cacheAt' \in [Processes -> {"none", "redis", "memory"}]
  BY DEF Escape, Marking, BridgeInv, Types, caches
<1> QED
  BY <1>1, EndKeeps DEF Escape, caches

LEMMA MarkCacheKeeps ==
    ASSUME BridgeInv, NEW h \in Handlers, MarkCache(h)
    PROVE  BridgeInv'
<1>1. Types /\ Hands /\ Files /\ Paid /\ Watched /\ Heard
  BY DEF BridgeInv
<1>2. PICK m, p : m = msg[h] /\ p = ProcessOf[h]
  OBVIOUS
<1>3. /\ Go(h, "mark_cache", "mark_read") /\ placed' = placed \cup {m}
      /\ UNCHANGED <<config, kind, msg, way, text, copy, cacheAt, file, reviews, told, delivered, crashes,
                     overlapped, blind, dropped, died, unsent>>
  BY <1>2 DEF MarkCache, effects
<1>4. HandTypes' /\ Others(h) /\ at[h] = "mark_cache" /\ at'[h] = "mark_read" /\ msg'[h] = m
  BY <1>1, <1>2, <1>3, GoFacts DEF Places
<1>5. m \in Messages /\ p \in Processes
  BY <1>1, <1>2, <1>4, BridgeAssumption DEF Hands, HandOf
<1>6. redis' \subseteq redis \union {m} /\ memory' \in [Processes -> SUBSET Messages]
  <2>1. \/ redis' = redis \cup {m} /\ UNCHANGED memory
        \/ memory' = [memory EXCEPT ![p] = @ \cup {m}] /\ UNCHANGED redis
    BY <1>2 DEF MarkCache
  <2>2. memory[p] \cup {m} \in SUBSET Messages
    BY <1>1, <1>5 DEF Types
  <2> QED
    BY <1>1, <2>1, <2>2 DEF Types
<1>7. Types'
  BY <1>1, <1>3, <1>4, <1>5, <1>6 DEF Types, HandTypes, Told, Configs, Kinds
<1>8. Hands'
  BY <1>1, <1>3, <1>4, HandsFrame DEF Hands, HandOf, Read
<1>9. Files'
  BY <1>1, <1>3, <1>4, FilesFrame DEF Files
<1>10. Paid'
  <2>1. \A g \in Handlers : at'[g] \notin {"idle", "reply"} =>
            at[g] \notin {"idle", "reply"} /\ msg'[g] = msg[g]
    BY <1>2, <1>4 DEF Others
  <2> QED
    BY <1>1, <1>3, <2>1, PaidFrame
<1>11. Watched'
  <2> SUFFICES ASSUME NEW x \in Messages PROVE WatchOf(x)'
    BY DEF Watched
  <2>1. WatchOf(x)
    BY <1>1 DEF Watched
  <2>2. CASE x # m
    <3>1. Quietly(x)
      BY <1>4, <2>2 DEF Quietly, Others
    <3> QED
      BY <1>3, <2>1, <2>2, <3>1, WatchFrame
  <2>3. CASE x = m
    <3>1. AloneOf(m) /\ MarkOf(m) /\ OnceOf(m)
      BY <2>1, <2>3 DEF WatchOf
    <3>2. \A g \in Handlers : at'[g] \in Unmarked /\ msg'[g] = m => at[g] \in Unmarked /\ msg[g] = m
      BY <1>2, <1>4 DEF Others, Unmarked
    <3>3. AloneOf(m)'
      <4> SUFFICES ASSUME m \notin overlapped
                   PROVE  /\ \A f, g \in Handlers : at'[f] \in Unmarked /\ msg'[f] = m
                                  /\ at'[g] \in Unmarked /\ msg'[g] = m => f = g
                          /\ \A g \in Handlers : at'[g] \in New /\ msg'[g] = m => FALSE
        BY <1>3 DEF AloneOf, Unmarked, New
      <4>1. \A f, g \in Handlers : at[f] \in Unmarked /\ msg[f] = m /\ at[g] \in Unmarked /\ msg[g] = m => f = g
        BY <3>1 DEF AloneOf
      <4>2. at[h] \in Unmarked /\ msg[h] = m /\ at'[h] \notin New
        BY <1>2, <1>4 DEF Unmarked, New
      <4>3. \A g \in Handlers : at'[g] \in New => at'[g] \in Unmarked
        BY DEF New, Unmarked
      <4> QED
        BY <3>2, <4>1, <4>2, <4>3
    <3>4. MarkOf(m)'
      <4>1. \A g \in Handlers : at'[g] \in {"save", "review"} /\ msg'[g] = m => at[g] \in {"save", "review"} /\ msg[g] = m
        BY <1>4 DEF Others
      <4> QED
        BY <1>3, <3>1, <4>1 DEF MarkOf, Marking, ToSet
    <3>5. OnceOf(m)'
      <4>1. \A g \in Handlers : at'[g] \in Bound /\ msg'[g] = m => at[g] \in Bound /\ msg[g] = m
        BY <1>2, <1>4 DEF Others, Bound
      <4> QED
        BY <1>3, <3>1, <4>1 DEF OnceOf, Explained, Bound
    <3> QED
      BY <2>3, <3>3, <3>4, <3>5 DEF WatchOf
  <2> QED
    BY <2>2, <2>3
<1>12. Heard'
  <2>1. ASSUME NEW x \in placed PROVE HeardOf(x)'
    <3>1. \A g \in Handlers : at[g] \in Marking /\ msg[g] = x => at'[g] \in Marking /\ msg'[g] = x
      BY <1>4 DEF Marking, Others
    <3>2. HeardOf(x)
      BY <1>1 DEF Heard
    <3> QED
      BY <1>3, <3>1, <3>2, HeardFrame
  <2>2. HeardOf(m)'
    BY <1>4 DEF HeardOf, Marking
  <2> QED
    BY <1>1, <1>3, <1>6, <2>1, <2>2 DEF Heard, ToSet
<1> QED
  BY <1>7, <1>8, <1>9, <1>10, <1>11, <1>12 DEF BridgeInv

LEMMA MarkWriteKeeps ==
    ASSUME BridgeInv, NEW h \in Handlers, MarkWrite(h)
    PROVE  BridgeInv'
<1>1. Types /\ Hands /\ Files /\ Paid /\ Watched /\ Heard
  BY DEF BridgeInv
<1>2. PICK m, w, marked : m = msg[h] /\ w = way[h] /\ marked = Marked(copy[h], msg[h])
  OBVIOUS
<1>3. /\ at[h] = "mark_write" /\ file' = marked /\ dropped' = dropped \cup (ToSet(file) \ ToSet(marked))
      /\ UNCHANGED <<config, kind, cacheAt, redis, memory, reviews, told, delivered, crashes,
                     overlapped, placed, blind, died, unsent>>
  BY <1>2 DEF MarkWrite, caches, effects
<1>4. m \in Messages /\ w \in Read(kind[m]) /\ m \in placed
  <2>1. m \in Messages /\ w \in Read(kind[m])
    BY <1>1, <1>2, <1>3 DEF Hands, HandOf
  <2>2. WatchOf(m)
    BY <1>1, <2>1 DEF Watched
  <2> QED
    BY <1>2, <1>3, <2>1, <2>2 DEF WatchOf, MarkOf, Marking
<1>5. /\ IsFile(marked) /\ m \in ToSet(marked)
      /\ ToSet(marked) \subseteq ToSet(copy[h]) \union {m}
  BY <1>1, <1>2, <1>4, MarkedList DEF Files, IsFile
<1>6. /\ HandTypes' /\ Others(h) /\ copy'[h] = <<>>
      /\ \/ /\ at'[h] = "idle"
            /\ ~config.auto_reply \/ kind[m] = "silent"
         \/ at'[h] = "reply" /\ msg'[h] = m /\ text'[h] \in Told
         \/ at'[h] \in {"save", "review"} /\ msg'[h] = m
  <2>1. CASE (w = "ignore" \/ (w \in {"refuse", "failed"} /\ ~config.auto_reply)) /\ End(h)
    <3>1. w = "ignore" => kind[m] = "silent"
      BY <1>4 DEF Read
    <3> QED
      BY <1>1, <2>1, <3>1, EndFacts
  <2>2. CASE /\ Go(h, "mark_write", "reply")
             /\ text' = [text EXCEPT ![h] = IF w = "refuse" THEN "refusal" ELSE "failure"]
             /\ copy' = [copy EXCEPT ![h] = <<>>]
             /\ UNCHANGED <<msg, way>>
    <3>1. PICK t \in Told : text' = [text EXCEPT ![h] = t]
      BY <2>2 DEF Told
    <3>2. text' \in [Handlers -> Told \union {"none"}] /\ text'[h] = t /\ \A g \in Handlers : g # h => text'[g] = text[g]
      BY <1>1, <3>1 DEF Types
    <3>3. copy' = [g \in Handlers |-> copy'[g]] /\ copy'[h] = <<>> /\ \A g \in Handlers : g # h => copy'[g] = copy[g]
      BY <1>1, <2>2 DEF Files
    <3>4. at' \in [Handlers -> Places] /\ at'[h] = "reply" /\ \A g \in Handlers : g # h => at'[g] = at[g]
      BY <1>1, <2>2 DEF Types, Places, Go
    <3> QED
      BY <1>1, <1>2, <2>2, <3>2, <3>3, <3>4 DEF Types, HandTypes, Others, Told, Ways
  <2>3. CASE /\ Go(h, "mark_write", IF w = "record" THEN "review" ELSE "save")
             /\ copy' = [copy EXCEPT ![h] = <<>>]
             /\ UNCHANGED <<msg, way, text>>
    <3>1. PICK to \in {"save", "review"} : at' = [at EXCEPT ![h] = to]
      BY <2>3 DEF Go
    <3>2. copy' = [g \in Handlers |-> copy'[g]] /\ copy'[h] = <<>> /\ \A g \in Handlers : g # h => copy'[g] = copy[g]
      BY <1>1, <2>3 DEF Files
    <3>3. at' \in [Handlers -> Places] /\ at'[h] = to /\ \A g \in Handlers : g # h => at'[g] = at[g]
      BY <1>1, <3>1 DEF Types, Places
    <3> QED
      BY <1>1, <1>2, <2>3, <3>2, <3>3 DEF Types, HandTypes, Others, Told, Ways
  <2> QED
    BY <1>2, <2>1, <2>2, <2>3 DEF MarkWrite
<1>7. Types'
  <2>1. dropped' \subseteq Messages
    BY <1>1, <1>3 DEF Types, Files, IsFile, IsList, ToSet
  <2> QED
    BY <1>1, <1>3, <1>6, <2>1 DEF Types, HandTypes, Told, Configs, Kinds
<1>8. Hands'
  BY <1>1, <1>3, <1>4, <1>6, HandsFrame DEF HandOf
<1>9. Files'
  BY <1>1, <1>3, <1>5, <1>6, NothingIsFile, FilesFrame
<1>10. Paid'
  <2>1. \A g \in Handlers : at'[g] \notin {"idle", "reply"} =>
            at[g] \notin {"idle", "reply"} /\ msg'[g] = msg[g]
    BY <1>2, <1>3, <1>6 DEF Others
  <2> QED
    BY <1>1, <1>3, <2>1, PaidFrame
<1>11. Watched'
  <2> SUFFICES ASSUME NEW x \in Messages PROVE WatchOf(x)'
    BY DEF Watched
  <2>1. WatchOf(x)
    BY <1>1 DEF Watched
  <2>2. CASE x # m
    <3>1. Quietly(x)
      BY <1>6, <2>2 DEF Quietly, Others
    <3>2. x \in ToSet(file) \union dropped => x \in ToSet(file') \union dropped'
      BY <1>3
    <3> QED
      BY <1>3, <2>1, <2>2, <3>1, <3>2, WatchFrame
  <2>3. CASE x = m
    <3>1. AloneOf(m) /\ MarkOf(m) /\ OnceOf(m)
      BY <2>1, <2>3 DEF WatchOf
    <3>2. \A g \in Handlers : at'[g] \in Unmarked /\ msg'[g] = m => at[g] \in Unmarked /\ msg[g] = m
      BY <1>6 DEF Others, Unmarked
    <3>3. \A g \in Handlers : at'[g] \in New /\ msg'[g] = m => at[g] \in New /\ msg[g] = m
      BY <1>6 DEF Others, New
    <3>4. \A g \in Handlers : at'[g] \in Bound /\ msg'[g] = m => at[g] \in Bound /\ msg[g] = m
      BY <1>2, <1>3, <1>6 DEF Others, Bound
    <3>5. AloneOf(m)'
      BY <1>3, <3>1, <3>2, <3>3 DEF AloneOf, Unmarked, New
    <3>6. MarkOf(m)'
      BY <1>3, <1>4, <1>5 DEF MarkOf, Marking
    <3>7. OnceOf(m)'
      BY <1>3, <3>1, <3>4 DEF OnceOf, Explained, Bound
    <3> QED
      BY <2>3, <3>5, <3>6, <3>7 DEF WatchOf
  <2> QED
    BY <2>2, <2>3
<1>12. Heard'
  <2>1. ASSUME NEW x \in placed PROVE HeardOf(x)'
    <3>1. \A g \in Handlers : at[g] \in Marking /\ msg[g] = x =>
              \/ at'[g] \in Marking /\ msg'[g] = x
              \/ ~config.auto_reply \/ kind[x] = "silent"
      BY <1>2, <1>6 DEF Marking, Others
    <3>2. HeardOf(x)
      BY <1>1 DEF Heard
    <3> QED
      BY <1>3, <3>1, <3>2, HeardFrame
  <2>2. ToSet(<<>>) = {}
    BY DEF ToSet
  <2>3. ToSet(file') \subseteq placed
    BY <1>1, <1>3, <1>4, <1>5 DEF Heard
  <2>4. \A g \in Handlers : ToSet(copy'[g]) \subseteq placed
    BY <1>1, <1>6, <2>2 DEF Heard, Others
  <2> QED
    BY <1>1, <1>3, <2>1, <2>3, <2>4 DEF Heard, ToSet
<1> QED
  BY <1>7, <1>8, <1>9, <1>10, <1>11, <1>12 DEF BridgeInv

\* A handler comes to the end of a review, or fails in it or before.
LEMMA ReviewWatched ==
    ASSUME Types, Hands, Watched, NEW h \in Handlers, at[h] \in {"save", "review"}, Others(h),
           at'[h] = "idle" \/ (at'[h] = "reply" /\ msg'[h] = msg[h]),
           reviews' = reviews \/ reviews' = [reviews EXCEPT ![msg[h]] = @ + 1],
           UNCHANGED <<file, overlapped, placed, blind, dropped>>
    PROVE  Watched'
<1>1. PICK m \in Messages : m = msg[h]
  BY DEF Hands, HandOf
<1> SUFFICES ASSUME NEW x \in Messages PROVE WatchOf(x)'
  BY DEF Watched
<1>2. WatchOf(x) /\ reviews[x] \in Nat
  BY DEF Watched, Types
<1>3. CASE reviews'[x] = reviews[x]
  <2>1. Quietly(x)
    BY <1>1 DEF Quietly, Others, Quiet, Marking
  <2> QED
    BY <1>2, <1>3, <2>1, WatchFrame
<1>4. CASE x = m /\ reviews'[x] = reviews[x] + 1
  <2>1. AloneOf(m) /\ MarkOf(m) /\ OnceOf(m)
    BY <1>2, <1>4 DEF WatchOf
  <2>2. /\ \A g \in Handlers : at'[g] \in Unmarked /\ msg'[g] = m => at[g] \in Unmarked /\ msg[g] = m
        /\ \A g \in Handlers : at'[g] \in New /\ msg'[g] = m => at[g] \in New /\ msg[g] = m
        /\ \A g \in Handlers : at'[g] \in Bound /\ msg'[g] = m => at[g] \in Bound /\ msg[g] = m /\ g # h
    BY DEF Others, Unmarked, New, Bound
  <2>3. m \in placed /\ m \in ToSet(file) \union dropped
    BY <1>1, <2>1 DEF MarkOf, Marking
  <2>4. AloneOf(m)'
    BY <2>1, <2>2 DEF AloneOf, Unmarked, New
  <2>5. MarkOf(m)'
    BY <2>3 DEF MarkOf, Marking, ToSet
  <2>6. OnceOf(m)'
    <3> SUFFICES ASSUME ~Explained(m) PROVE OnceOf(m)'
      BY DEF OnceOf, Explained
    <3>1. at[h] \in Bound /\ msg[h] = m
      BY <1>1 DEF Bound
    <3>2. reviews[m] = 0 /\ \A g \in Handlers : at[g] \in Bound /\ msg[g] = m => g = h
      BY <2>1, <3>1 DEF OnceOf
    <3>3. reviews'[m] = 1
      BY <1>4, <3>2
    <3>4. \A g \in Handlers : ~(at'[g] \in Bound /\ msg'[g] = m)
      BY <2>2, <3>2
    <3> QED
      BY <3>3, <3>4 DEF OnceOf, Bound
  <2> QED
    BY <1>4, <2>4, <2>5, <2>6 DEF WatchOf
<1>5. reviews'[x] = reviews[x] \/ (x = m /\ reviews'[x] = reviews[x] + 1)
  BY <1>1 DEF Types
<1> QED
  BY <1>3, <1>4, <1>5

\* A handler that has saved or reviewed, and may go on to its reply.
LEMMA DoneKeeps ==
    ASSUME BridgeInv, NEW h \in Handlers, at[h] \in {"save", "review"}, HandTypes', Others(h), HandOf(h)',
           \/ at'[h] = "idle" /\ copy'[h] = <<>> /\ (~config.auto_reply \/ msg[h] \in died')
           \/ at'[h] = "reply" /\ msg'[h] = msg[h] /\ copy'[h] = copy[h],
           reviews' = reviews \/ reviews' = [reviews EXCEPT ![msg[h]] = @ + 1],
           died \subseteq died', died' \subseteq died \union {msg[h]},
           UNCHANGED <<config, kind, caches, file, told, delivered, crashes, overlapped, placed, blind, dropped, unsent>>
    PROVE  BridgeInv'
<1>1. Types /\ Hands /\ Files /\ Paid /\ Watched /\ Heard
  BY DEF BridgeInv
<1>2. PICK m \in Messages : m = msg[h]
  BY <1>1 DEF Hands, HandOf
<1>3. UNCHANGED <<cacheAt, redis, memory>>
  BY DEF caches
<1>4. Types'
  <2>1. reviews[m] + 1 \in Nat
    BY <1>1 DEF Types
  <2>2. reviews' \in [Messages -> Nat]
    BY <1>1, <1>2, <2>1 DEF Types
  <2> QED
    BY <1>1, <1>2, <1>3, <2>2 DEF Types, HandTypes, Told, Configs, Kinds
<1>5. Hands'
  BY <1>1, HandsFrame
<1>6. Files'
  BY <1>1, NothingIsFile, FilesFrame DEF Files
<1>7. Paid'
  <2>1. CASE reviews' = reviews
    <3>1. \A g \in Handlers : at'[g] \notin {"idle", "reply"} =>
              at[g] \notin {"idle", "reply"} /\ msg'[g] = msg[g]
      BY DEF Others
    <3> QED
      BY <1>1, <2>1, <3>1, PaidFrame
  <2>2. CASE reviews' = [reviews EXCEPT ![msg[h]] = @ + 1]
    BY <1>1, <1>2, <2>2, ReviewPaid
  <2> QED
    BY <2>1, <2>2
<1>8. Watched'
  BY <1>1, ReviewWatched
<1>9. Heard'
  <2>1. ASSUME NEW x \in placed PROVE HeardOf(x)'
    <3>1. \A g \in Handlers : at[g] \in Marking /\ msg[g] = x =>
              \/ at'[g] \in Marking /\ msg'[g] = x
              \/ x \in died' \/ ~config.auto_reply
      BY DEF Marking, Others
    <3>2. HeardOf(x)
      BY <1>1 DEF Heard
    <3> QED
      BY <3>1, <3>2, HeardFrame
  <2>2. ToSet(<<>>) = {}
    BY DEF ToSet
  <2>3. \A g \in Handlers : ToSet(copy'[g]) \subseteq placed
    BY <1>1, <2>2 DEF Heard, Others
  <2> QED
    BY <1>1, <1>3, <2>1, <2>3 DEF Heard, ToSet
<1> QED
  BY <1>4, <1>5, <1>6, <1>7, <1>8, <1>9 DEF BridgeInv

LEMMA ReviewKeeps ==
    ASSUME BridgeInv, NEW h \in Handlers, Review(h)
    PROVE  BridgeInv'
<1>1. Types /\ Hands /\ Files
  BY DEF BridgeInv
<1>2. /\ at[h] = "review"
      /\ reviews' = reviews \/ reviews' = [reviews EXCEPT ![msg[h]] = @ + 1]
      /\ UNCHANGED <<config, kind, caches, file, told, delivered, crashes, overlapped, placed, blind, dropped, died, unsent>>
  BY DEF Review, histories
<1>3. msg[h] \in Messages
  BY <1>1, <1>2 DEF Hands, HandOf
<1>4. CASE ~config.auto_reply
  <2>1. HandTypes' /\ Others(h) /\ at'[h] = "idle" /\ copy'[h] = <<>>
    BY <1>1, <1>4, EndFacts DEF Review
  <2>2. HandOf(h)'
    BY <2>1 DEF HandOf
  <2> QED
    BY <1>2, <1>4, <2>1, <2>2, DoneKeeps
<1>5. CASE config.auto_reply
  <2>1. /\ at' = [at EXCEPT ![h] = "reply"] /\ text' = [text EXCEPT ![h] = Announced]
        /\ UNCHANGED <<msg, way, copy>>
    BY <1>5 DEF Review, Go
  <2>2. Announced \in Told
    BY DEF Announced, Told
  <2>3. text' \in [Handlers -> Told \union {"none"}] /\ text'[h] \in Told /\ \A g \in Handlers : g # h => text'[g] = text[g]
    BY <1>1, <2>1, <2>2 DEF Types
  <2>4. at' \in [Handlers -> Places] /\ at'[h] = "reply" /\ \A g \in Handlers : g # h => at'[g] = at[g]
    BY <1>1, <2>1 DEF Types, Places
  <2>5. HandTypes' /\ Others(h)
    BY <1>1, <2>1, <2>3, <2>4 DEF Types, Files, HandTypes, Others, Told, Ways
  <2>6. HandOf(h)'
    BY <1>3, <2>1, <2>3, <2>4 DEF HandOf, Told
  <2> QED
    BY <1>2, <2>1, <2>4, <2>5, <2>6, DoneKeeps
<1> QED
  BY <1>4, <1>5

LEMMA RaiseKeeps ==
    ASSUME BridgeInv, NEW h \in Handlers, Raise(h)
    PROVE  BridgeInv'
<1>1. Types /\ Hands /\ Files
  BY DEF BridgeInv
<1>2. /\ at[h] \in {"save", "review"} /\ died' = died \cup {msg[h]}
      /\ reviews' = reviews \/ reviews' = [reviews EXCEPT ![msg[h]] = @ + 1]
      /\ UNCHANGED <<config, kind, caches, file, told, delivered, crashes, overlapped, placed, blind, dropped, unsent>>
  BY DEF Raise
<1>3. HandTypes' /\ Others(h) /\ at'[h] = "idle" /\ copy'[h] = <<>>
  BY <1>1, EndFacts DEF Raise
<1>4. HandOf(h)'
  BY <1>3 DEF HandOf
<1> QED
  BY <1>2, <1>3, <1>4, DoneKeeps

LEMMA ReplyKeeps ==
    ASSUME BridgeInv, NEW h \in Handlers, Reply(h)
    PROVE  BridgeInv'
<1>1. Types /\ Hands /\ Files /\ Paid /\ Watched /\ Heard
  BY DEF BridgeInv
<1>2. /\ at[h] = "reply" /\ End(h)
      /\ UNCHANGED <<config, kind, cacheAt, redis, memory, file, reviews, delivered, crashes,
                     overlapped, placed, blind, dropped, died>>
  BY DEF Reply, caches
<1>3. PICK m \in Messages, t \in Told : m = msg[h] /\ t = text[h]
  BY <1>1, <1>2 DEF Hands, HandOf
<1>4. \/ told' = [told EXCEPT ![m] = @ \cup {t}] /\ unsent' = unsent
      \/ unsent' = unsent \cup {m} /\ told' = told
  BY <1>3 DEF Reply
<1>5. /\ told' \in [Messages -> SUBSET Told] /\ unsent \subseteq unsent' /\ unsent' \subseteq Messages
      /\ \A x \in Messages : told[x] # {} => told'[x] # {}
      /\ told'[m] # {} \/ m \in unsent'
  <2>1. PICK all : all = told[m] \cup {t} /\ all \in SUBSET Told /\ all # {}
    <3>1. PICK all : all = told[m] \cup {t}
      OBVIOUS
    <3>2. told[m] \in SUBSET Told
      BY <1>1 DEF Types
    <3>3. t \in all /\ all \subseteq Told
      BY <3>1, <3>2
    <3> QED
      BY <3>1, <3>3
  <2>2. told \in [Messages -> SUBSET Told] /\ unsent \subseteq Messages
    BY <1>1 DEF Types
  <2>3. CASE told' = [told EXCEPT ![m] = all] /\ unsent' = unsent
    <3>1. told' \in [Messages -> SUBSET Told]
      BY <2>1, <2>2, <2>3
    <3>2. told'[m] = all /\ \A x \in Messages : x # m => told'[x] = told[x]
      BY <2>2, <2>3
    <3> QED
      BY <2>1, <2>2, <2>3, <3>1, <3>2
  <2>4. CASE unsent' = unsent \cup {m} /\ told' = told
    BY <2>2, <2>4
  <2> QED
    BY <1>4, <2>1, <2>3, <2>4
<1>6. HandTypes' /\ Others(h) /\ at'[h] = "idle" /\ copy'[h] = <<>>
  BY <1>1, <1>2, EndFacts
<1>7. Types'
  BY <1>1, <1>2, <1>5, <1>6 DEF Types, HandTypes, Told, Configs, Kinds
<1>8. Hands'
  BY <1>1, <1>2, <1>6, HandsFrame DEF HandOf
<1>9. Files'
  BY <1>1, <1>2, <1>6, NothingIsFile, FilesFrame DEF Files
<1>10. Paid'
  <2>1. \A g \in Handlers : at'[g] \notin {"idle", "reply"} =>
            at[g] \notin {"idle", "reply"} /\ msg'[g] = msg[g]
    BY <1>6 DEF Others
  <2> QED
    BY <1>1, <1>2, <2>1, PaidFrame
<1>11. Watched'
  <2> SUFFICES ASSUME NEW x \in Messages PROVE WatchOf(x)'
    BY DEF Watched
  <2>1. Quietly(x)
    BY <1>6 DEF Quietly, Others
  <2>2. WatchOf(x)
    BY <1>1 DEF Watched
  <2> QED
    BY <1>2, <2>1, <2>2, WatchFrame
<1>12. Heard'
  <2>1. ASSUME NEW x \in placed PROVE HeardOf(x)'
    <3>1. x \in Messages
      BY <1>1 DEF Types
    <3>2. \A g \in Handlers : at[g] \in Marking /\ msg[g] = x =>
              \/ at'[g] \in Marking /\ msg'[g] = x
              \/ told'[x] # {} \/ x \in unsent'
      BY <1>3, <1>5, <1>6 DEF Others
    <3>3. HeardOf(x)
      BY <1>1 DEF Heard
    <3> QED
      BY <1>2, <1>5, <3>1, <3>2, <3>3, HeardFrame
  <2>2. ToSet(<<>>) = {}
    BY DEF ToSet
  <2>3. \A g \in Handlers : ToSet(copy'[g]) \subseteq placed
    BY <1>1, <1>6, <2>2 DEF Heard, Others
  <2> QED
    BY <1>1, <1>2, <2>1, <2>3 DEF Heard, ToSet
<1> QED
  BY <1>7, <1>8, <1>9, <1>10, <1>11, <1>12 DEF BridgeInv

LEMMA CrashKeeps ==
    ASSUME BridgeInv, NEW p \in Processes, Crash(p)
    PROVE  BridgeInv'
<1>1. Types /\ Hands /\ Files /\ Paid /\ Watched /\ Heard
  BY DEF BridgeInv
<1>2. PICK hs : hs = {h \in Handlers : ProcessOf[h] = p}
  OBVIOUS
<1>3. /\ crashes < MaxCrashes /\ crashes' = crashes + 1 /\ Rest(hs)
      /\ died' = died \cup {msg[h] : h \in {g \in hs : at[g] \in Marking}}
      /\ cacheAt' = [cacheAt EXCEPT ![p] = "none"] /\ memory' = [memory EXCEPT ![p] = {}]
      /\ UNCHANGED <<config, kind, redis, file, reviews, told, delivered,
                     overlapped, placed, blind, dropped, unsent>>
  BY <1>2 DEF Crash, effects
<1>4. /\ HandTypes'
      /\ \A h \in Handlers : h \in hs => at'[h] = "idle" /\ copy'[h] = <<>>
      /\ \A h \in Handlers : h \notin hs =>
             /\ at'[h] = at[h] /\ msg'[h] = msg[h]
             /\ way'[h] = way[h] /\ text'[h] = text[h] /\ copy'[h] = copy[h]
  BY <1>1, <1>3, RestFacts
<1>5. Types'
  <2>1. died' \subseteq Messages
    BY <1>1, <1>2, <1>3 DEF Types, Hands, HandOf, Marking
  <2>2. crashes' \in 0 .. MaxCrashes
    BY <1>1, <1>3, BridgeAssumption DEF Types
  <2>3. /\ cacheAt' \in [Processes -> {"none", "redis", "memory"}]
        /\ memory' \in [Processes -> SUBSET Messages]
    BY <1>1, <1>3 DEF Types
  <2> QED
    BY <1>1, <1>3, <1>4, <2>1, <2>2, <2>3 DEF Types, HandTypes, Told, Configs, Kinds
<1>6. Hands'
  <2> SUFFICES ASSUME NEW h \in Handlers PROVE HandOf(h)'
    BY DEF Hands
  <2>1. CASE h \in hs
    BY <1>4, <2>1 DEF HandOf
  <2>2. CASE h \notin hs
    BY <1>1, <1>3, <1>4, <2>2 DEF Hands, HandOf, Read, Ways, Told
  <2> QED
    BY <2>1, <2>2
<1>7. Files'
  <2>1. \A h \in Handlers : IsFile(copy'[h])
    BY <1>1, <1>4, NothingIsFile DEF Files
  <2> QED
    BY <1>1, <1>3, <1>4, <2>1 DEF Files, HandTypes, IsFile, IsList
<1>8. Paid'
  <2>1. \A g \in Handlers : at'[g] \notin {"idle", "reply"} =>
            at[g] \notin {"idle", "reply"} /\ msg'[g] = msg[g]
    BY <1>4
  <2> QED
    BY <1>1, <1>3, <2>1, PaidFrame
<1>9. Watched'
  <2> SUFFICES ASSUME NEW x \in Messages PROVE WatchOf(x)'
    BY DEF Watched
  <2>1. Quietly(x)
    BY <1>4 DEF Quietly
  <2>2. WatchOf(x)
    BY <1>1 DEF Watched
  <2> QED
    BY <1>3, <2>1, <2>2, WatchFrame
<1>10. Heard'
  <2>1. ASSUME NEW x \in placed PROVE HeardOf(x)'
    <3>1. \A g \in Handlers : at[g] \in Marking /\ msg[g] = x =>
              (at'[g] \in Marking /\ msg'[g] = x) \/ x \in died'
      BY <1>3, <1>4
    <3>2. HeardOf(x)
      BY <1>1 DEF Heard
    <3> QED
      BY <1>3, <3>1, <3>2, HeardFrame
  <2>2. ToSet(<<>>) = {}
    BY DEF ToSet
  <2>3. \A g \in Handlers : ToSet(copy'[g]) \subseteq placed
    BY <1>1, <1>4, <2>2 DEF Heard
  <2> QED
    BY <1>1, <1>3, <2>1, <2>3 DEF Heard, ToSet
<1> QED
  BY <1>5, <1>6, <1>7, <1>8, <1>9, <1>10 DEF BridgeInv

LEMMA ExpireKeeps ==
    ASSUME BridgeInv, NEW x \in Messages, Expire(x)
    PROVE  BridgeInv'
<1>1. Types /\ Hands /\ Files /\ Paid /\ Watched /\ Heard
  BY DEF BridgeInv
<1>2. UNCHANGED <<config, kind, at, msg, way, text, copy, cacheAt, file, reviews, told, delivered, crashes,
                  overlapped, placed, blind, dropped, died, unsent>>
  BY DEF Expire, handling, effects, histories
<1>3. redis' \subseteq redis /\ memory' \in [Processes -> SUBSET Messages]
  BY <1>1 DEF Expire, Types
<1>4. Types'
  BY <1>1, <1>2, <1>3 DEF Types, Told, Configs, Kinds, Places, Ways
<1>5. Hands' /\ Files'
  BY <1>1, <1>2 DEF Hands, HandOf, Read, Files, IsFile, IsList, Ways, Told
<1>6. Paid'
  BY <1>1, <1>2, PaidFrame
<1>7. Watched'
  BY <1>1, <1>2 DEF Watched, WatchOf, AloneOf, MarkOf, OnceOf, Explained, Unmarked, New, Marking, Bound, ToSet
<1>8. Heard'
  BY <1>1, <1>2, <1>3 DEF Heard, HeardOf, Marking, ToSet
<1> QED
  BY <1>4, <1>5, <1>6, <1>7, <1>8 DEF BridgeInv

LEMMA BridgeInvStep == BridgeInv /\ [Next]_vars => BridgeInv'
<1> SUFFICES ASSUME BridgeInv, [Next]_vars PROVE BridgeInv'
  OBVIOUS
<1>1. ASSUME NEW h \in Handlers, NEW m \in Messages, Callback(h, m) \/ LongConnection(h, m) PROVE BridgeInv'
  BY <1>1, DeliverKeeps DEF Callback, LongConnection
<1>2. ASSUME NEW h \in Handlers, Handle(h) PROVE BridgeInv'
  BY <1>2, LookCacheKeeps, LookFileKeeps, ObtainKeeps, EscapeKeeps, MarkCacheKeeps, MarkReadKeeps,
     MarkWriteKeeps, SaveKeeps, ReviewKeeps, RaiseKeeps, ReplyKeeps DEF Handle
<1>3. CASE UNCHANGED vars
  <2>1. UNCHANGED <<config, kind, at, msg, way, text, copy, cacheAt, redis, memory, file, reviews, told,
                    delivered, crashes, overlapped, placed, blind, dropped, died, unsent>>
    BY <1>3 DEF vars, handling, caches, effects, histories
  <2>2. Types /\ Hands /\ Files /\ Paid /\ Watched /\ Heard
    BY DEF BridgeInv
  <2>3. Types'
    BY <2>1, <2>2 DEF Types, Told, Configs, Kinds, Places, Ways
  <2>4. Hands' /\ Files'
    BY <2>1, <2>2 DEF Hands, HandOf, Read, Files, IsFile, IsList, Ways, Told
  <2>5. Paid'
    BY <2>1, <2>2, PaidFrame
  <2>6. Watched'
    BY <2>1, <2>2 DEF Watched, WatchOf, AloneOf, MarkOf, OnceOf, Explained, Unmarked, New, Marking, Bound, ToSet
  <2>7. Heard'
    BY <2>1, <2>2 DEF Heard, HeardOf, Marking, ToSet
  <2> QED
    BY <2>3, <2>4, <2>5, <2>6, <2>7 DEF BridgeInv
<1> QED
  BY <1>1, <1>2, <1>3, CrashKeeps, ExpireKeeps DEF Next

LEMMA InitBridgeInv == Init => BridgeInv
<1> SUFFICES ASSUME Init PROVE BridgeInv
  OBVIOUS
<1>1. Types
  BY BridgeAssumption DEF Init, Types, Places, Ways
<1>2. \A h \in Handlers : at[h] = "idle" /\ copy[h] = <<>>
  BY DEF Init
<1>3. Hands
  BY <1>2 DEF Hands, HandOf
<1>4. Files
  BY <1>2, NothingIsFile DEF Init, Files
<1>5. Paid
  <2> SUFFICES ASSUME NEW m \in Messages PROVE PaidOf(m)
    BY DEF Paid
  <2>1. AtIt(m) = {}
    BY <1>2 DEF AtIt
  <2>2. IsFiniteSet(AtIt(m)) /\ Cardinality(AtIt(m)) = 0
    BY <2>1, FS_EmptySet
  <2>3. reviews[m] = 0 /\ delivered[m] = 0 /\ Deliveries[m] \in Nat
    BY BridgeAssumption DEF Init
  <2> QED
    BY <2>2, <2>3 DEF PaidOf
<1>6. Watched
  BY <1>2 DEF Init, Watched, WatchOf, AloneOf, MarkOf, OnceOf, Unmarked, New, Marking, Bound
<1>7. Heard
  <2>1. ToSet(<<>>) = {}
    BY DEF ToSet
  <2> QED
    BY <1>2, <2>1 DEF Init, Heard
<1> QED
  BY <1>1, <1>3, <1>4, <1>5, <1>6, <1>7 DEF BridgeInv

LEMMA BridgeInvAlways == Spec => []BridgeInv
  BY InitBridgeInv, BridgeInvStep, PTL DEF Spec

-----------------------------------------------------------------------------
(* The theorems.                                                           *)

\* Every variable has its type; the file holds at most Cap ids, each once, whatever overlaps there
\* are in its changes, and a message is not reviewed more often than it was delivered.
THEOREM TypesHold == Spec => []TypeOK
<1>1. ASSUME BridgeInv PROVE TypeOK
  <2>1. Types /\ Files /\ Paid
    BY <1>1 DEF BridgeInv
  <2>2. IsInjective(file)
    BY <2>1 DEF Files, IsFile, IsList, IsInjective
  <2>3. ASSUME NEW m \in Messages
        PROVE  delivered[m] \in 0 .. Deliveries[m] /\ reviews[m] \in 0 .. Deliveries[m]
    <3>1. PaidOf(m) /\ Deliveries[m] \in Nat
      BY <2>1, BridgeAssumption DEF Paid
    <3>2. PICK a \in Nat : a = Cardinality(AtIt(m))
      BY <3>1, FS_CardinalityType DEF PaidOf
    <3>3. PICK r, d \in Nat : r = reviews[m] /\ d = delivered[m]
      BY <2>1 DEF Types
    <3>4. r + a <= d /\ d <= Deliveries[m]
      BY <3>1, <3>2, <3>3 DEF PaidOf
    <3> QED
      BY <3>1, <3>3, <3>4
  <2> QED
    BY <2>1, <2>2, <2>3 DEF TypeOK, Types, Files, IsFile, IsList
<1> QED
  BY <1>1, BridgeInvAlways, PTL

\* A message is reviewed twice only if two handlers overlapped before it was marked, or both its
\* records failed, for any number of instances and handlers, of messages and deliveries, and any cap.
THEOREM SecondReviewsAreExplained == Spec => []TwiceIsExplained
<1>1. ASSUME BridgeInv PROVE TwiceIsExplained
  <2>1. Types /\ Watched
    BY <1>1 DEF BridgeInv
  <2> QED
    BY <2>1 DEF Types, Watched, WatchOf, OnceOf, Explained, TwiceIsExplained
<1> QED
  BY <1>1, BridgeInvAlways, PTL

\* Of every message that is recorded as processed the chat hears, unless the reply, the handler or
\* its instance failed, or there is nothing to be said.
THEOREM MarkedMessagesAreAnswered == Spec => []MarkedIsAnswered
<1>1. ASSUME BridgeInv PROVE MarkedIsAnswered
  <2>1. Heard
    BY <1>1 DEF BridgeInv
  <2> QED
    BY <2>1 DEF Heard, HeardOf, MarkedIsAnswered
<1> QED
  BY <1>1, BridgeInvAlways, PTL
===============================================================================
