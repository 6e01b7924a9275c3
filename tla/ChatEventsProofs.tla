-------------------------- MODULE ChatEventsProofs --------------------------
(***************************************************************************)
(* Theorems about ChatEvents: what the broker tells the clients of a chat  *)
(* run, for every set of runs and clients and every size of the queues,    *)
(* the buffers and the histories.  The first section is about FlattenSeq,  *)
(* by which Delivered is defined: the function it is the last value of     *)
(* exists and is unique, so it can be reasoned about one frame at a time.  *)
(***************************************************************************)
EXTENDS ChatEvents, SequenceTheorems, WellFoundedInduction, TLAPS

\* A set of natural numbers has a least one.
LEMMA LeastNumber ==
  ASSUME NEW S \in SUBSET Nat, S # {} PROVE \E x \in S : \A y \in S : x <= y
<1> DEFINE Rel == {ss \in Nat \X Nat : ss[1] < ss[2]}
<1>1. IsWellFoundedOn(Rel, Nat)
  BY NatLessThanWellFounded DEF OpToRel
<1>2. \A x, y \in S : <<y, x>> \in Rel <=> y < x
  OBVIOUS
<1> HIDE DEF Rel
<1>3. \E x \in S : \A y \in S : ~ (<<y, x>> \in Rel)
  BY <1>1, WFMin
<1>4. \E x \in S : \A y \in S : ~ (y < x)
  BY <1>2, <1>3
<1> QED BY <1>4

\* f joins the first n sequences of s, one after the other, as FlattenSeq does.
Joins(f, s, n) == \A i \in 1 .. n : f[i] = IF i = 1 THEN s[i] ELSE f[i - 1] \o s[i]

\* Sequences of sequences of events.
Texts == Seq(Seq(Nat))

\* Which of two joins comes first does not matter.
LEMMA JoinAssociative ==
  ASSUME NEW a \in Seq(Nat), NEW b \in Seq(Nat), NEW c \in Seq(Nat)
  PROVE  (a \o b) \o c = a \o (b \o c)
BY ConcatAssociative

\* One step of a join.
LEMMA JoinAt ==
  ASSUME NEW s, NEW n \in Nat, NEW f, Joins(f, s, n), NEW i \in 1 .. n
  PROVE  f[i] = IF i = 1 THEN s[i] ELSE f[i - 1] \o s[i]
BY DEF Joins

\* There is a join for every n,
LEMMA JoinExists ==
  ASSUME NEW s \in Texts, NEW n \in 0 .. Len(s)
  PROVE  \E f : f \in [1 .. n -> Seq(Nat)] /\ Joins(f, s, n)
<1> DEFINE Bad == {m \in 0 .. Len(s) : ~ \E f : f \in [1 .. m -> Seq(Nat)] /\ Joins(f, s, m)}
<1>1. SUFFICES ASSUME Bad # {} PROVE FALSE
  OBVIOUS
<1>2. Len(s) \in Nat /\ \A i \in 1 .. Len(s) : s[i] \in Seq(Nat)
  BY DEF Texts
<1>3. PICK m \in Bad : \A k \in Bad : m <= k
  <2>1. Bad \in SUBSET Nat
    BY <1>2
  <2> HIDE DEF Bad
  <2> QED BY <1>1, <2>1, LeastNumber
<1>4. m \in 0 .. Len(s)
  OBVIOUS
<1>5. CASE m = 0
  <2>1. [i \in 1 .. 0 |-> <<>>] \in [1 .. 0 -> Seq(Nat)]
    OBVIOUS
  <2>2. Joins([i \in 1 .. 0 |-> <<>>], s, 0)
    BY DEF Joins
  <2> QED BY <1>5, <2>1, <2>2
<1>6. CASE m # 0
  <2>1. m - 1 \in 0 .. Len(s) /\ m - 1 \notin Bad
    <3>1. m - 1 \in 0 .. Len(s) /\ ~ (m <= m - 1)
      BY <1>2, <1>4, <1>6
    <3> HIDE DEF Bad
    <3> QED BY <1>3, <3>1
  <2>2. PICK g : g \in [1 .. m - 1 -> Seq(Nat)] /\ Joins(g, s, m - 1)
    BY <2>1
  <2> DEFINE last == IF m = 1 THEN s[m] ELSE g[m - 1] \o s[m]
             f == [i \in 1 .. m |-> IF i = m THEN last ELSE g[i]]
  <2>3. s[m] \in Seq(Nat)
    BY <1>2, <1>4, <1>6
  <2>4. last \in Seq(Nat)
    <3>1. CASE m = 1
      BY <2>3, <3>1
    <3>2. CASE m # 1
      <4>1. g[m - 1] \in Seq(Nat)
        BY <1>2, <1>4, <1>6, <2>2, <3>2
      <4> QED BY <2>3, <3>2, <4>1
    <3> QED BY <3>1, <3>2
  <2>5. f \in [1 .. m -> Seq(Nat)]
    <3> HIDE DEF last
    <3>1. \A i \in 1 .. m : i # m => i \in 1 .. m - 1
      BY <1>2, <1>4, <1>6
    <3>2. \A i \in 1 .. m : f[i] \in Seq(Nat)
      BY <2>2, <2>4, <3>1
    <3> QED BY <3>2
  <2>6. Joins(f, s, m)
    <3> SUFFICES ASSUME NEW i \in 1 .. m
                 PROVE  f[i] = IF i = 1 THEN s[i] ELSE f[i - 1] \o s[i]
      BY DEF Joins
    <3>2. CASE i = m
      <4>1. i # 1 => f[i - 1] = g[m - 1]
        BY <1>2, <1>4, <3>2
      <4> QED BY <3>2, <4>1
    <3>3. CASE i # m
      <4>1. i \in 1 .. m - 1 /\ f[i] = g[i] /\ m - 1 \in Nat
        BY <1>2, <1>4, <3>3
      <4>2. g[i] = IF i = 1 THEN s[i] ELSE g[i - 1] \o s[i]
        <5>1. Joins(g, s, m - 1)
          BY <2>2
        <5> HIDE DEF f, Bad
        <5> QED BY <4>1, <5>1, JoinAt
      <4>3. i # 1 => f[i - 1] = g[i - 1]
        BY <1>2, <1>4, <4>1
      <4> QED BY <4>1, <4>2, <4>3
    <3> QED BY <3>2, <3>3
  <2> HIDE DEF f
  <2> QED BY <2>5, <2>6
<1> QED BY <1>5, <1>6

\* and one only.
LEMMA JoinUnique ==
  ASSUME NEW s, NEW n \in Nat, NEW f, NEW g, Joins(f, s, n), Joins(g, s, n)
  PROVE  \A i \in 1 .. n : f[i] = g[i]
<1> DEFINE Bad == {i \in 1 .. n : f[i] # g[i]}
<1>1. SUFFICES ASSUME Bad # {} PROVE FALSE
  OBVIOUS
<1>2. PICK i \in Bad : \A k \in Bad : i <= k
  <2>1. Bad \in SUBSET Nat
    OBVIOUS
  <2> HIDE DEF Bad
  <2> QED BY <1>1, <2>1, LeastNumber
<1>3. i \in 1 .. n /\ f[i] # g[i]
  OBVIOUS
<1>4. f[i] = (IF i = 1 THEN s[i] ELSE f[i - 1] \o s[i])
  BY <1>3, JoinAt
<1>5. g[i] = (IF i = 1 THEN s[i] ELSE g[i - 1] \o s[i])
  BY <1>3, JoinAt
<1>6. i # 1 => f[i - 1] = g[i - 1]
  <2>1. SUFFICES ASSUME i # 1 PROVE f[i - 1] = g[i - 1]
    OBVIOUS
  <2>2. i - 1 \in 1 .. n /\ ~ (i <= i - 1)
    BY <1>3, <2>1
  <2>3. i - 1 \notin Bad
    <3> HIDE DEF Bad
    <3> QED BY <1>2, <2>2
  <2> QED BY <2>2, <2>3
<1> QED BY <1>3, <1>4, <1>5, <1>6

\* FlattenSeq joins all.
LEMMA FlattenJoins ==
  ASSUME NEW s \in Texts, s # <<>>
  PROVE  \E f : /\ f \in [1 .. Len(s) -> Seq(Nat)] /\ Joins(f, s, Len(s))
               /\ FlattenSeq(s) = f[Len(s)]
<1>1. Len(s) \in Nat /\ Len(s) # 0
  BY DEF Texts
<1> DEFINE n == Len(s)
           h == CHOOSE f : f = [i \in 1 .. n |-> IF i = 1 THEN s[i] ELSE f[i - 1] \o s[i]]
<1>2. FlattenSeq(s) = h[n]
  BY <1>1 DEF FlattenSeq
<1>3. PICK f : f \in [1 .. n -> Seq(Nat)] /\ Joins(f, s, n)
  BY <1>1, JoinExists
<1>4. Joins(h, s, n)
  <2>1. f = [i \in 1 .. n |-> IF i = 1 THEN s[i] ELSE f[i - 1] \o s[i]]
    <3> DEFINE e(i) == IF i = 1 THEN s[i] ELSE f[i - 1] \o s[i]
    <3>1. \A i \in 1 .. n : f[i] = e(i)
      BY <1>3 DEF Joins
    <3> HIDE DEF e
    <3>2. f = [i \in 1 .. n |-> e(i)]
      BY <1>3, <3>1
    <3> QED BY <3>2 DEF e
  <2>2. \E g : g = [i \in 1 .. n |-> IF i = 1 THEN s[i] ELSE g[i - 1] \o s[i]]
    <3> HIDE DEF n, h
    <3> QED BY <2>1
  <2>3. h = [i \in 1 .. n |-> IF i = 1 THEN s[i] ELSE h[i - 1] \o s[i]]
    <3> HIDE DEF n
    <3> QED BY <1>1, <2>2
  <2> HIDE DEF h
  <2>4. \A i \in 1 .. n : h[i] = IF i = 1 THEN s[i] ELSE h[i - 1] \o s[i]
    BY <2>3
  <2> QED BY <2>4 DEF Joins
<1> HIDE DEF h
<1>5. \A i \in 1 .. n : h[i] = f[i]
  <2> HIDE DEF n
  <2>1. n \in Nat
    BY <1>1 DEF n
  <2> QED BY <1>3, <1>4, <2>1, JoinUnique
<1>6. n \in 1 .. n
  BY <1>1
<1> QED BY <1>2, <1>3, <1>5, <1>6

\* Nothing joined is nothing.
LEMMA FlattenEmpty == FlattenSeq(<<>>) = <<>>
BY DEF FlattenSeq

\* The flattening of sequences of numbers is one.
LEMMA FlattenType ==
  ASSUME NEW s \in Texts PROVE FlattenSeq(s) \in Seq(Nat)
<1>1. CASE s = <<>>
  <2>1. <<>> \in Seq(Nat)
    OBVIOUS
  <2> QED BY <1>1, <2>1, FlattenEmpty
<1>2. CASE s # <<>>
  <2>1. PICK f : f \in [1 .. Len(s) -> Seq(Nat)] /\ FlattenSeq(s) = f[Len(s)]
    BY <1>2, FlattenJoins
  <2>2. Len(s) \in 1 .. Len(s)
    BY <1>2 DEF Texts
  <2> QED BY <2>1, <2>2
<1> QED BY <1>1, <1>2

\* The last sequence comes last,
LEMMA FlattenAppend ==
  ASSUME NEW s \in Texts, NEW x \in Seq(Nat)
  PROVE  FlattenSeq(Append(s, x)) = FlattenSeq(s) \o x
<1> DEFINE t == Append(s, x)
           n == Len(s)
<1>1. t \in Texts /\ t # <<>> /\ Len(t) = n + 1 /\ t[n + 1] = x /\ n \in Nat
  BY AppendProperties DEF Texts
<1>2. \A i \in 1 .. n : s[i] = t[i]
  BY DEF Texts
<1> HIDE DEF t
<1>3. PICK g : g \in [1 .. n + 1 -> Seq(Nat)] /\ Joins(g, t, n + 1) /\ FlattenSeq(t) = g[n + 1]
  BY <1>1, FlattenJoins
<1>4. g[n + 1] = (IF n + 1 = 1 THEN t[n + 1] ELSE g[n + 1 - 1] \o t[n + 1])
  <2>1. n + 1 \in 1 .. n + 1 /\ n \in Nat /\ n + 1 \in Nat
    BY <1>1
  <2>2. Joins(g, t, n + 1)
    BY <1>3
  <2> HIDE DEF n
  <2> QED BY <2>1, <2>2, JoinAt
<1>5. CASE s = <<>>
  <2>1. n = 0
    BY <1>5
  <2>2. FlattenSeq(t) = x
    BY <1>1, <1>3, <1>4, <2>1
  <2>3. <<>> \o x = x
    OBVIOUS
  <2> QED BY <1>5, <2>2, <2>3, FlattenEmpty DEF t
<1>6. CASE s # <<>>
  <2>1. n \in 1 .. n
    BY <1>6 DEF Texts
  <2>2. PICK f : f \in [1 .. n -> Seq(Nat)] /\ Joins(f, s, n) /\ FlattenSeq(s) = f[n]
    BY <1>6, FlattenJoins
  <2>3. Joins(g, s, n)
    <3> HIDE DEF n
    <3>1. n \in Nat
      BY <1>1
    <3>2. \A i \in 1 .. n : g[i] = (IF i = 1 THEN t[i] ELSE g[i - 1] \o t[i])
      <4>1. TAKE i \in 1 .. n
      <4>2. i \in 1 .. n + 1 /\ n + 1 \in Nat
        BY <3>1
      <4>3. Joins(g, t, n + 1)
        BY <1>3
      <4> QED BY <3>1, <4>2, <4>3, JoinAt
    <3>3. \A i \in 1 .. n : g[i] = (IF i = 1 THEN s[i] ELSE g[i - 1] \o s[i])
      BY <1>2, <3>2
    <3> QED BY <3>3 DEF Joins
  <2>4. f[n] = g[n]
    <3> HIDE DEF n
    <3>1. n \in Nat
      BY <1>1
    <3>2. \A i \in 1 .. n : f[i] = g[i]
      BY <2>2, <2>3, <3>1, JoinUnique
    <3> QED BY <2>1, <3>2
  <2>5. n + 1 # 1 /\ n + 1 - 1 = n
    BY <2>1
  <2>6. FlattenSeq(t) = g[n] \o x
    BY <1>1, <1>3, <1>4, <2>5
  <2> QED BY <2>2, <2>4, <2>6 DEF t
<1> QED BY <1>5, <1>6

\* and the first one first.
LEMMA FlattenHead ==
  ASSUME NEW s \in Texts, s # <<>>
  PROVE  FlattenSeq(s) = Head(s) \o FlattenSeq(Tail(s))
<1> DEFINE t == Tail(s)
           n == Len(s)
<1>1. n \in Nat /\ n # 0 /\ t \in Texts /\ Len(t) = n - 1 /\ Head(s) = s[1] /\ s[1] \in Seq(Nat)
  BY DEF Texts
<1>2. \A i \in 1 .. n - 1 : t[i] = s[i + 1] /\ t[i] \in Seq(Nat)
  BY DEF Texts
<1>3. PICK f : f \in [1 .. n -> Seq(Nat)] /\ Joins(f, s, n) /\ FlattenSeq(s) = f[n]
  BY FlattenJoins
<1>4. \A i \in 1 .. n : f[i] = (IF i = 1 THEN s[i] ELSE f[i - 1] \o s[i])
  BY <1>3 DEF Joins
<1>7. \A i \in 1 .. n - 1 : \A j \in 1 .. n : j = i + 1 => f[j] = f[i] \o s[j]
  <2>1. \A j \in 1 .. n : j # 1 => f[j] = f[j - 1] \o s[j]
    BY <1>4
  <2>2. \A i \in 1 .. n - 1 : \A j \in 1 .. n : j = i + 1 => j # 1 /\ j - 1 = i
    BY <1>1
  <2> HIDE DEF n
  <2> QED BY <2>1, <2>2
<1> HIDE DEF t
<1>5. CASE n = 1
  <2>1. t = <<>>
    BY <1>1, <1>5 DEF Texts
  <2>2. FlattenSeq(s) = s[1]
    <3>1. 1 \in 1 .. n
      BY <1>5
    <3> QED BY <1>3, <1>4, <1>5, <3>1
  <2>3. s[1] \o <<>> = s[1]
    BY <1>1
  <2> QED BY <1>1, <2>1, <2>2, <2>3, FlattenEmpty DEF t
<1>6. CASE n # 1
  <2>1. t # <<>>
    BY <1>1, <1>6
  <2>2. PICK g : g \in [1 .. n - 1 -> Seq(Nat)] /\ Joins(g, t, n - 1) /\ FlattenSeq(t) = g[n - 1]
    BY <1>1, <2>1, FlattenJoins
  <2>3. \A i \in 1 .. n - 1 : g[i] = (IF i = 1 THEN t[i] ELSE g[i - 1] \o t[i])
    BY <2>2 DEF Joins
  <2> DEFINE Bad == {i \in 1 .. n - 1 : f[i + 1] # s[1] \o g[i]}
  <2>4. Bad = {}
    <3>1. SUFFICES ASSUME Bad # {} PROVE FALSE
      OBVIOUS
    <3>2. PICK i \in Bad : \A k \in Bad : i <= k
      <4>1. Bad \in SUBSET Nat
        <5>1. 1 .. n - 1 \subseteq Nat
          BY <1>1
        <5>2. Bad \subseteq 1 .. n - 1
          OBVIOUS
        <5> QED BY <5>1, <5>2
      <4> HIDE DEF Bad
      <4> QED BY <3>1, <4>1, LeastNumber
    <3>3. i \in 1 .. n - 1 /\ f[i + 1] # s[1] \o g[i]
      OBVIOUS
    <3>4. i + 1 \in 1 .. n /\ i + 1 # 1 /\ i + 1 - 1 = i /\ i \in 1 .. n /\ i \in Nat
      BY <1>1, <3>3
    <3>5. f[i + 1] = f[i] \o s[i + 1]
      BY <1>7, <3>3, <3>4
    <3>6. t[i] = s[i + 1] /\ t[i] \in Seq(Nat)
      BY <1>2, <3>3
    <3>7. CASE i = 1
      <4>1. f[1] = s[1]
        BY <1>4, <3>4, <3>7
      <4>2. g[1] = t[1]
        BY <2>3, <3>3, <3>7
      <4> QED BY <3>3, <3>5, <3>6, <3>7, <4>1, <4>2
    <3>8. CASE i # 1
      <4>1. i - 1 \in 1 .. n - 1 /\ ~ (i <= i - 1) /\ i - 1 + 1 = i
        BY <1>1, <3>3, <3>8
      <4>2. i - 1 \notin Bad
        <5> HIDE DEF Bad
        <5> QED BY <3>2, <4>1
      <4>3. f[i] = s[1] \o g[i - 1]
        BY <4>1, <4>2
      <4>4. g[i] = g[i - 1] \o t[i] /\ g[i - 1] \in Seq(Nat)
        BY <2>2, <2>3, <3>3, <3>8, <4>1
      <4>5. (s[1] \o g[i - 1]) \o t[i] = s[1] \o (g[i - 1] \o t[i])
        BY <1>1, <3>6, <4>4, JoinAssociative
      <4> QED BY <3>3, <3>5, <3>6, <4>3, <4>4, <4>5
    <3> QED BY <3>7, <3>8
  <2>5. n - 1 \in 1 .. n - 1 /\ n - 1 + 1 = n
    BY <1>1, <1>6
  <2>6. f[n - 1 + 1] = s[1] \o g[n - 1]
    BY <2>4, <2>5
  <2> QED BY <1>1, <1>3, <2>2, <2>5, <2>6 DEF t
<1> QED BY <1>5, <1>6

\* A frame on a client's queue.
Frame == [type : {"snapshot", "event"}, events : Seq(Nat)] \cup {SENTINEL}

\* The type invariant; events need no bound here.
Typed ==
    /\ subs \in [Key -> SUBSET Client]
    /\ queue \in [Client -> Seq(Frame)] /\ \A c \in Client : Len(queue[c]) <= QueueSize
    /\ histories \in Seq(Key) /\ buffer \in [Key -> Seq(Nat)]
    /\ finished \subseteq Range(histories) /\ evicted \subseteq Key
    /\ pc \in [Client -> {"new", "read", "streaming", "ended", "left"}]
    /\ got \in [Client -> Seq(Nat)]
    /\ lost \in [Client -> SUBSET {"event", "sentinel"}]
    /\ run \in [Key -> {"absent", "created", "live", "over"}]
    /\ published \in [Key -> Nat]
    /\ key \in [Client -> Key \cup {NoKey}] /\ via \in [Client -> Via]

\* The run has been opened.
Opened(k) == run[k] \in {"live", "over"}

\* A run publishes between its opening and its end, and only the end marks it as finished.
RunsInOrder ==
    \A k \in Key :
        /\ ~Opened(k) => published[k] = 0 /\ k \notin Range(histories)
        /\ run[k] = "over" => published[k] > 0
        /\ k \in finished => run[k] = "over"

\* The last events of the n that were published.
IsTail(b, n) == Len(b) <= n /\ \A i \in 1 .. Len(b) : b[i] = n - Len(b) + i

\* A buffer is the tail of what its run has published: not empty once something was, and
\* all of it, if it fits and the history was never evicted.
BuffersAreTails ==
    \A k \in Key :
        /\ IsTail(buffer[k], published[k])
        /\ k \in Range(histories) /\ published[k] > 0 => Len(buffer[k]) > 0
        /\ Opened(k) /\ k \notin evicted =>
              /\ k \in Range(histories)
              /\ published[k] <= ReplaySize => Len(buffer[k]) = published[k]

\* The client is connected to a run, or was until its stream ended.
Told(c) == pc[c] \in {"streaming", "ended"}

\* Who is subscribed to a run is streaming it; who found its history is subscribed to it
\* for as long as it goes on.
Subscribed ==
    /\ \A k \in Key : \A c \in subs[k] : pc[c] = "streaming" /\ key[c] = k
    /\ \A c \in Client :
          /\ Told(c) => key[c] \in Key /\ run[key[c]] # "absent"
          /\ pc[c] = "streaming" /\ via[c] = "history" /\ run[key[c]] # "over" =>
                c \in subs[key[c]]
          /\ ~Told(c) => queue[c] = <<>> /\ got[c] = <<>>

\* A client that found the history is told the end of its run at the end.
EndComesLast ==
    \A c \in Client : Told(c) /\ via[c] = "history" =>
        /\ pc[c] = "ended" => run[key[c]] = "over" /\ queue[c] = <<>>
        /\ \A i \in 1 .. Len(queue[c]) : queue[c][i].type = "sentinel" =>
              i = Len(queue[c]) /\ run[key[c]] = "over"

\* A sequence of numbers that grows up to n at most.
GrowsTo(s, n) ==
    /\ \A i, j \in DOMAIN s : i < j => s[i] < s[j]
    /\ \A i \in DOMAIN s : s[i] <= n

\* What a client has and is about to get grows, up to what its run has published,
DeliveryGrows == \A c \in Client : Told(c) => GrowsTo(Delivered(c), published[key[c]])

\* and has the last event of a run that is over.
LastDelivered ==
    \A c \in Client : Told(c) /\ via[c] = "history" /\ run[key[c]] = "over" =>
        "event" \in lost[c] \/ published[key[c]] \in Range(Delivered(c))

\* What is inductive about the streams.
StreamInv ==
    /\ Typed /\ RunsInOrder /\ BuffersAreTails /\ Subscribed /\ EndComesLast
    /\ DeliveryGrows /\ LastDelivered /\ NothingMissed

-----------------------------------------------------------------------------
\* The events of the frames of a queue.
Text(q) == FlattenSeq([i \in DOMAIN q |-> q[i].events])

\* A frame carries numbers, and the sentinel none.
LEMMA FrameEvents ==
  ASSUME NEW x \in Frame
  PROVE  x.events \in Seq(Nat) /\ (x.type = "sentinel" => x.events = <<>>)
<1>1. CASE x = SENTINEL
  <2>1. x.events = <<>> /\ <<>> \in Seq(Nat)
    BY <1>1 DEF SENTINEL, Item
  <2> QED BY <2>1
<1>2. CASE x # SENTINEL
  BY <1>2 DEF Frame
<1> QED BY <1>1, <1>2

\* The events of the frames of a queue are sequences to flatten,
LEMMA TextsOf ==
  ASSUME NEW q \in Seq(Frame) PROVE [i \in DOMAIN q |-> q[i].events] \in Texts
<1>1. \A i \in 1 .. Len(q) : q[i].events \in Seq(Nat)
  <2>1. \A i \in 1 .. Len(q) : q[i] \in Frame
    OBVIOUS
  <2> QED BY <2>1, FrameEvents
<1>2. DOMAIN q = 1 .. Len(q) /\ Len(q) \in Nat
  OBVIOUS
<1> DEFINE e(i) == q[i].events
<1> HIDE DEF e
<1>3. [i \in 1 .. Len(q) |-> e(i)] \in Seq(Seq(Nat))
  BY <1>1, <1>2, IsASeq DEF e
<1> QED BY <1>2, <1>3 DEF Texts, e

\* so its text is a sequence of numbers,
LEMMA TextType == ASSUME NEW q \in Seq(Frame) PROVE Text(q) \in Seq(Nat)
BY TextsOf, FlattenType DEF Text

\* empty when the queue is,
LEMMA TextEmpty == Text(<<>>) = <<>>
<1>1. [i \in DOMAIN <<>> |-> <<>>[i].events] = <<>>
  OBVIOUS
<1> QED BY <1>1, FlattenEmpty DEF Text

\* longer by the events of a frame that is appended,
LEMMA TextAppend ==
  ASSUME NEW q \in Seq(Frame), NEW x \in Frame
  PROVE  Text(Append(q, x)) = Text(q) \o x.events
<1> DEFINE s == [i \in DOMAIN q |-> q[i].events]
           t == [i \in DOMAIN Append(q, x) |-> Append(q, x)[i].events]
<1>1. x.events \in Seq(Nat)
  BY FrameEvents
<1>2. s \in Texts /\ DOMAIN s = 1 .. Len(q) /\ Len(s) = Len(q)
  BY TextsOf
<1>3. t = Append(s, x.events)
  <2>1. DOMAIN t = 1 .. Len(q) + 1
    OBVIOUS
  <2>2. Append(s, x.events) \in Texts /\ Len(Append(s, x.events)) = Len(q) + 1
    BY <1>1, <1>2 DEF Texts
  <2>3. \A i \in 1 .. Len(q) : t[i] = s[i]
    OBVIOUS
  <2>4. t[Len(q) + 1] = x.events
    OBVIOUS
  <2>5. \A i \in 1 .. Len(q) + 1 : t[i] = Append(s, x.events)[i]
    <3>1. Len(q) \in Nat
      OBVIOUS
    <3> HIDE DEF t, s
    <3>2. s \in Seq(Seq(Nat)) /\ Len(s) = Len(q)
      BY <1>2 DEF Texts
    <3>3. \A i \in 1 .. Len(q) : Append(s, x.events)[i] = s[i]
      BY <1>1, <3>2
    <3>4. Append(s, x.events)[Len(q) + 1] = x.events
      BY <1>1, <3>2
    <3>5. \A i \in 1 .. Len(q) + 1 : i \in 1 .. Len(q) \/ i = Len(q) + 1
      BY <3>1
    <3> QED BY <2>3, <2>4, <3>3, <3>4, <3>5
  <2>6. DOMAIN Append(s, x.events) = 1 .. Len(q) + 1
    BY <2>2 DEF Texts
  <2>7. Append(s, x.events) = [i \in 1 .. Len(q) + 1 |-> Append(s, x.events)[i]]
    <3> HIDE DEF s
    <3> QED BY <2>2, <2>6 DEF Texts
  <2>8. t = [i \in 1 .. Len(q) + 1 |-> t[i]]
    BY <2>1
  <2> HIDE DEF t, s
  <2> QED BY <2>5, <2>7, <2>8
<1> HIDE DEF s
<1>4. FlattenSeq(t) = FlattenSeq(s) \o x.events
  BY <1>1, <1>2, <1>3, FlattenAppend
<1> QED BY <1>4 DEF Text, s

\* and that of the first frame, then of the others.
LEMMA TextHead ==
  ASSUME NEW q \in Seq(Frame), q # <<>>
  PROVE  Text(q) = Head(q).events \o Text(Tail(q))
<1> DEFINE s == [i \in DOMAIN q |-> q[i].events]
           t == [i \in DOMAIN Tail(q) |-> Tail(q)[i].events]
<1>1. s \in Texts /\ DOMAIN s = 1 .. Len(q) /\ Len(s) = Len(q) /\ Len(q) \in Nat /\ Len(q) > 0
  BY TextsOf
<1>2. s # <<>> /\ Head(s) = Head(q).events
  <2>1. 1 \in 1 .. Len(q)
    BY <1>1
  <2>2. s[1] = q[1].events
    BY <2>1
  <2>3. Head(q) = q[1]
    OBVIOUS
  <2> HIDE DEF s
  <2>4. s # <<>> /\ Head(s) = s[1]
    BY <1>1 DEF Texts
  <2> QED BY <2>2, <2>3, <2>4
<1>3. t = Tail(s)
  <2>1. Tail(q) \in Seq(Frame) /\ Len(Tail(q)) = Len(q) - 1
    OBVIOUS
  <2>2. DOMAIN Tail(q) = 1 .. Len(q) - 1
    BY <2>1
  <2>3. \A i \in 1 .. Len(q) - 1 : Tail(q)[i] = q[i + 1] /\ i + 1 \in DOMAIN q
    BY <1>1, <2>1
  <2>4. \A i \in 1 .. Len(q) - 1 : t[i] = s[i + 1]
    <3>1. \A i \in 1 .. Len(q) - 1 : t[i] = Tail(q)[i].events
      BY <2>2
    <3>2. \A i \in 1 .. Len(q) - 1 : s[i + 1] = q[i + 1].events
      BY <2>3
    <3> HIDE DEF t, s
    <3> QED BY <2>3, <3>1, <3>2
  <2>5. Tail(s) \in Texts /\ Len(Tail(s)) = Len(q) - 1
    <3> HIDE DEF s
    <3> QED BY <1>1, <1>2 DEF Texts
  <2>6. \A i \in 1 .. Len(q) - 1 : Tail(s)[i] = s[i + 1]
    <3> HIDE DEF s
    <3> QED BY <1>1, <1>2 DEF Texts
  <2>7. Tail(s) = [i \in 1 .. Len(q) - 1 |-> Tail(s)[i]]
    <3> HIDE DEF s
    <3>1. DOMAIN Tail(s) = 1 .. Len(q) - 1
      BY <2>5 DEF Texts
    <3>2. Tail(s) \in [1 .. Len(Tail(s)) -> Seq(Nat)]
      BY <2>5, LenProperties DEF Texts
    <3> QED BY <2>5, <3>1, <3>2
  <2>8. t = [i \in 1 .. Len(q) - 1 |-> t[i]]
    BY <2>2
  <2> HIDE DEF t, s
  <2> QED BY <2>4, <2>6, <2>7, <2>8
<1> HIDE DEF s
<1>4. FlattenSeq(s) = Head(s) \o FlattenSeq(t)
  BY <1>1, <1>2, <1>3, FlattenHead
<1> QED BY <1>2, <1>4 DEF Text, s

\* What Delivered of ProgressBroker says, by way of Text.
LEMMA DeliveredText == \A c : Delivered(c) = got[c] \o Text(queue[c])
BY DEF Delivered, Text

-----------------------------------------------------------------------------
\* A frame that there is room for is put on the queue.
LEMMA PutOne ==
  ASSUME NEW q \in Seq(Frame), Len(q) <= QueueSize, NEW e \in Frame
  PROVE  Put(q, <<e>>) = IF Len(q) < QueueSize THEN Append(q, e) ELSE q
<1>1. Len(q) \in Nat /\ QueueSize \in Nat
  BY BrokerAssumption
<1>2. Len(<<e>>) = 1 /\ <<e>> \in Seq(Frame)
  OBVIOUS
<1>3. CASE Len(q) < QueueSize
  <2>1. 1 <= QueueSize - Len(q)
    BY <1>1, <1>3
  <2>2. Put(q, <<e>>) = q \o <<e>>
    BY <1>2, <2>1 DEF Put
  <2> QED BY <1>3, <2>2
<1>4. CASE ~ (Len(q) < QueueSize)
  <2>1. QueueSize - Len(q) = 0
    BY <1>1, <1>4
  <2>2. Put(q, <<e>>) = q \o SubSeq(<<e>>, 1, 0)
    BY <1>2, <2>1 DEF Put
  <2>3. SubSeq(<<e>>, 1, 0) = <<>> /\ q \o <<>> = q
    BY SubSeqEmpty, ConcatEmptySeq
  <2> QED BY <1>4, <2>2, <2>3
<1> QED BY <1>3, <1>4

\* Two frames are put as far as there is room for them.
LEMMA PutTwo ==
  ASSUME NEW q \in Seq(Frame), Len(q) <= QueueSize, NEW e \in Frame, NEW f \in Frame
  PROVE  Put(q, <<e, f>>) = IF Len(q) + 1 < QueueSize THEN Append(Append(q, e), f)
                            ELSE IF Len(q) < QueueSize THEN Append(q, e) ELSE q
<1>1. Len(q) \in Nat /\ QueueSize \in Nat
  BY BrokerAssumption
<1>2. Len(<<e, f>>) = 2 /\ <<e, f>> \in Seq(Frame)
  OBVIOUS
<1>3. CASE Len(q) + 1 < QueueSize
  <2>1. 2 <= QueueSize - Len(q)
    BY <1>1, <1>3
  <2>2. Put(q, <<e, f>>) = q \o <<e, f>>
    BY <1>2, <2>1 DEF Put
  <2>3. q \o <<e, f>> = Append(Append(q, e), f)
    OBVIOUS
  <2> QED BY <1>3, <2>2, <2>3
<1>4. CASE Len(q) + 1 = QueueSize
  <2>1. QueueSize - Len(q) = 1 /\ Len(q) < QueueSize /\ ~ (Len(q) + 1 < QueueSize)
    BY <1>1, <1>4
  <2>2. Put(q, <<e, f>>) = q \o SubSeq(<<e, f>>, 1, 1)
    <3>1. ~ (Len(<<e, f>>) <= 1)
      BY <1>2
    <3>2. Put(q, <<e, f>>) =
            q \o (IF Len(<<e, f>>) <= 1 THEN <<e, f>> ELSE SubSeq(<<e, f>>, 1, 1))
      BY <2>1 DEF Put
    <3> QED BY <3>1, <3>2
  <2>3. SubSeq(<<e, f>>, 1, 1) = <<e>>
    <3>1. /\ SubSeq(<<e, f>>, 1, 1) \in Seq(Frame) /\ Len(SubSeq(<<e, f>>, 1, 1)) = 1
          /\ SubSeq(<<e, f>>, 1, 1)[1] = e
      OBVIOUS
    <3> DEFINE t == SubSeq(<<e, f>>, 1, 1)
    <3> HIDE DEF t
    <3>2. t \in Seq(Frame) /\ Len(t) = 1 /\ t[1] = e
      BY <3>1 DEF t
    <3>3. t = <<e>>
      BY <3>2, SeqEqual
    <3> QED BY <3>3 DEF t
  <2>4. q \o <<e>> = Append(q, e)
    OBVIOUS
  <2> QED BY <2>1, <2>2, <2>3, <2>4
<1>5. CASE Len(q) = QueueSize
  <2>1. QueueSize - Len(q) = 0 /\ ~ (Len(q) < QueueSize) /\ ~ (Len(q) + 1 < QueueSize)
    BY <1>1, <1>5
  <2>2. Put(q, <<e, f>>) = q \o SubSeq(<<e, f>>, 1, 0)
    BY <1>2, <2>1 DEF Put
  <2>3. SubSeq(<<e, f>>, 1, 0) = <<>> /\ q \o <<>> = q
    BY SubSeqEmpty, ConcatEmptySeq
  <2> QED BY <2>1, <2>2, <2>3
<1> QED BY <1>1, <1>3, <1>4, <1>5

\* The buffer of a run with one event more.
LEMMA TailGrows ==
  ASSUME NEW b \in Seq(Nat), NEW n \in Nat, IsTail(b, n), NEW r \in Nat \ {0}
  PROVE  LET t == LastOf(b \o <<n + 1>>, r)
         IN /\ t \in Seq(Nat) /\ IsTail(t, n + 1) /\ Len(t) > 0
            /\ Len(b) = n /\ n + 1 <= r => Len(t) = n + 1
<1> DEFINE a == b \o <<n + 1>>
<1>1. a \in Seq(Nat) /\ Len(a) = Len(b) + 1 /\ Len(b) \in Nat
  OBVIOUS
<1>2. \A i \in 1 .. Len(b) : a[i] = b[i]
  OBVIOUS
<1>3. a[Len(b) + 1] = n + 1
  OBVIOUS
<1> HIDE DEF a
<1>4. IsTail(a, n + 1)
  <2>1. Len(a) <= n + 1
    BY <1>1 DEF IsTail
  <2>2. ASSUME NEW i \in 1 .. Len(a) PROVE a[i] = n + 1 - Len(a) + i
    <3>1. CASE i = Len(b) + 1
      BY <1>1, <1>3, <3>1
    <3>2. CASE i # Len(b) + 1
      <4>1. i \in 1 .. Len(b)
        BY <1>1, <3>2
      <4>2. b[i] = n - Len(b) + i
        BY <4>1 DEF IsTail
      <4> QED BY <1>1, <1>2, <4>1, <4>2
    <3> QED BY <3>1, <3>2
  <2> QED BY <2>1, <2>2 DEF IsTail
<1>5. CASE Len(a) <= r
  <2>1. LastOf(a, r) = a
    BY <1>5 DEF LastOf
  <2>2. Len(a) > 0 /\ (Len(b) = n => Len(a) = n + 1)
    BY <1>1
  <2> QED BY <1>1, <1>4, <2>1, <2>2 DEF a
<1>6. CASE ~ (Len(a) <= r)
  <2> DEFINE t == SubSeq(a, Len(a) - r + 1, Len(a))
  <2>1. LastOf(a, r) = t
    BY <1>6 DEF LastOf
  <2>2. Len(a) - r + 1 \in 1 .. Len(a)
    BY <1>1, <1>6
  <2>3. t \in Seq(Nat) /\ Len(t) = r /\ \A i \in 1 .. r : t[i] = a[Len(a) - r + i]
    <3> DEFINE m == Len(a) - r + 1
    <3>1. m \in 1 .. Len(a) /\ Len(a) \in Nat /\ Len(a) - m + 1 = r
      BY <1>1, <2>2
    <3>2. \A i \in m .. Len(a) : a[i] \in Nat
      BY <1>1, <2>2
    <3> HIDE DEF m
    <3>3. /\ SubSeq(a, m, Len(a)) \in Seq(Nat)
          /\ Len(SubSeq(a, m, Len(a))) = Len(a) - m + 1
          /\ \A i \in 1 .. Len(a) - m + 1 : SubSeq(a, m, Len(a))[i] = a[m + i - 1]
      BY <3>1, <3>2, SubSeqProperties
    <3>4. \A i \in 1 .. r : m + i - 1 = Len(a) - r + i
      BY <1>1 DEF m
    <3> QED BY <3>1, <3>3, <3>4 DEF m
  <2>4. IsTail(t, n + 1)
    <3> HIDE DEF t
    <3>1. Len(t) <= n + 1
      BY <1>1, <1>4, <1>6, <2>3 DEF IsTail
    <3>2. ASSUME NEW i \in 1 .. Len(t) PROVE t[i] = n + 1 - Len(t) + i
      <4>1. i \in 1 .. r /\ Len(a) - r + i \in 1 .. Len(a)
        BY <1>1, <1>6, <2>3
      <4>2. t[i] = a[Len(a) - r + i]
        BY <2>3, <4>1
      <4>3. a[Len(a) - r + i] = n + 1 - Len(a) + (Len(a) - r + i)
        BY <1>4, <4>1 DEF IsTail
      <4> QED BY <1>1, <2>3, <4>1, <4>2, <4>3
    <3> QED BY <3>1, <3>2 DEF IsTail
  <2> HIDE DEF t
  <2>5. ~ (Len(b) = n /\ n + 1 <= r)
    BY <1>1, <1>6
  <2> QED BY <2>1, <2>3, <2>4, <2>5 DEF a
<1> QED BY <1>5, <1>6

\* Growing sequences.
LEMMA GrowsOn ==
  ASSUME NEW s \in Seq(Nat), NEW n \in Nat, GrowsTo(s, n)
  PROVE  GrowsTo(s, n + 1) /\ GrowsTo(s \o <<n + 1>>, n + 1)
<1>1. GrowsTo(s, n + 1)
  BY DEF GrowsTo
<1> DEFINE t == s \o <<n + 1>>
<1>2. Len(s) \in Nat /\ DOMAIN s = 1 .. Len(s) /\ DOMAIN t = 1 .. Len(s) + 1
  OBVIOUS
<1>3. \A i \in 1 .. Len(s) : t[i] = s[i] /\ s[i] \in Nat
  OBVIOUS
<1>4. t[Len(s) + 1] = n + 1
  OBVIOUS
<1> HIDE DEF t
<1>5. ASSUME NEW i \in DOMAIN t PROVE t[i] <= n + 1
  BY <1>1, <1>2, <1>3, <1>4 DEF GrowsTo
<1>6. ASSUME NEW i \in DOMAIN t, NEW j \in DOMAIN t, i < j PROVE t[i] < t[j]
  <2>1. i \in 1 .. Len(s)
    BY <1>2, <1>6
  <2>2. CASE j = Len(s) + 1
    BY <1>2, <1>3, <1>4, <2>1, <2>2 DEF GrowsTo
  <2>3. CASE j # Len(s) + 1
    <3>1. j \in 1 .. Len(s)
      BY <1>2, <2>3
    <3> QED BY <1>2, <1>3, <1>6, <2>1, <3>1 DEF GrowsTo
  <2> QED BY <2>2, <2>3
<1> QED BY <1>1, <1>5, <1>6 DEF GrowsTo, t

\* A part at the front of a growing sequence grows.
LEMMA GrowsPrefix ==
  ASSUME NEW s \in Seq(Nat), NEW t \in Seq(Nat), NEW n \in Nat, GrowsTo(s \o t, n)
  PROVE  GrowsTo(s, n)
<1>1. \A i \in DOMAIN s : i \in DOMAIN (s \o t) /\ (s \o t)[i] = s[i]
  OBVIOUS
<1> QED BY <1>1 DEF GrowsTo

\* A buffer grows, up to what was published.
LEMMA TailGrowsTo ==
  ASSUME NEW b \in Seq(Nat), NEW n \in Nat, IsTail(b, n) PROVE GrowsTo(b, n)
<1>1. DOMAIN b = 1 .. Len(b) /\ Len(b) \in Nat
  OBVIOUS
<1> QED BY <1>1 DEF GrowsTo, IsTail

\* The kept histories are among those there were, with the one that is touched.
LEMMA RemoveFirstOf ==
  ASSUME NEW s \in Seq(Key), NEW k \in Key
  PROVE  RemoveFirst(s, k) \in Seq(Key) /\ Range(RemoveFirst(s, k)) \subseteq Range(s)
<1>1. CASE ~ \E i \in 1 .. Len(s) : s[i] = k
  BY <1>1 DEF RemoveFirst
<1>2. CASE \E i \in 1 .. Len(s) : s[i] = k
  <2> DEFINE Found == {i \in 1 .. Len(s) : s[i] = k}
             m == Min(Found)
  <2>1. Found # {} /\ Found \in SUBSET Nat
    BY <1>2
  <2>2. m \in Found
    <3>1. \E x \in Found : \A y \in Found : x <= y
      <4> HIDE DEF Found
      <4> QED BY <2>1, LeastNumber
    <3> HIDE DEF Found
    <3> QED BY <3>1 DEF Min
  <2>3. RemoveFirst(s, k) = SubSeq(s, 1, m - 1) \o SubSeq(s, m + 1, Len(s))
    BY <1>2 DEF RemoveFirst, RemoveAt, SelectInSeq
  <2>4. m \in 1 .. Len(s) /\ Len(s) \in Nat
    BY <2>2
  <2> HIDE DEF m
  <2> DEFINE a == SubSeq(s, 1, m - 1)
             b == SubSeq(s, m + 1, Len(s))
  <2>5. /\ a \in Seq(Key) /\ Len(a) = m - 1 /\ \A i \in 1 .. m - 1 : a[i] = s[i]
        /\ b \in Seq(Key) /\ Len(b) = Len(s) - m /\ \A i \in 1 .. Len(s) - m : b[i] = s[m + i]
    BY <2>4
  <2> HIDE DEF a, b
  <2>6. a \o b \in Seq(Key)
    BY <2>5
  <2>7. ASSUME NEW i \in DOMAIN (a \o b) PROVE \E j \in DOMAIN s : (a \o b)[i] = s[j]
    <3>1. i \in 1 .. Len(a) + Len(b)
      BY <2>5, <2>7
    <3>2. CASE i <= Len(a)
      <4>1. (a \o b)[i] = a[i] /\ i \in 1 .. m - 1 /\ i \in 1 .. Len(s)
        BY <2>4, <2>5, <3>1, <3>2
      <4> QED BY <2>5, <4>1
    <3>3. CASE ~ (i <= Len(a))
      <4>1. i - Len(a) \in 1 .. Len(s) - m /\ m + (i - Len(a)) \in 1 .. Len(s)
        BY <2>4, <2>5, <3>1, <3>3
      <4>2. (a \o b)[i] = b[i - Len(a)]
        BY <2>5, <3>1, <3>3
      <4>3. b[i - Len(a)] = s[m + (i - Len(a))]
        BY <2>5, <4>1
      <4> QED BY <4>1, <4>2, <4>3
    <3> QED BY <3>2, <3>3
  <2>8. Range(a \o b) \subseteq Range(s)
    BY <2>7 DEF Range
  <2> QED BY <2>3, <2>6, <2>8 DEF a, b
<1> QED BY <1>1, <1>2

\* The key touched is among the histories kept, and no key is new but it.
LEMMA LastOfKeys ==
  ASSUME NEW s \in Seq(Key), NEW k \in Key, NEW m \in Nat \ {0}
  PROVE  /\ LastOf(Append(s, k), m) \in Seq(Key)
         /\ k \in Range(LastOf(Append(s, k), m))
         /\ Range(LastOf(Append(s, k), m)) \subseteq Range(s) \cup {k}
<1> DEFINE a == Append(s, k)
<1>1. a \in Seq(Key) /\ Len(a) = Len(s) + 1 /\ a[Len(a)] = k /\ Len(a) \in Nat /\ Len(a) > 0
  OBVIOUS
<1>2. \A i \in 1 .. Len(a) : a[i] \in Range(s) \cup {k}
  <2>1. TAKE i \in 1 .. Len(a)
  <2>2. CASE i = Len(s) + 1
    BY <2>2
  <2>3. CASE i # Len(s) + 1
    <3>1. i \in 1 .. Len(s) /\ a[i] = s[i]
      BY <1>1, <2>3
    <3> QED BY <3>1 DEF Range
  <2> QED BY <2>2, <2>3
<1> HIDE DEF a
<1>3. CASE Len(a) <= m
  <2>1. LastOf(a, m) = a
    BY <1>3 DEF LastOf
  <2>2. DOMAIN a = 1 .. Len(a)
    BY <1>1
  <2> QED BY <1>1, <1>2, <2>1, <2>2 DEF Range, a
<1>4. CASE ~ (Len(a) <= m)
  <2> DEFINE t == SubSeq(a, Len(a) - m + 1, Len(a))
             d == Len(a) - m
  <2>1. LastOf(a, m) = t
    BY <1>4 DEF LastOf
  <2>2. d \in Nat /\ d + 1 \in 1 .. Len(a) /\ Len(a) - (d + 1) + 1 = m
    BY <1>1, <1>4
  <2>3. t \in Seq(Key) /\ Len(t) = m /\ \A i \in 1 .. m : t[i] = a[d + i]
    <3> HIDE DEF d
    <3>1. \A i \in d + 1 .. Len(a) : a[i] \in Key
      BY <1>1, <2>2
    <3>2. /\ SubSeq(a, d + 1, Len(a)) \in Seq(Key)
          /\ Len(SubSeq(a, d + 1, Len(a))) = Len(a) - (d + 1) + 1
          /\ \A i \in 1 .. Len(a) - (d + 1) + 1 : SubSeq(a, d + 1, Len(a))[i] = a[d + 1 + i - 1]
      BY <1>1, <2>2, <3>1, SubSeqProperties
    <3>3. \A i \in 1 .. m : d + 1 + i - 1 = d + i
      BY <2>2
    <3> QED BY <2>2, <3>2, <3>3 DEF d
  <2>4. DOMAIN t = 1 .. m
    BY <2>3
  <2>5. \A i \in 1 .. m : d + i \in 1 .. Len(a)
    BY <1>1, <1>4
  <2>6. t[m] = k
    <3>1. m \in 1 .. m /\ d + m = Len(a)
      BY <1>1
    <3> HIDE DEF t, d
    <3> QED BY <1>1, <2>3, <3>1
  <2> HIDE DEF t, d
  <2>7. k \in Range(t)
    BY <2>4, <2>6 DEF Range
  <2>8. Range(t) \subseteq Range(s) \cup {k}
    BY <1>2, <2>3, <2>4, <2>5 DEF Range
  <2> QED BY <2>1, <2>3, <2>7, <2>8 DEF a
<1> QED BY <1>3, <1>4

\* What touch does to the histories and the buffers.
LEMMA Touched ==
  ASSUME Typed, NEW k \in Key, NEW events, touch(k, events)
  PROVE  /\ histories' \in Seq(Key) /\ k \in Range(histories')
         /\ Range(histories') \subseteq Range(histories) \cup {k}
         /\ evicted' = evicted \cup (Range(histories) \ Range(histories'))
         /\ \A j \in Key : buffer'[j] = IF j = k THEN LastOf(buffer[k] \o events, ReplaySize)
                                        ELSE IF j \in Range(histories) \ Range(histories')
                                             THEN <<>> ELSE buffer[j]
         /\ buffer' = [j \in Key |-> buffer'[j]]
<1>1. ReplaySize # 0 /\ MaxHistories \in Nat \ {0}
  BY BrokerAssumption, ChatAssumption
<1> DEFINE kept == LastOf(Append(RemoveFirst(histories, k), k), MaxHistories)
<1>2. histories' = kept /\ evicted' = evicted \cup (Range(histories) \ Range(kept))
  BY <1>1 DEF touch
<1>3. buffer' = [j \in Key |-> CASE j = k -> LastOf(buffer[k] \o events, ReplaySize)
                                  [] j \in Range(histories) \ Range(kept) -> <<>>
                                  [] OTHER -> buffer[j]]
  BY <1>1 DEF touch
<1>4. RemoveFirst(histories, k) \in Seq(Key) /\
      Range(RemoveFirst(histories, k)) \subseteq Range(histories)
  BY RemoveFirstOf DEF Typed
<1>5. kept \in Seq(Key) /\ k \in Range(kept) /\
      Range(kept) \subseteq Range(RemoveFirst(histories, k)) \cup {k}
  BY <1>1, <1>4, LastOfKeys
<1> HIDE DEF kept
<1>6. buffer' = [j \in Key |-> buffer'[j]]
  <2> DEFINE e(j) == CASE j = k -> LastOf(buffer[k] \o events, ReplaySize)
                       [] j \in Range(histories) \ Range(kept) -> <<>>
                       [] OTHER -> buffer[j]
  <2>1. buffer' = [j \in Key |-> e(j)]
    BY <1>3
  <2> HIDE DEF e
  <2> QED BY <2>1
<1> QED BY <1>2, <1>3, <1>4, <1>5, <1>6

\* What putting event n, and SENTINEL after it if it is the last one, does to a client.
Sent(c, S, n, last) ==
    /\ queue'[c] \in Seq(Frame) /\ Len(queue'[c]) <= QueueSize
    /\ lost'[c] \in SUBSET {"event", "sentinel"} /\ lost[c] \subseteq lost'[c]
    /\ c \notin S => queue'[c] = queue[c] /\ lost'[c] = lost[c]
    /\ c \in S => \/ queue'[c] = queue[c] /\ "event" \in lost'[c]
                  \/ queue'[c] = Append(queue[c], Event(n))
                  \/ last /\ queue'[c] = Append(Append(queue[c], Event(n)), SENTINEL)

\* Events and SENTINEL are frames.
LEMMA EventFrame ==
  ASSUME NEW n \in Nat
  PROVE  /\ Event(n) \in Frame /\ Event(n).type = "event" /\ Event(n).events = <<n>>
         /\ SENTINEL \in Frame /\ SENTINEL.type = "sentinel" /\ SENTINEL.events = <<>>
<1>1. <<n>> \in Seq(Nat)
  OBVIOUS
<1> QED BY <1>1 DEF Frame, Event, SENTINEL, Item

\* publish puts one frame on the queue of each subscriber,
LEMMA SentOne ==
  ASSUME Typed, NEW c \in Client, NEW S, NEW n \in Nat, put_nowait(S, <<Event(n)>>)
  PROVE  Sent(c, S, n, FALSE)
<1>1. queue[c] \in Seq(Frame) /\ Len(queue[c]) <= QueueSize
  BY DEF Typed
<1>2. lost[c] \in SUBSET {"event", "sentinel"}
  BY DEF Typed
<1>3. CASE c \notin S
  <2>1. queue'[c] = queue[c] /\ lost'[c] = lost[c]
    BY <1>3 DEF put_nowait
  <2> QED BY <1>1, <1>2, <1>3, <2>1 DEF Sent
<1>4. CASE c \in S
  <2> DEFINE items == <<Event(n)>>
             p == Put(queue[c], items)
             in == Len(p) - Len(queue[c])
  <2>1. queue'[c] = p /\ lost'[c] = lost[c] \cup {items[i].type : i \in (in + 1) .. Len(items)}
    BY <1>4 DEF put_nowait
  <2>2. Len(items) = 1 /\ items[1].type = "event"
    BY EventFrame
  <2>3. p = IF Len(queue[c]) < QueueSize THEN Append(queue[c], Event(n)) ELSE queue[c]
    BY <1>1, EventFrame, PutOne
  <2> HIDE DEF items, p
  <2>4. Len(queue[c]) \in Nat /\ QueueSize \in Nat
    BY <1>1, BrokerAssumption
  <2>5. CASE Len(queue[c]) < QueueSize
    <3>1. p = Append(queue[c], Event(n))
      BY <2>3, <2>5
    <3>2. p \in Seq(Frame) /\ Len(p) = Len(queue[c]) + 1
      BY <1>1, <3>1, EventFrame
    <3>3. (in + 1) .. Len(items) = {}
      BY <2>2, <2>4, <3>2
    <3>4. lost'[c] = lost[c]
      BY <2>1, <3>3
    <3>5. Len(p) <= QueueSize
      BY <2>4, <2>5, <3>2
    <3> QED BY <1>2, <1>4, <2>1, <3>1, <3>2, <3>4, <3>5 DEF Sent
  <2>6. CASE ~ (Len(queue[c]) < QueueSize)
    <3>1. p = queue[c] /\ in = 0
      BY <2>3, <2>4, <2>6
    <3>2. (in + 1) .. Len(items) = {1}
      BY <2>2, <3>1
    <3>3. lost'[c] = lost[c] \cup {"event"}
      BY <2>1, <2>2, <3>2
    <3> QED BY <1>1, <1>2, <1>4, <2>1, <3>1, <3>3 DEF Sent
  <2> QED BY <2>5, <2>6
<1> QED BY <1>3, <1>4

\* close, after the last event, has two to put,
LEMMA LastItems ==
  ASSUME NEW n \in Nat
  PROVE  [i \in DOMAIN <<n>> |-> Event(<<n>>[i])] \o <<SENTINEL>> = <<Event(n), SENTINEL>>
<1> DEFINE a == [i \in DOMAIN <<n>> |-> Event(<<n>>[i])]
<1>1. DOMAIN <<n>> = 1 .. 1 /\ <<n>>[1] = n
  OBVIOUS
<1>2. DOMAIN a = 1 .. 1 /\ a[1] = Event(n)
  BY <1>1
<1>3. \A i \in 1 .. 1 : a[i] \in Frame
  BY <1>1, <1>2, EventFrame
<1>4. a \in Seq(Frame) /\ Len(a) = 1
  <2>1. a = [i \in 1 .. 1 |-> a[i]]
    BY <1>1
  <2> HIDE DEF a
  <2> DEFINE e(i) == a[i]
  <2> HIDE DEF e
  <2>2. [i \in 1 .. 1 |-> e(i)] \in Seq(Frame)
    BY <1>3, IsASeq DEF e
  <2>3. a \in Seq(Frame)
    BY <2>1, <2>2 DEF e
  <2> QED BY <1>2, <2>3
<1> HIDE DEF a
<1>5. a = <<Event(n)>>
  <2>1. <<Event(n)>> \in Seq(Frame)
    BY EventFrame
  <2>2. Len(<<Event(n)>>) = 1 /\ <<Event(n)>>[1] = Event(n)
    OBVIOUS
  <2> QED BY <1>2, <1>4, <2>1, <2>2, SeqEqual
<1>6. <<Event(n)>> \o <<SENTINEL>> = <<Event(n), SENTINEL>>
  <2> DEFINE x == Event(n)
             y == SENTINEL
  <2>1. x \in Frame /\ y \in Frame
    BY EventFrame
  <2> HIDE DEF x, y
  <2>2. <<x>> \o <<y>> = <<x, y>>
    <3> DEFINE d == <<x>> \o <<y>>
               b == <<x, y>>
    <3>1. d \in Seq(Frame) /\ Len(d) = 2 /\ d[1] = x
      BY <2>1
    <3>2. d[2] = y
      <4>1. <<x>> \in Seq(Frame) /\ <<y>> \in Seq(Frame) /\ Len(<<x>>) = 1 /\ Len(<<y>>) = 1
        BY <2>1
      <4>2. d[2] = <<y>>[2 - 1]
        BY <4>1
      <4> QED BY <4>2
    <3>3. b \in Seq(Frame) /\ Len(b) = 2 /\ b[1] = x /\ b[2] = y
      BY <2>1
    <3> HIDE DEF d, b
    <3>4. \A i \in 1 .. 2 : d[i] = b[i]
      <4>1. \A i \in 1 .. 2 : i = 1 \/ i = 2
        OBVIOUS
      <4> QED BY <3>1, <3>2, <3>3, <4>1
    <3>5. d = b
      BY <3>1, <3>3, <3>4, SeqEqual
    <3> QED BY <3>5 DEF d, b
  <2> QED BY <2>2 DEF x, y
<1> QED BY <1>5, <1>6 DEF a

\* and it puts them.
LEMMA SentLast ==
  ASSUME Typed, NEW c \in Client, NEW S, NEW n \in Nat,
         put_nowait(S, <<Event(n), SENTINEL>>)
  PROVE  Sent(c, S, n, TRUE)
<1>1. queue[c] \in Seq(Frame) /\ Len(queue[c]) <= QueueSize
  BY DEF Typed
<1>2. lost[c] \in SUBSET {"event", "sentinel"}
  BY DEF Typed
<1>3. CASE c \notin S
  <2>1. queue'[c] = queue[c] /\ lost'[c] = lost[c]
    BY <1>3 DEF put_nowait
  <2> QED BY <1>1, <1>2, <1>3, <2>1 DEF Sent
<1>4. CASE c \in S
  <2> DEFINE items == <<Event(n), SENTINEL>>
             p == Put(queue[c], items)
             in == Len(p) - Len(queue[c])
  <2>1. queue'[c] = p /\ lost'[c] = lost[c] \cup {items[i].type : i \in (in + 1) .. Len(items)}
    BY <1>4 DEF put_nowait
  <2>2. Len(items) = 2 /\ items[1].type = "event" /\ items[2].type = "sentinel"
    BY EventFrame
  <2>3. p = IF Len(queue[c]) + 1 < QueueSize THEN Append(Append(queue[c], Event(n)), SENTINEL)
            ELSE IF Len(queue[c]) < QueueSize THEN Append(queue[c], Event(n)) ELSE queue[c]
    BY <1>1, EventFrame, PutTwo
  <2> HIDE DEF items, p
  <2>4. Len(queue[c]) \in Nat /\ QueueSize \in Nat
    BY <1>1, BrokerAssumption
  <2> DEFINE e == Append(queue[c], Event(n))
  <2>5. e \in Seq(Frame) /\ Len(e) = Len(queue[c]) + 1
    BY <1>1, EventFrame
  <2>6. in + 1 >= 1 /\ Len(p) <= QueueSize /\ p \in Seq(Frame)
    <3>1. Append(e, SENTINEL) \in Seq(Frame) /\ Len(Append(e, SENTINEL)) = Len(queue[c]) + 2
      <4> HIDE DEF e
      <4> QED BY <2>4, <2>5, EventFrame
    <3> QED BY <1>1, <2>3, <2>4, <2>5, <3>1
  <2>7. (in + 1) .. Len(items) \subseteq {1, 2}
    <3>1. in \in Int
      BY <2>4, <2>6
    <3>2. in + 1 >= 1
      BY <2>6
    <3> HIDE DEF in
    <3>3. \A i \in (in + 1) .. 2 : i = 1 \/ i = 2
      BY <3>1, <3>2
    <3> QED BY <2>2, <3>3
  <2>8. lost'[c] \in SUBSET {"event", "sentinel"} /\ lost[c] \subseteq lost'[c]
    <3>1. \A i \in {1, 2} : items[i].type \in {"event", "sentinel"}
      BY <2>2
    <3> HIDE DEF in
    <3> QED BY <1>2, <2>1, <2>7, <3>1
  <2>9. ~ (Len(queue[c]) < QueueSize) => "event" \in lost'[c]
    <3> HAVE ~ (Len(queue[c]) < QueueSize)
    <3>1. p = queue[c]
      BY <2>3, <2>4
    <3>2. in = 0
      BY <2>4, <3>1
    <3>3. 1 \in (in + 1) .. Len(items)
      BY <2>2, <3>2
    <3> HIDE DEF in
    <3> QED BY <2>1, <2>2, <3>3
  <2>10. \/ queue'[c] = queue[c] /\ "event" \in lost'[c]
         \/ queue'[c] = Append(queue[c], Event(n))
         \/ queue'[c] = Append(Append(queue[c], Event(n)), SENTINEL)
    BY <2>1, <2>3, <2>9
  <2> QED BY <1>4, <2>1, <2>6, <2>8, <2>10 DEF Sent
<1> QED BY <1>3, <1>4

\* Delivered after a step.
LEMMA DeliveredNext == ASSUME NEW c PROVE Delivered(c)' = got'[c] \o Text(queue'[c])
BY DEF Delivered, Text

\* What is delivered are numbers.
LEMMA DeliveredType == ASSUME Typed, NEW c \in Client PROVE Delivered(c) \in Seq(Nat)
<1>1. got[c] \in Seq(Nat) /\ queue[c] \in Seq(Frame)
  BY DEF Typed
<1>2. Text(queue[c]) \in Seq(Nat)
  BY <1>1, TextType
<1>3. got[c] \o Text(queue[c]) \in Seq(Nat)
  BY <1>1, <1>2
<1> QED BY <1>3, DeliveredText

\* What a client has, and is about to get, after that.
LEMMA SentDelivered ==
  ASSUME Typed, NEW c \in Client, NEW S, NEW n \in Nat, NEW last \in BOOLEAN,
         Sent(c, S, n, last), got' = got
  PROVE  \/ Delivered(c)' = Delivered(c) /\ (c \in S => "event" \in lost'[c])
         \/ c \in S /\ Delivered(c)' = Delivered(c) \o <<n>>
<1>1. got[c] \in Seq(Nat) /\ queue[c] \in Seq(Frame) /\ <<n>> \in Seq(Nat)
  BY DEF Typed
<1>2. Text(queue[c]) \in Seq(Nat)
  BY <1>1, TextType
<1>3. CASE queue'[c] = queue[c]
  <2>1. Delivered(c)' = Delivered(c)
    BY <1>3, DeliveredText, DeliveredNext
  <2>2. CASE c \notin S
    BY <2>1, <2>2
  <2>3. CASE c \in S
    <3>1. "event" \in lost'[c]
      <4>1. \A x \in Frame : queue[c] # Append(queue[c], x)
        <5>1. \A x \in Frame : /\ Len(Append(queue[c], x)) = Len(queue[c]) + 1
                               /\ Len(queue[c]) \in Nat
          BY <1>1
        <5> QED BY <5>1
      <4>2. queue[c] # Append(Append(queue[c], Event(n)), SENTINEL)
        <5> DEFINE e == Append(queue[c], Event(n))
        <5>1. e \in Seq(Frame) /\ Len(e) = Len(queue[c]) + 1 /\ Len(queue[c]) \in Nat
          BY <1>1, EventFrame
        <5> HIDE DEF e
        <5>2. Len(Append(e, SENTINEL)) = Len(queue[c]) + 2
          BY <5>1, EventFrame
        <5>3. queue[c] # Append(e, SENTINEL)
          BY <5>1, <5>2
        <5> QED BY <5>3 DEF e
      <4> QED BY <1>3, <2>3, <4>1, <4>2, EventFrame DEF Sent
    <3> QED BY <2>1, <3>1
  <2> QED BY <2>2, <2>3
<1>4. ASSUME c \in S, Text(queue'[c]) = Text(queue[c]) \o <<n>>
      PROVE  c \in S /\ Delivered(c)' = Delivered(c) \o <<n>>
  <2>1. got[c] \o (Text(queue[c]) \o <<n>>) = (got[c] \o Text(queue[c])) \o <<n>>
    BY <1>1, <1>2, JoinAssociative
  <2> QED BY <1>4, <2>1, DeliveredText, DeliveredNext
<1>5. CASE queue'[c] # queue[c]
  <2>1. c \in S
    BY <1>5 DEF Sent
  <2>2. CASE queue'[c] = Append(queue[c], Event(n))
    <3>1. Text(queue'[c]) = Text(queue[c]) \o <<n>>
      BY <1>1, <2>2, TextAppend, EventFrame
    <3> QED BY <1>4, <2>1, <3>1
  <2>3. CASE queue'[c] = Append(Append(queue[c], Event(n)), SENTINEL)
    <3> DEFINE e == Append(queue[c], Event(n))
    <3>1. e \in Seq(Frame) /\ Text(e) = Text(queue[c]) \o <<n>>
      <4>1. e \in Seq(Frame)
        BY <1>1, EventFrame
      <4>2. Text(e) = Text(queue[c]) \o Event(n).events
        BY <1>1, TextAppend, EventFrame
      <4> QED BY <4>1, <4>2, EventFrame
    <3>2. Text(e) \in Seq(Nat)
      BY <3>1, TextType
    <3> HIDE DEF e
    <3>3. Text(Append(e, SENTINEL)) = Text(e) \o <<>>
      BY <3>1, TextAppend, EventFrame
    <3>4. Text(Append(e, SENTINEL)) = Text(e)
      BY <3>2, <3>3, ConcatEmptySeq
    <3> QED BY <1>4, <2>1, <2>3, <3>1, <3>4 DEF e
  <2> QED BY <1>5, <2>1, <2>2, <2>3 DEF Sent
<1> QED BY <1>3, <1>5

\* Counting up to n, and one further.
LEMMA CountOn ==
  ASSUME NEW n \in Nat
  PROVE  [i \in 1 .. n |-> i] \o <<n + 1>> = [i \in 1 .. n + 1 |-> i]
<1> DEFINE a == [i \in 1 .. n |-> i]
           b == [i \in 1 .. n + 1 |-> i]
<1>1. a \in Seq(Nat) /\ Len(a) = n /\ \A i \in 1 .. n : a[i] = i
  BY IsASeq
<1>2. b \in Seq(Nat) /\ Len(b) = n + 1 /\ \A i \in 1 .. n + 1 : b[i] = i
  BY IsASeq
<1> HIDE DEF a, b
<1> DEFINE d == a \o <<n + 1>>
<1>3. d \in Seq(Nat) /\ Len(d) = n + 1 /\ \A i \in 1 .. n : d[i] = a[i]
  BY <1>1
<1>4. d[n + 1] = n + 1
  BY <1>1
<1> HIDE DEF d
<1>5. \A i \in 1 .. n + 1 : d[i] = b[i]
  <2>1. \A i \in 1 .. n + 1 : i \in 1 .. n \/ i = n + 1
    OBVIOUS
  <2>2. n + 1 \in 1 .. n + 1
    OBVIOUS
  <2>3. \A i \in 1 .. n : i \in 1 .. n + 1
    OBVIOUS
  <2> QED BY <1>1, <1>2, <1>3, <1>4, <2>1, <2>2, <2>3
<1>6. d = b
  BY <1>2, <1>3, <1>5, SeqEqual
<1> QED BY <1>6 DEF a, b, d

\* A buffer as long as what was published is all of it.
LEMMA WholeTail ==
  ASSUME NEW b \in Seq(Nat), NEW n \in Nat, IsTail(b, n), Len(b) = n
  PROVE  b = [i \in 1 .. n |-> i]
<1> DEFINE a == [i \in 1 .. n |-> i]
<1>1. a \in Seq(Nat) /\ Len(a) = n /\ \A i \in 1 .. n : a[i] = i
  BY IsASeq
<1> HIDE DEF a
<1>2. \A i \in 1 .. n : b[i] = i
  BY DEF IsTail
<1>3. \A i \in 1 .. n : b[i] = a[i]
  BY <1>1, <1>2
<1>4. b = a
  BY <1>1, <1>3, SeqEqual
<1> QED BY <1>4 DEF a

\* The last number appended is among those delivered, and the others stay.
LEMMA RangeOn ==
  ASSUME NEW s \in Seq(Nat), NEW n \in Nat PROVE n \in Range(s \o <<n>>)
<1> DEFINE d == s \o <<n>>
<1>1. d \in Seq(Nat) /\ Len(d) = Len(s) + 1 /\ d[Len(s) + 1] = n /\ Len(s) \in Nat
  OBVIOUS
<1> HIDE DEF d
<1>2. Len(s) + 1 \in DOMAIN d
  BY <1>1
<1>3. n \in Range(d)
  BY <1>1, <1>2 DEF Range
<1> QED BY <1>3 DEF d

\* What publishing the next event of k, the last one or not, does.
Publishes(k, last) ==
    /\ run[k] = "live" /\ run' \in [Key -> {"absent", "created", "live", "over"}]
    /\ \A j \in Key : run'[j] = IF j # k THEN run[j] ELSE IF last THEN "over" ELSE "live"
    /\ published' \in [Key -> Nat]
    /\ \A j \in Key : published'[j] = IF j = k THEN published[k] + 1 ELSE published[j]
    /\ subs' \in [Key -> SUBSET Client]
    /\ \A j \in Key : subs'[j] = IF j = k /\ last THEN {} ELSE subs[j]
    /\ finished' = (finished \cap Range(histories')) \cup (IF last THEN {k} ELSE {})
    /\ touch(k, <<published[k] + 1>>)
    /\ DOMAIN queue' = Client /\ DOMAIN lost' = Client
    /\ queue' = [c \in Client |-> queue'[c]] /\ lost' = [c \in Client |-> lost'[c]]
    /\ \A c \in Client : Sent(c, subs[k], published[k] + 1, last)
    /\ pc' = pc /\ key' = key /\ got' = got /\ via' = via

\* on_event publishes an event that is not the last,
LEMMA EventPublishes ==
  ASSUME StreamInv, NEW k \in Key, on_event(k) PROVE Publishes(k, FALSE)
<1> USE DEF StreamInv
<1> DEFINE n == published[k] + 1
<1>1. /\ run \in [Key -> {"absent", "created", "live", "over"}] /\ published \in [Key -> Nat]
      /\ subs \in [Key -> SUBSET Client]
  BY DEF Typed
<1>2. /\ run[k] = "live" /\ run' = run /\ published' = [published EXCEPT ![k] = @ + 1]
      /\ pc' = pc /\ key' = key /\ got' = got /\ via' = via
  BY DEF on_event, client
<1>3. touch(k, <<n>>) /\ put_nowait(subs[k], <<Event(n)>>) /\ subs' = subs
  BY DEF on_event, publish
<1>4. finished' = finished \cap Range(histories')
  BY ChatAssumption DEF on_event, publish, still_finished
<1>5. n \in Nat /\ Typed
  BY <1>1
<1> HIDE DEF n, StreamInv
<1>6. \A c \in Client : Sent(c, subs[k], n, FALSE)
  BY <1>3, <1>5, SentOne
<1>7. /\ DOMAIN queue' = Client /\ DOMAIN lost' = Client
      /\ queue' = [c \in Client |-> queue'[c]] /\ lost' = [c \in Client |-> lost'[c]]
  <2>1. \E f, g : queue' = [c \in Client |-> f[c]] /\ lost' = [c \in Client |-> g[c]]
    <3> DEFINE e(c) == IF c \in subs[k] THEN Put(queue[c], <<Event(n)>>) ELSE queue[c]
               items == <<Event(n)>>
               h(c) == IF c \in subs[k]
                       THEN LET in == Len(Put(queue[c], items)) - Len(queue[c])
                            IN lost[c] \cup {items[i].type : i \in (in + 1)..Len(items)}
                       ELSE lost[c]
    <3>1. queue' = [c \in Client |-> e(c)] /\ lost' = [c \in Client |-> h(c)]
      BY <1>3 DEF put_nowait
    <3> HIDE DEF e, h
    <3> DEFINE f == [c \in Client |-> e(c)]
               g == [c \in Client |-> h(c)]
    <3>2. f = [c \in Client |-> f[c]] /\ g = [c \in Client |-> g[c]]
      OBVIOUS
    <3> QED BY <3>1, <3>2
  <2> QED BY <2>1
<1>8. \A j \in Key : published'[j] = IF j = k THEN n ELSE published[j]
  BY <1>1, <1>2 DEF n
<1>9. published' \in [Key -> Nat]
  BY <1>1, <1>2
<1>10. finished' = (finished \cap Range(histories')) \cup (IF FALSE THEN {k} ELSE {})
  BY <1>4
<1>11. \A j \in Key : run'[j] = IF j # k THEN run[j] ELSE IF FALSE THEN "over" ELSE "live"
  BY <1>2
<1>12. \A j \in Key : subs'[j] = IF j = k /\ FALSE THEN {} ELSE subs[j]
  BY <1>3
<1> QED BY <1>1, <1>2, <1>3, <1>6, <1>7, <1>8, <1>9, <1>10, <1>11, <1>12 DEF Publishes, n

\* drive_ends the last one.
LEMMA EndPublishes ==
  ASSUME StreamInv, NEW k \in Key, drive_ends(k) PROVE Publishes(k, TRUE)
<1> USE DEF StreamInv
<1> DEFINE n == published[k] + 1
<1>1. /\ run \in [Key -> {"absent", "created", "live", "over"}] /\ published \in [Key -> Nat]
      /\ subs \in [Key -> SUBSET Client]
  BY DEF Typed
<1>2. /\ run[k] = "live" /\ run' = [run EXCEPT ![k] = "over"]
      /\ published' = [published EXCEPT ![k] = @ + 1]
      /\ pc' = pc /\ key' = key /\ got' = got /\ via' = via
  BY DEF drive_ends, client
<1>3. /\ touch(k, <<n>>)
      /\ put_nowait(subs[k], [i \in DOMAIN <<n>> |-> Event(<<n>>[i])] \o <<SENTINEL>>)
      /\ subs' = [subs EXCEPT ![k] = {}]
  BY DEF drive_ends, publish_and_close
<1>4. finished' = (finished \cap Range(histories')) \cup {k}
  BY ChatAssumption DEF drive_ends, publish_and_close, still_finished
<1>5. n \in Nat /\ Typed
  BY <1>1
<1> HIDE DEF n, StreamInv
<1> DEFINE items == <<Event(n), SENTINEL>>
<1>13. put_nowait(subs[k], items)
  BY <1>3, <1>5, LastItems
<1>6. \A c \in Client : Sent(c, subs[k], n, TRUE)
  BY <1>5, <1>13, SentLast
<1> HIDE DEF items
<1>7. /\ DOMAIN queue' = Client /\ DOMAIN lost' = Client
      /\ queue' = [c \in Client |-> queue'[c]] /\ lost' = [c \in Client |-> lost'[c]]
  <2>1. \E f, g : queue' = [c \in Client |-> f[c]] /\ lost' = [c \in Client |-> g[c]]
    <3> DEFINE e(c) == IF c \in subs[k] THEN Put(queue[c], items) ELSE queue[c]
               h(c) == IF c \in subs[k]
                       THEN LET in == Len(Put(queue[c], items)) - Len(queue[c])
                            IN lost[c] \cup {items[i].type : i \in (in + 1)..Len(items)}
                       ELSE lost[c]
    <3>1. queue' = [c \in Client |-> e(c)] /\ lost' = [c \in Client |-> h(c)]
      BY <1>13 DEF put_nowait
    <3> HIDE DEF e, h
    <3> DEFINE f == [c \in Client |-> e(c)]
               g == [c \in Client |-> h(c)]
    <3>2. f = [c \in Client |-> f[c]] /\ g = [c \in Client |-> g[c]]
      OBVIOUS
    <3> QED BY <3>1, <3>2
  <2> QED BY <2>1
<1>8. \A j \in Key : published'[j] = IF j = k THEN n ELSE published[j]
  BY <1>1, <1>2 DEF n
<1>9. published' \in [Key -> Nat]
  BY <1>1, <1>2
<1>10. finished' = (finished \cap Range(histories')) \cup (IF TRUE THEN {k} ELSE {})
  BY <1>4
<1>11. \A j \in Key : run'[j] = IF j # k THEN run[j] ELSE IF TRUE THEN "over" ELSE "live"
  BY <1>1, <1>2
<1>14. run' \in [Key -> {"absent", "created", "live", "over"}]
  BY <1>1, <1>2
<1>12. \A j \in Key : subs'[j] = IF j = k /\ TRUE THEN {} ELSE subs[j]
  BY <1>1, <1>3
<1>15. subs' \in [Key -> SUBSET Client]
  BY <1>1, <1>3
<1> QED BY <1>2, <1>3, <1>6, <1>7, <1>8, <1>9, <1>10, <1>11, <1>12, <1>14, <1>15
        DEF Publishes, n

\* What the histories are when k has published.
Recorded(k) ==
    /\ histories' \in Seq(Key) /\ k \in Range(histories')
    /\ Range(histories') \subseteq Range(histories) \cup {k}
    /\ Range(histories) \subseteq Key
    /\ evicted' = evicted \cup (Range(histories) \ Range(histories'))
    /\ buffer' = [j \in Key |-> buffer'[j]]
    /\ \A j \in Key \ {k} : buffer'[j] = IF j \in Range(histories) \ Range(histories')
                                         THEN <<>> ELSE buffer[j]

\* The histories are of keys.
LEMMA RangeOfKeys == ASSUME NEW s \in Seq(Key) PROVE Range(s) \subseteq Key
<1>1. \A i \in DOMAIN s : s[i] \in Key
  OBVIOUS
<1> QED BY <1>1 DEF Range

\* touch leaves the histories as Recorded says.
LEMMA TouchRecords ==
  ASSUME Typed, NEW k \in Key, NEW events, touch(k, events)
  PROVE  Recorded(k) /\ buffer'[k] = LastOf(buffer[k] \o events, ReplaySize)
<1>1. Range(histories) \subseteq Key
  BY RangeOfKeys DEF Typed
<1>2. /\ histories' \in Seq(Key) /\ k \in Range(histories')
      /\ Range(histories') \subseteq Range(histories) \cup {k}
      /\ evicted' = evicted \cup (Range(histories) \ Range(histories'))
      /\ buffer' = [j \in Key |-> buffer'[j]]
  BY Touched
<1>3. \A j \in Key : buffer'[j] = IF j = k THEN LastOf(buffer[k] \o events, ReplaySize)
                                  ELSE IF j \in Range(histories) \ Range(histories')
                                       THEN <<>> ELSE buffer[j]
  BY Touched
<1> QED BY <1>1, <1>2, <1>3 DEF Recorded

\* The buffer of a run that has published.
LEMMA PublishBuffer ==
  ASSUME StreamInv, NEW k \in Key, touch(k, <<published[k] + 1>>)
  PROVE  /\ Recorded(k) /\ buffer'[k] \in Seq(Nat)
         /\ IsTail(buffer'[k], published[k] + 1) /\ Len(buffer'[k]) > 0
         /\ Len(buffer[k]) = published[k] /\ published[k] + 1 <= ReplaySize =>
               Len(buffer'[k]) = published[k] + 1
<1>1. Recorded(k) /\ buffer'[k] = LastOf(buffer[k] \o <<published[k] + 1>>, ReplaySize)
  BY TouchRecords DEF StreamInv
<1>2. buffer[k] \in Seq(Nat) /\ published[k] \in Nat
  BY DEF StreamInv, Typed
<1>3. IsTail(buffer[k], published[k])
  BY DEF StreamInv, BuffersAreTails
<1>4. ReplaySize \in Nat \ {0}
  BY BrokerAssumption, ChatAssumption
<1> DEFINE t == LastOf(buffer[k] \o <<published[k] + 1>>, ReplaySize)
<1>5. /\ t \in Seq(Nat) /\ IsTail(t, published[k] + 1) /\ Len(t) > 0
      /\ Len(buffer[k]) = published[k] /\ published[k] + 1 <= ReplaySize =>
            Len(t) = published[k] + 1
  BY <1>2, <1>3, <1>4, TailGrows
<1> HIDE DEF t
<1>6. buffer'[k] = t
  BY <1>1 DEF t
<1> QED BY <1>1, <1>5, <1>6

\* An evicted buffer is still a tail.
LEMMA EmptyTail ==
  ASSUME NEW n \in Nat PROVE IsTail(<<>>, n) /\ <<>> \in Seq(Nat) /\ Len(<<>>) = 0
<1>1. Len(<<>>) = 0 /\ <<>> \in Seq(Nat)
  OBVIOUS
<1> QED BY <1>1 DEF IsTail

\* Buffers and evictions keep their types.
LEMMA RecordedTypes ==
  ASSUME Typed, NEW k \in Key, Recorded(k), buffer'[k] \in Seq(Nat)
  PROVE  buffer' \in [Key -> Seq(Nat)] /\ evicted' \subseteq Key
<1>1. \A j \in Key : buffer[j] \in Seq(Nat)
  BY DEF Typed
<1>2. \A j \in Key : buffer'[j] \in Seq(Nat)
  <2>1. <<>> \in Seq(Nat)
    OBVIOUS
  <2> QED BY <1>1, <2>1 DEF Recorded
<1>3. buffer' = [j \in Key |-> buffer'[j]]
  BY DEF Recorded
<1>4. buffer' \in [Key -> Seq(Nat)]
  <2> DEFINE e(j) == buffer'[j]
  <2> HIDE DEF e
  <2>1. [j \in Key |-> e(j)] \in [Key -> Seq(Nat)]
    BY <1>2 DEF e
  <2> QED BY <1>3, <2>1 DEF e
<1>5. evicted' \subseteq Key
  BY DEF Recorded, Typed
<1> QED BY <1>4, <1>5

\* Publishing keeps the types,
LEMMA PublishTypes ==
  ASSUME StreamInv, NEW k \in Key, NEW last \in BOOLEAN, Publishes(k, last)
  PROVE  Typed'
<1>1. Typed
  BY DEF StreamInv
<1>2. Recorded(k) /\ buffer'[k] \in Seq(Nat)
  BY PublishBuffer DEF Publishes
<1>3. buffer' \in [Key -> Seq(Nat)] /\ evicted' \subseteq Key
  BY <1>1, <1>2, RecordedTypes
<1>4. histories' \in Seq(Key) /\ finished' \subseteq Range(histories')
  BY <1>2 DEF Publishes, Recorded
<1>5. /\ subs' \in [Key -> SUBSET Client]
      /\ run' \in [Key -> {"absent", "created", "live", "over"}]
      /\ published' \in [Key -> Nat]
  BY DEF Publishes
<1>6. /\ pc' \in [Client -> {"new", "read", "streaming", "ended", "left"}]
      /\ got' \in [Client -> Seq(Nat)]
      /\ key' \in [Client -> Key \cup {NoKey}] /\ via' \in [Client -> Via]
  BY <1>1 DEF Publishes, Typed
<1>7. \A c \in Client : /\ queue'[c] \in Seq(Frame) /\ Len(queue'[c]) <= QueueSize
                        /\ lost'[c] \in SUBSET {"event", "sentinel"}
  BY DEF Publishes, Sent
<1>8. queue' = [c \in Client |-> queue'[c]] /\ lost' = [c \in Client |-> lost'[c]]
  BY DEF Publishes
<1>9. /\ queue' \in [Client -> Seq(Frame)]
      /\ lost' \in [Client -> SUBSET {"event", "sentinel"}]
  <2> DEFINE e(c) == queue'[c]
             h(c) == lost'[c]
  <2>1. \A c \in Client : e(c) \in Seq(Frame) /\ h(c) \in SUBSET {"event", "sentinel"}
    BY <1>7
  <2>2. queue' = [c \in Client |-> e(c)] /\ lost' = [c \in Client |-> h(c)]
    BY <1>8
  <2> HIDE DEF e, h
  <2> QED BY <2>1, <2>2
<1> QED BY <1>3, <1>4, <1>5, <1>6, <1>7, <1>9 DEF Typed

\* the order of a run,
LEMMA PublishOrder ==
  ASSUME StreamInv, NEW k \in Key, NEW last \in BOOLEAN, Publishes(k, last)
  PROVE  RunsInOrder'
<1>1. Recorded(k)
  BY PublishBuffer DEF Publishes
<1>2. RunsInOrder /\ published[k] \in Nat
  BY DEF StreamInv, Typed
<1>3. ASSUME NEW j \in Key
      PROVE  /\ ~Opened(j)' => published'[j] = 0 /\ j \notin Range(histories')
             /\ run'[j] = "over" => published'[j] > 0
             /\ j \in finished' => run'[j] = "over"
  <2>1. CASE j = k
    <3>1. run'[k] = (IF last THEN "over" ELSE "live") /\ published'[k] = published[k] + 1
      BY DEF Publishes
    <3>2. Opened(k)'
      BY <3>1 DEF Opened
    <3>3. k \in finished' => last
      <4>1. k \notin finished
        BY <1>2 DEF RunsInOrder, Publishes
      <4> QED BY <4>1 DEF Publishes
    <3>4. published'[k] > 0
      BY <1>2, <3>1
    <3> QED BY <2>1, <3>1, <3>2, <3>3, <3>4
  <2>2. CASE j # k
    <3>1. run'[j] = run[j] /\ published'[j] = published[j]
      BY <2>2 DEF Publishes
    <3>2. j \in Range(histories') => j \in Range(histories)
      BY <1>1, <2>2 DEF Recorded
    <3>3. j \in finished' => j \in finished
      BY <2>2 DEF Publishes
    <3> QED BY <1>2, <3>1, <3>2, <3>3 DEF RunsInOrder, Opened
  <2> QED BY <2>1, <2>2
<1> QED BY <1>3 DEF RunsInOrder

\* the buffers,
LEMMA PublishTails ==
  ASSUME StreamInv, NEW k \in Key, NEW last \in BOOLEAN, Publishes(k, last)
  PROVE  BuffersAreTails'
<1> DEFINE n == published[k] + 1
<1>1. Recorded(k)
  BY PublishBuffer DEF Publishes
<1>2. /\ IsTail(buffer'[k], n) /\ Len(buffer'[k]) > 0
      /\ Len(buffer[k]) = published[k] /\ n <= ReplaySize => Len(buffer'[k]) = n
  BY PublishBuffer DEF Publishes
<1>3. BuffersAreTails /\ published \in [Key -> Nat]
  BY DEF StreamInv, Typed
<1>4. ReplaySize \in Nat
  BY BrokerAssumption
<1>5. ASSUME NEW j \in Key
      PROVE  /\ IsTail(buffer'[j], published'[j])
             /\ j \in Range(histories') /\ published'[j] > 0 => Len(buffer'[j]) > 0
             /\ Opened(j)' /\ j \notin evicted' =>
                   /\ j \in Range(histories')
                   /\ published'[j] <= ReplaySize => Len(buffer'[j]) = published'[j]
  <2>1. CASE j = k
    <3>1. published'[k] = n /\ run[k] = "live" /\ published[k] \in Nat
      BY <1>3 DEF Publishes
    <3>2. k \in Range(histories') /\ (k \notin evicted' => k \notin evicted)
      BY <1>1 DEF Recorded
    <3>3. k \notin evicted /\ published[k] <= ReplaySize => Len(buffer[k]) = published[k]
      BY <1>3, <3>1 DEF BuffersAreTails, Opened
    <3>4. n <= ReplaySize => published[k] <= ReplaySize
      BY <1>4, <3>1
    <3> HIDE DEF n
    <3> QED BY <1>2, <2>1, <3>1, <3>2, <3>3, <3>4
  <2>2. CASE j # k
    <3>1. published'[j] = published[j] /\ Opened(j)' = Opened(j)
      BY <2>2 DEF Publishes, Opened
    <3>2. buffer'[j] = IF j \in Range(histories) \ Range(histories') THEN <<>> ELSE buffer[j]
      BY <1>1, <2>2 DEF Recorded
    <3>3. /\ j \in Range(histories') => j \in Range(histories)
          /\ j \notin evicted' =>
                  j \notin evicted /\ j \notin Range(histories) \ Range(histories')
      BY <1>1, <2>2 DEF Recorded
    <3>4. /\ IsTail(buffer[j], published[j])
          /\ j \in Range(histories) /\ published[j] > 0 => Len(buffer[j]) > 0
          /\ Opened(j) /\ j \notin evicted =>
                /\ j \in Range(histories)
                /\ published[j] <= ReplaySize => Len(buffer[j]) = published[j]
      BY <1>3 DEF BuffersAreTails
    <3>5. IsTail(<<>>, published[j])
      BY <1>3, EmptyTail
    <3> QED BY <3>1, <3>2, <3>3, <3>4, <3>5
  <2> QED BY <2>1, <2>2
<1> QED BY <1>5 DEF BuffersAreTails

\* who is subscribed,
LEMMA PublishSubscribed ==
  ASSUME StreamInv, NEW k \in Key, NEW last \in BOOLEAN, Publishes(k, last)
  PROVE  Subscribed'
<1>1. Subscribed /\ subs[k] \in SUBSET Client
  BY DEF StreamInv, Typed
<1>2. ASSUME NEW j \in Key, NEW c \in subs'[j] PROVE pc'[c] = "streaming" /\ key'[c] = j
  <2>1. c \in subs[j]
    BY DEF Publishes
  <2> QED BY <1>1, <2>1 DEF Subscribed, Publishes
<1>3. ASSUME NEW c \in Client
      PROVE  /\ Told(c)' => key'[c] \in Key /\ run'[key'[c]] # "absent"
             /\ pc'[c] = "streaming" /\ via'[c] = "history" /\ run'[key'[c]] # "over" =>
                   c \in subs'[key'[c]]
             /\ ~Told(c)' => queue'[c] = <<>> /\ got'[c] = <<>>
  <2>1. /\ pc'[c] = pc[c] /\ key'[c] = key[c] /\ via'[c] = via[c] /\ got'[c] = got[c]
        /\ Told(c)' = Told(c)
    BY DEF Publishes, Told
  <2>2. Told(c) => key[c] \in Key /\ run[key[c]] # "absent"
    BY <1>1 DEF Subscribed
  <2>3. ASSUME Told(c) PROVE key[c] \in Key /\ run'[key[c]] # "absent"
    BY <2>2, <2>3 DEF Publishes
  <2>4. ASSUME pc[c] = "streaming", via[c] = "history", run'[key[c]] # "over"
        PROVE  c \in subs'[key[c]]
    <3>1. key[c] \in Key
      BY <2>2, <2>4 DEF Told
    <3>2. run[key[c]] # "over" /\ ~ (key[c] = k /\ last)
      BY <2>4, <3>1 DEF Publishes
    <3>3. c \in subs[key[c]]
      BY <1>1, <2>4, <3>2 DEF Subscribed
    <3> QED BY <3>1, <3>2, <3>3 DEF Publishes
  <2>5. ASSUME ~Told(c) PROVE queue'[c] = <<>> /\ got[c] = <<>>
    <3>1. c \notin subs[k]
      BY <1>1, <2>5 DEF Subscribed, Told
    <3>2. Sent(c, subs[k], published[k] + 1, last)
      BY DEF Publishes
    <3>3. queue'[c] = queue[c]
      BY <3>1, <3>2 DEF Sent
    <3> QED BY <1>1, <2>5, <3>3 DEF Subscribed
  <2> QED BY <2>1, <2>3, <2>4, <2>5
<1> QED BY <1>2, <1>3 DEF Subscribed

\* what comes last,
LEMMA PublishEnd ==
  ASSUME StreamInv, NEW k \in Key, NEW last \in BOOLEAN, Publishes(k, last)
  PROVE  EndComesLast'
<1>1. Subscribed /\ EndComesLast
  BY DEF StreamInv
<1>2. published[k] + 1 \in Nat /\ run[k] = "live"
  BY DEF StreamInv, Typed, Publishes
<1>3. SUFFICES ASSUME NEW c \in Client, Told(c)', via'[c] = "history"
               PROVE  /\ pc'[c] = "ended" => run'[key'[c]] = "over" /\ queue'[c] = <<>>
                      /\ \A i \in 1 .. Len(queue'[c]) : queue'[c][i].type = "sentinel" =>
                            i = Len(queue'[c]) /\ run'[key'[c]] = "over"
  BY DEF EndComesLast
<1>4. Told(c) /\ via[c] = "history" /\ pc'[c] = pc[c] /\ key'[c] = key[c]
  BY <1>3 DEF Told, Publishes
<1>5. key[c] \in Key
  BY <1>1, <1>4 DEF Subscribed
<1>6. run[key[c]] = "over" => key[c] # k /\ run'[key[c]] = "over"
  BY <1>2, <1>5 DEF Publishes
<1>7. /\ pc[c] = "ended" => run[key[c]] = "over" /\ queue[c] = <<>>
      /\ \A i \in 1 .. Len(queue[c]) : queue[c][i].type = "sentinel" =>
            i = Len(queue[c]) /\ run[key[c]] = "over"
  BY <1>1, <1>4 DEF EndComesLast
<1>8. Sent(c, subs[k], published[k] + 1, last)
  BY DEF Publishes
<1>9. CASE queue'[c] = queue[c]
  BY <1>4, <1>6, <1>7, <1>9
<1>10. CASE queue'[c] # queue[c]
  <2>1. c \in subs[k] /\ key[c] = k /\ pc[c] = "streaming"
    <3>1. c \in subs[k]
      BY <1>8, <1>10 DEF Sent
    <3> QED BY <1>1, <3>1 DEF Subscribed
  <2>2. \A i \in 1 .. Len(queue[c]) : queue[c][i].type # "sentinel"
    BY <1>2, <1>7, <2>1
  <2>3. queue[c] \in Seq(Frame) /\ Len(queue[c]) \in Nat
    BY DEF StreamInv, Typed
  <2> DEFINE e == Append(queue[c], Event(published[k] + 1))
  <2>4. /\ e \in Seq(Frame) /\ Len(e) = Len(queue[c]) + 1
        /\ \A i \in 1 .. Len(e) : e[i].type # "sentinel"
    <3>1. e \in Seq(Frame) /\ Len(e) = Len(queue[c]) + 1
      BY <1>2, <2>3, EventFrame
    <3>2. \A i \in 1 .. Len(queue[c]) : e[i] = queue[c][i]
      BY <1>2, <2>3, EventFrame
    <3>3. e[Len(queue[c]) + 1] = Event(published[k] + 1)
      BY <1>2, <2>3, EventFrame
    <3>4. e[Len(queue[c]) + 1].type # "sentinel"
      BY <1>2, <3>3, EventFrame
    <3>5. \A i \in 1 .. Len(queue[c]) + 1 : i \in 1 .. Len(queue[c]) \/ i = Len(queue[c]) + 1
      BY <2>3
    <3> HIDE DEF e
    <3> QED BY <2>2, <3>1, <3>2, <3>4, <3>5
  <2> HIDE DEF e
  <2>5. CASE queue'[c] = e
    BY <1>4, <2>1, <2>4, <2>5
  <2>6. CASE last /\ queue'[c] = Append(e, SENTINEL)
    <3>1. run'[key[c]] = "over"
      BY <2>1, <2>6 DEF Publishes
    <3> DEFINE d == Append(e, SENTINEL)
    <3>2. Len(d) = Len(e) + 1 /\ \A i \in 1 .. Len(e) : d[i] = e[i]
      BY <2>4, EventFrame
    <3>3. \A i \in 1 .. Len(e) + 1 : i \in 1 .. Len(e) \/ i = Len(e) + 1
      BY <2>3, <2>4
    <3> HIDE DEF d
    <3>4. \A i \in 1 .. Len(d) : d[i].type = "sentinel" => i = Len(d)
      BY <2>4, <3>2, <3>3
    <3>5. queue'[c] = d
      BY <2>6 DEF d
    <3> QED BY <1>4, <2>1, <3>1, <3>4, <3>5
  <2>7. queue'[c] = e \/ (last /\ queue'[c] = Append(e, SENTINEL))
    BY <1>8, <1>10, <2>1 DEF Sent, e
  <2> QED BY <2>5, <2>6, <2>7
<1> QED BY <1>9, <1>10

\* what is delivered,
LEMMA PublishGrows ==
  ASSUME StreamInv, NEW k \in Key, NEW last \in BOOLEAN, Publishes(k, last)
  PROVE  DeliveryGrows'
<1> DEFINE n == published[k] + 1
<1>1. Subscribed /\ DeliveryGrows /\ Typed
  BY DEF StreamInv
<1>2. published \in [Key -> Nat] /\ published[k] \in Nat /\ n \in Nat
  BY DEF StreamInv, Typed
<1>3. SUFFICES ASSUME NEW c \in Client, Told(c)'
               PROVE  GrowsTo(Delivered(c)', published'[key'[c]])
  BY DEF DeliveryGrows, GrowsTo
<1>4. Told(c) /\ key'[c] = key[c] /\ key[c] \in Key
  BY <1>1, <1>3 DEF Publishes, Told, Subscribed
<1>5. GrowsTo(Delivered(c), published[key[c]]) /\ Delivered(c) \in Seq(Nat)
  BY <1>1, <1>4, DeliveredType DEF DeliveryGrows
<1>6. Sent(c, subs[k], n, last) /\ got' = got
  BY DEF Publishes
<1> HIDE DEF n
<1>7. \/ Delivered(c)' = Delivered(c)
      \/ c \in subs[k] /\ Delivered(c)' = Delivered(c) \o <<n>>
  BY <1>1, <1>2, <1>6, SentDelivered
<1>8. CASE key[c] = k
  <2>1. GrowsTo(Delivered(c), n) /\ GrowsTo(Delivered(c) \o <<n>>, n)
    BY <1>2, <1>5, <1>8, GrowsOn DEF n
  <2>2. published'[key'[c]] = n
    BY <1>4, <1>8 DEF Publishes, n
  <2> QED BY <1>7, <2>1, <2>2
<1>9. CASE key[c] # k
  <2>1. c \notin subs[k]
    BY <1>1, <1>9 DEF Subscribed
  <2>2. published'[key'[c]] = published[key[c]]
    BY <1>4, <1>9 DEF Publishes
  <2> QED BY <1>5, <1>7, <2>1, <2>2
<1> QED BY <1>8, <1>9

\* the last event,
LEMMA PublishLast ==
  ASSUME StreamInv, NEW k \in Key, NEW last \in BOOLEAN, Publishes(k, last)
  PROVE  LastDelivered'
<1> DEFINE n == published[k] + 1
<1>1. Subscribed /\ LastDelivered /\ EndComesLast /\ Typed
  BY DEF StreamInv
<1>2. published[k] \in Nat /\ n \in Nat
  BY DEF StreamInv, Typed
<1>3. SUFFICES ASSUME NEW c \in Client, Told(c)', via'[c] = "history", run'[key'[c]] = "over"
               PROVE  "event" \in lost'[c] \/ published'[key'[c]] \in Range(Delivered(c)')
  BY DEF LastDelivered, Range
<1>4. Told(c) /\ key'[c] = key[c] /\ key[c] \in Key /\ via[c] = "history" /\ pc'[c] = pc[c]
  BY <1>1, <1>3 DEF Publishes, Told, Subscribed
<1>5. Delivered(c) \in Seq(Nat)
  BY <1>1, DeliveredType
<1>6. Sent(c, subs[k], n, last) /\ got' = got
  BY DEF Publishes
<1>7. lost[c] \subseteq lost'[c]
  BY <1>6 DEF Sent
<1> HIDE DEF n
<1>8. \/ Delivered(c)' = Delivered(c) /\ (c \in subs[k] => "event" \in lost'[c])
      \/ c \in subs[k] /\ Delivered(c)' = Delivered(c) \o <<n>>
  BY <1>1, <1>2, <1>6, SentDelivered
<1>9. CASE key[c] = k
  <2>1. run[k] = "live" /\ published'[key'[c]] = n
    BY <1>4, <1>9 DEF Publishes, n
  <2>2. pc[c] = "streaming"
    BY <1>1, <1>4, <1>9, <2>1 DEF EndComesLast, Told
  <2>3. c \in subs[k]
    BY <1>1, <1>4, <1>9, <2>1, <2>2 DEF Subscribed
  <2>4. n \in Range(Delivered(c) \o <<n>>)
    BY <1>2, <1>5, RangeOn
  <2> QED BY <1>8, <2>1, <2>3, <2>4
<1>10. CASE key[c] # k
  <2>1. c \notin subs[k]
    BY <1>1, <1>10 DEF Subscribed
  <2>2. published'[key'[c]] = published[key[c]] /\ run[key[c]] = "over"
    BY <1>3, <1>4, <1>10 DEF Publishes
  <2>3. "event" \in lost[c] \/ published[key[c]] \in Range(Delivered(c))
    BY <1>1, <1>4, <2>2 DEF LastDelivered
  <2> QED BY <1>7, <1>8, <2>1, <2>2, <2>3
<1> QED BY <1>9, <1>10

\* and that nothing is missed.
LEMMA PublishAll ==
  ASSUME StreamInv, NEW k \in Key, NEW last \in BOOLEAN, Publishes(k, last)
  PROVE  NothingMissed'
<1> DEFINE n == published[k] + 1
<1>1. Subscribed /\ EndComesLast /\ NothingMissed /\ Typed
  BY DEF StreamInv
<1>2. published[k] \in Nat /\ n \in Nat /\ ReplaySize \in Nat
  BY BrokerAssumption DEF StreamInv, Typed
<1>3. SUFFICES ASSUME NEW c \in Client, pc'[c] \in {"streaming", "ended"},
                      via'[c] = "history", "event" \notin lost'[c], key'[c] \notin evicted',
                      published'[key'[c]] <= ReplaySize
               PROVE  Delivered(c)' = [i \in 1 .. published'[key'[c]] |-> i]
  BY DEF NothingMissed
<1>4. /\ pc'[c] = pc[c] /\ pc[c] \in {"streaming", "ended"} /\ key'[c] = key[c]
      /\ via[c] = "history"
  BY <1>3 DEF Publishes
<1>5. key[c] \in Key
  BY <1>1, <1>4 DEF Subscribed, Told
<1>6. Sent(c, subs[k], n, last) /\ got' = got
  BY DEF Publishes
<1>7. "event" \notin lost[c]
  BY <1>3, <1>6 DEF Sent
<1>8. key[c] \notin evicted
  <2>1. Recorded(k)
    BY PublishBuffer DEF Publishes
  <2> QED BY <1>3, <1>4, <2>1 DEF Recorded
<1> HIDE DEF n
<1>9. \/ Delivered(c)' = Delivered(c) /\ c \notin subs[k]
      \/ c \in subs[k] /\ Delivered(c)' = Delivered(c) \o <<n>>
  BY <1>1, <1>2, <1>3, <1>6, SentDelivered
<1>10. CASE key[c] = k
  <2>1. run[k] = "live" /\ published'[key'[c]] = n
    BY <1>4, <1>10 DEF Publishes, n
  <2>2. pc[c] = "streaming"
    BY <1>1, <1>4, <1>10, <2>1 DEF EndComesLast, Told
  <2>3. c \in subs[k]
    BY <1>1, <1>4, <1>5, <1>10, <2>1, <2>2 DEF Subscribed
  <2>4. published[k] <= ReplaySize
    BY <1>2, <1>3, <2>1 DEF n
  <2>5. Delivered(c) = [i \in 1 .. published[k] |-> i]
    BY <1>1, <1>4, <1>7, <1>8, <1>10, <2>4 DEF NothingMissed
  <2>6. [i \in 1 .. published[k] |-> i] \o <<n>> = [i \in 1 .. n |-> i]
    BY <1>2, CountOn DEF n
  <2>7. Delivered(c)' = Delivered(c) \o <<n>>
    BY <1>9, <2>3
  <2> QED BY <2>1, <2>5, <2>6, <2>7
<1>11. CASE key[c] # k
  <2>1. c \notin subs[k]
    BY <1>1, <1>11 DEF Subscribed
  <2>2. published'[key'[c]] = published[key[c]]
    BY <1>4, <1>5, <1>11 DEF Publishes
  <2>3. published[key[c]] <= ReplaySize
    BY <1>3, <2>2
  <2>4. Delivered(c) = [i \in 1 .. published[key[c]] |-> i]
    BY <1>1, <1>4, <1>7, <1>8, <2>3 DEF NothingMissed
  <2>5. Delivered(c)' = Delivered(c)
    BY <1>9, <2>1
  <2> QED BY <2>2, <2>4, <2>5
<1> QED BY <1>10, <1>11

\* Publishing keeps the invariant.
LEMMA PublishKeeps ==
  ASSUME StreamInv, NEW k \in Key, NEW last \in BOOLEAN, Publishes(k, last)
  PROVE  StreamInv'
BY PublishTypes, PublishOrder, PublishTails, PublishSubscribed, PublishEnd, PublishGrows,
   PublishLast, PublishAll DEF StreamInv

\* What the invariant says of one client.
ForClient(c) ==
    /\ Told(c) => /\ key[c] \in Key /\ run[key[c]] # "absent"
                  /\ GrowsTo(Delivered(c), published[key[c]])
    /\ ~Told(c) => queue[c] = <<>> /\ got[c] = <<>>
    /\ Told(c) /\ via[c] = "history" =>
          /\ pc[c] = "streaming" /\ run[key[c]] # "over" => c \in subs[key[c]]
          /\ pc[c] = "ended" => run[key[c]] = "over" /\ queue[c] = <<>>
          /\ \A i \in 1 .. Len(queue[c]) : queue[c][i].type = "sentinel" =>
                i = Len(queue[c]) /\ run[key[c]] = "over"
          /\ run[key[c]] = "over" =>
                "event" \in lost[c] \/ published[key[c]] \in Range(Delivered(c))
          /\ "event" \notin lost[c] /\ key[c] \notin evicted /\ published[key[c]] <= ReplaySize =>
                Delivered(c) = [i \in 1 .. published[key[c]] |-> i]

\* Who is subscribed to a run is streaming it.
Subscribers == \A k \in Key : \A c \in subs[k] : pc[c] = "streaming" /\ key[c] = k

\* The invariant, client by client.
ByClient ==
    /\ Typed /\ RunsInOrder /\ BuffersAreTails /\ Subscribers
    /\ \A c \in Client : ForClient(c)

\* The two forms of the invariant say the same,
LEMMA ClientByClient == StreamInv <=> ByClient
<1>1. ASSUME StreamInv PROVE Subscribers /\ \A c \in Client : ForClient(c)
  <2>1. Subscribers
    BY <1>1 DEF StreamInv, Subscribed, Subscribers
  <2>2. ASSUME NEW c \in Client PROVE ForClient(c)
    <3>1. Told(c) => /\ key[c] \in Key /\ run[key[c]] # "absent"
                     /\ GrowsTo(Delivered(c), published[key[c]])
      BY <1>1 DEF StreamInv, Subscribed, DeliveryGrows
    <3>2. ~Told(c) => queue[c] = <<>> /\ got[c] = <<>>
      BY <1>1 DEF StreamInv, Subscribed
    <3>3. ASSUME Told(c), via[c] = "history"
          PROVE  /\ pc[c] = "streaming" /\ run[key[c]] # "over" => c \in subs[key[c]]
                 /\ pc[c] = "ended" => run[key[c]] = "over" /\ queue[c] = <<>>
                 /\ \A i \in 1 .. Len(queue[c]) : queue[c][i].type = "sentinel" =>
                       i = Len(queue[c]) /\ run[key[c]] = "over"
                 /\ run[key[c]] = "over" =>
                       "event" \in lost[c] \/ published[key[c]] \in Range(Delivered(c))
      BY <1>1, <3>3 DEF StreamInv, Subscribed, EndComesLast, LastDelivered
    <3>4. ASSUME Told(c), via[c] = "history", "event" \notin lost[c], key[c] \notin evicted,
                 published[key[c]] <= ReplaySize
          PROVE  Delivered(c) = [i \in 1 .. published[key[c]] |-> i]
      BY <1>1, <3>4 DEF StreamInv, NothingMissed, Told
    <3> QED BY <3>1, <3>2, <3>3, <3>4 DEF ForClient
  <2> QED BY <2>1, <2>2
<1>2. ASSUME Subscribers, \A c \in Client : ForClient(c)
      PROVE  Subscribed /\ EndComesLast /\ DeliveryGrows /\ LastDelivered /\ NothingMissed
  <2>1. Subscribed
    BY <1>2 DEF Subscribed, Subscribers, ForClient, Told
  <2>2. EndComesLast
    BY <1>2 DEF EndComesLast, ForClient
  <2>3. DeliveryGrows
    BY <1>2 DEF DeliveryGrows, ForClient
  <2>4. LastDelivered
    BY <1>2 DEF LastDelivered, ForClient
  <2>5. NothingMissed
    <3> SUFFICES ASSUME NEW c \in Client, pc[c] \in {"streaming", "ended"},
                        via[c] = "history", "event" \notin lost[c], key[c] \notin evicted,
                        published[key[c]] <= ReplaySize
                 PROVE  Delivered(c) = [i \in 1 .. published[key[c]] |-> i]
      BY DEF NothingMissed
    <3>1. Told(c)
      BY DEF Told
    <3> QED BY <1>2, <3>1 DEF ForClient
  <2> QED BY <2>1, <2>2, <2>3, <2>4, <2>5
<1>3. StreamInv => Typed /\ RunsInOrder /\ BuffersAreTails
  BY DEF StreamInv
<1> QED BY <1>1, <1>2, <1>3 DEF StreamInv, ByClient

\* after a step as well.
LEMMA ClientByClientNext == StreamInv' <=> ByClient'
BY ClientByClient, PTL

\* What the invariant says of a client still holds after a step that leaves the client as
\* it is, and its run with the same events and the same end.
LEMMA Unaffected ==
  ASSUME NEW d \in Client, ForClient(d),
         pc'[d] = pc[d], key'[d] = key[d], via'[d] = via[d], got'[d] = got[d],
         queue'[d] = queue[d], lost'[d] = lost[d], evicted \subseteq evicted',
         \A j \in Key : /\ run'[j] = "over" <=> run[j] = "over"
                        /\ run[j] # "absent" => run'[j] # "absent"
                        /\ published'[j] = published[j]
                        /\ d \in subs[j] => d \in subs'[j]
  PROVE  ForClient(d)'
<1>1. Told(d)' = Told(d) /\ Delivered(d)' = Delivered(d)
  BY DEF Told, Delivered
<1>2. Told(d)' => /\ key'[d] \in Key /\ run'[key'[d]] # "absent"
                  /\ GrowsTo(Delivered(d)', published'[key'[d]])
  <2> HAVE Told(d)'
  <2>1. key[d] \in Key /\ run[key[d]] # "absent" /\ GrowsTo(Delivered(d), published[key[d]])
    BY <1>1 DEF ForClient
  <2>2. published'[key'[d]] = published[key[d]] /\ run'[key'[d]] # "absent"
    BY <2>1
  <2> QED BY <1>1, <2>1, <2>2
<1>3. ~Told(d)' => queue'[d] = <<>> /\ got'[d] = <<>>
  BY <1>1 DEF ForClient
<1>4. ASSUME Told(d)', via'[d] = "history"
      PROVE /\ pc'[d] = "streaming" /\ run'[key'[d]] # "over" => d \in subs'[key'[d]]
            /\ pc'[d] = "ended" => run'[key'[d]] = "over" /\ queue'[d] = <<>>
            /\ \A i \in 1 .. Len(queue'[d]) : queue'[d][i].type = "sentinel" =>
                  i = Len(queue'[d]) /\ run'[key'[d]] = "over"
            /\ run'[key'[d]] = "over" =>
                  "event" \in lost'[d] \/ published'[key'[d]] \in Range(Delivered(d)')
            /\ "event" \notin lost'[d] /\ key'[d] \notin evicted'
               /\ published'[key'[d]] <= ReplaySize =>
                  Delivered(d)' = [i \in 1 .. published'[key'[d]] |-> i]
  <2>1. Told(d) /\ via[d] = "history" /\ key[d] \in Key
    BY <1>1, <1>4 DEF ForClient
  <2>2. /\ published'[key'[d]] = published[key[d]]
        /\ run'[key'[d]] = "over" <=> run[key[d]] = "over"
        /\ d \in subs[key[d]] => d \in subs'[key'[d]]
    BY <2>1
  <2>3. /\ pc[d] = "streaming" /\ run[key[d]] # "over" => d \in subs[key[d]]
        /\ pc[d] = "ended" => run[key[d]] = "over" /\ queue[d] = <<>>
        /\ \A i \in 1 .. Len(queue[d]) : queue[d][i].type = "sentinel" =>
              i = Len(queue[d]) /\ run[key[d]] = "over"
        /\ run[key[d]] = "over" =>
              "event" \in lost[d] \/ published[key[d]] \in Range(Delivered(d))
        /\ "event" \notin lost[d] /\ key[d] \notin evicted /\ published[key[d]] <= ReplaySize =>
              Delivered(d) = [i \in 1 .. published[key[d]] |-> i]
    BY <2>1 DEF ForClient
  <2> QED BY <1>1, <2>1, <2>2, <2>3
<1> QED BY <1>2, <1>3, <1>4 DEF ForClient, Range

\* create_run keeps the invariant,
LEMMA CreateKeeps == ASSUME StreamInv, NEW k \in Key, create_run(k) PROVE StreamInv'
<1>1. /\ Typed /\ RunsInOrder /\ BuffersAreTails /\ Subscribers
      /\ \A c \in Client : ForClient(c)
  BY ClientByClient DEF ByClient
<1>2. /\ run[k] = "absent" /\ run' = [run EXCEPT ![k] = "created"]
      /\ run \in [Key -> {"absent", "created", "live", "over"}]
  BY <1>1 DEF create_run, Typed
<1>3. /\ subs' = subs /\ queue' = queue /\ histories' = histories /\ buffer' = buffer
      /\ finished' = finished /\ lost' = lost /\ evicted' = evicted /\ pc' = pc /\ key' = key
      /\ got' = got /\ published' = published /\ via' = via
  BY DEF create_run, broker, client
<1>4. \A j \in Key : /\ Opened(j)' = Opened(j) /\ (run'[j] = "over" <=> run[j] = "over")
                     /\ run[j] # "absent" => run'[j] # "absent"
  BY <1>2 DEF Opened
<1>5. run' \in [Key -> {"absent", "created", "live", "over"}]
  BY <1>2
<1>6. Typed'
  BY <1>1, <1>3, <1>5 DEF Typed
<1>7. RunsInOrder'
  BY <1>1, <1>3, <1>4 DEF RunsInOrder
<1>8. BuffersAreTails'
  BY <1>1, <1>3, <1>4 DEF BuffersAreTails
<1>9. Subscribers'
  BY <1>1, <1>3 DEF Subscribers
<1>10. ASSUME NEW d \in Client PROVE ForClient(d)'
  BY <1>1, <1>3, <1>4, Unaffected
<1>11. \A d \in Client : ForClient(d)'
  BY <1>10
<1> QED BY <1>6, <1>7, <1>8, <1>9, <1>11, ClientByClientNext DEF ByClient

\* and so does chat_start: the history it opens is empty.
LEMMA StartKeeps == ASSUME StreamInv, NEW k \in Key, chat_start(k) PROVE StreamInv'
<1>1. /\ Typed /\ RunsInOrder /\ BuffersAreTails /\ Subscribers
      /\ \A c \in Client : ForClient(c)
  BY ClientByClient DEF ByClient
<1>2. /\ run[k] = "created" /\ run' = [run EXCEPT ![k] = "live"]
      /\ run \in [Key -> {"absent", "created", "live", "over"}]
  BY <1>1 DEF chat_start, Typed
<1>3. /\ subs' = subs /\ queue' = queue /\ lost' = lost /\ pc' = pc /\ key' = key
      /\ got' = got /\ published' = published /\ via' = via
  BY DEF chat_start, open, client
<1>4. touch(k, <<>>) /\ finished' = (finished \cap Range(histories')) \ {k}
  BY ChatAssumption DEF chat_start, open, still_finished
<1>5. Recorded(k) /\ buffer'[k] = LastOf(buffer[k] \o <<>>, ReplaySize)
  BY <1>1, <1>4, TouchRecords
<1>6. published[k] = 0 /\ k \notin Range(histories)
  BY <1>1, <1>2 DEF RunsInOrder, Opened
<1>7. buffer'[k] = <<>>
  <2>1. buffer[k] \in Seq(Nat) /\ Len(buffer[k]) <= 0
    BY <1>1, <1>6 DEF Typed, BuffersAreTails, IsTail
  <2>2. buffer[k] = <<>>
    BY <2>1
  <2>3. <<>> \o <<>> = <<>> /\ Len(<<>>) = 0 /\ ReplaySize \in Nat
    BY BrokerAssumption
  <2> QED BY <1>5, <2>2, <2>3 DEF LastOf
<1>8. \A j \in Key : /\ (run'[j] = "over" <=> run[j] = "over")
                     /\ run[j] # "absent" => run'[j] # "absent"
                     /\ Opened(j)' <=> Opened(j) \/ j = k
  BY <1>2 DEF Opened
<1>9. Typed'
  <2>1. buffer'[k] \in Seq(Nat)
    BY <1>7, EmptyTail
  <2>2. buffer' \in [Key -> Seq(Nat)] /\ evicted' \subseteq Key
    BY <1>1, <1>5, <2>1, RecordedTypes
  <2>3. run' \in [Key -> {"absent", "created", "live", "over"}]
    BY <1>2
  <2>4. histories' \in Seq(Key) /\ finished' \subseteq Range(histories')
    BY <1>4, <1>5 DEF Recorded
  <2> QED BY <1>1, <1>3, <2>2, <2>3, <2>4 DEF Typed
<1>10. RunsInOrder'
  <2>1. ASSUME NEW j \in Key
        PROVE  /\ ~Opened(j)' => published'[j] = 0 /\ j \notin Range(histories')
               /\ run'[j] = "over" => published'[j] > 0
               /\ j \in finished' => run'[j] = "over"
    <3>1. j # k => (j \in Range(histories') => j \in Range(histories))
      BY <1>5 DEF Recorded
    <3>2. j \in finished' => j \in finished
      BY <1>4
    <3>3. /\ ~Opened(j) => published[j] = 0 /\ j \notin Range(histories)
          /\ run[j] = "over" => published[j] > 0
          /\ j \in finished => run[j] = "over"
      BY <1>1 DEF RunsInOrder
    <3> QED BY <1>3, <1>8, <3>1, <3>2, <3>3
  <2> QED BY <2>1 DEF RunsInOrder
<1>11. BuffersAreTails'
  <2>1. ASSUME NEW j \in Key
        PROVE  /\ IsTail(buffer'[j], published'[j])
               /\ j \in Range(histories') /\ published'[j] > 0 => Len(buffer'[j]) > 0
               /\ Opened(j)' /\ j \notin evicted' =>
                     /\ j \in Range(histories')
                     /\ published'[j] <= ReplaySize => Len(buffer'[j]) = published'[j]
    <3>1. CASE j = k
      <4>1. IsTail(<<>>, 0) /\ Len(<<>>) = 0 /\ published'[k] = 0
        BY <1>3, <1>6, EmptyTail
      <4>2. k \in Range(histories')
        BY <1>5 DEF Recorded
      <4> QED BY <1>7, <3>1, <4>1, <4>2
    <3>2. CASE j # k
      <4>1. published'[j] = published[j] /\ (Opened(j)' <=> Opened(j)) /\ published[j] \in Nat
        BY <1>1, <1>3, <1>8, <3>2 DEF Typed
      <4>2. buffer'[j] = IF j \in Range(histories) \ Range(histories') THEN <<>> ELSE buffer[j]
        BY <1>5, <3>2 DEF Recorded
      <4>3. /\ j \in Range(histories') => j \in Range(histories)
            /\ j \notin evicted' =>
                  j \notin evicted /\ j \notin Range(histories) \ Range(histories')
        BY <1>5, <3>2 DEF Recorded
      <4>4. /\ IsTail(buffer[j], published[j])
            /\ j \in Range(histories) /\ published[j] > 0 => Len(buffer[j]) > 0
            /\ Opened(j) /\ j \notin evicted =>
                  /\ j \in Range(histories)
                  /\ published[j] <= ReplaySize => Len(buffer[j]) = published[j]
        BY <1>1 DEF BuffersAreTails
      <4>5. IsTail(<<>>, published[j])
        BY <4>1, EmptyTail
      <4> QED BY <4>1, <4>2, <4>3, <4>4, <4>5
    <3> QED BY <3>1, <3>2
  <2> QED BY <2>1 DEF BuffersAreTails
<1>12. Subscribers'
  BY <1>1, <1>3 DEF Subscribers
<1>13. evicted \subseteq evicted'
  BY <1>5 DEF Recorded
<1>14. \A d \in Client : ForClient(d)'
  BY <1>1, <1>3, <1>8, <1>13, Unaffected
<1> QED BY <1>9, <1>10, <1>11, <1>12, <1>14, ClientByClientNext DEF ByClient

\* One frame on an empty queue.
LEMMA NothingPut ==
  ASSUME NEW s \in Frame
  PROVE  /\ <<>> \in Seq(Frame) /\ Len(<<>>) = 0
         /\ Append(<<>>, s) \in Seq(Frame) /\ Len(Append(<<>>, s)) = 1
         /\ Append(<<>>, s)[1] = s
OBVIOUS

\* One frame more on a queue of one.
LEMMA OneMore ==
  ASSUME NEW F, NEW e \in Seq(F), NEW x \in F, Len(e) = 1
  PROVE  Append(e, x) \in Seq(F) /\ Len(Append(e, x)) = 2 /\ Append(e, x)[1] = e[1]
<1>1. 1 \in 1 .. Len(e) /\ Len(Append(e, x)) = 2
  OBVIOUS
<1>2. Append(e, x) \in Seq(F)
  OBVIOUS
<1>3. Append(e, x)[1] = IF 1 = Len(e) + 1 THEN x ELSE e[1]
  BY <1>1
<1> QED BY <1>1, <1>2, <1>3

\* The frames a new client is given.
LEMMA FirstFrames ==
  ASSUME NEW s \in Frame, NEW over \in BOOLEAN, s.type = "snapshot"
  PROVE  LET q == Put(<<>>, IF over THEN <<s, SENTINEL>> ELSE <<s>>)
         IN /\ q \in Seq(Frame) /\ Len(q) <= QueueSize /\ Text(q) = s.events
            /\ \A i \in 1 .. Len(q) : q[i].type = "sentinel" => over /\ i = Len(q)
<1> DEFINE q == Put(<<>>, IF over THEN <<s, SENTINEL>> ELSE <<s>>)
           e == Append(<<>>, s)
<1>1. QueueSize \in Nat /\ 0 < QueueSize
  BY BrokerAssumption
<1>2. /\ <<>> \in Seq(Frame) /\ Len(<<>>) = 0 /\ e \in Seq(Frame) /\ Len(e) = 1 /\ e[1] = s
  BY NothingPut
<1>3. SENTINEL \in Frame /\ SENTINEL.events = <<>>
  <2>1. 0 \in Nat
    OBVIOUS
  <2> QED BY <2>1, EventFrame
<1>4. s.events \in Seq(Nat)
  BY FrameEvents
<1>5. Text(e) = s.events
  <2>1. Text(e) = Text(<<>>) \o s.events
    BY <1>2, TextAppend
  <2>2. <<>> \o s.events = s.events
    BY <1>4, ConcatEmptySeq
  <2> QED BY <2>1, <2>2, TextEmpty
<1> DEFINE d == Append(e, SENTINEL)
<1>6. d \in Seq(Frame) /\ Len(d) = 2 /\ d[1] = s /\ Text(d) = s.events
  <2> HIDE DEF e
  <2>5. e \in Seq(Frame) /\ Len(e) = 1
    BY <1>2
  <2>6. SENTINEL \in Frame
    BY <1>3
  <2>1. d \in Seq(Frame) /\ Len(d) = 2
    BY <2>5, <2>6, OneMore
  <2>2. d[1] = e[1]
    BY <2>5, <2>6, OneMore
  <2>3. Text(d) = Text(e) \o <<>>
    BY <1>2, <1>3, TextAppend
  <2>4. s.events \o <<>> = s.events
    BY <1>4, ConcatEmptySeq
  <2> QED BY <1>2, <1>5, <2>1, <2>2, <2>3, <2>4
<1>7. q = e \/ (over /\ 1 < QueueSize /\ q = d)
  <2>3. <<>> \in Seq(Frame) /\ Len(<<>>) <= QueueSize
    BY <1>1, <1>2
  <2>4. SENTINEL \in Frame
    BY <1>3
  <2>1. CASE over
    <3>1. Put(<<>>, <<s, SENTINEL>>) = IF Len(<<>>) + 1 < QueueSize THEN d
                                       ELSE IF Len(<<>>) < QueueSize THEN e ELSE <<>>
      BY <2>3, <2>4, PutTwo
    <3> HIDE DEF e, d
    <3>2. (Put(<<>>, <<s, SENTINEL>>) = d /\ 1 < QueueSize) \/ Put(<<>>, <<s, SENTINEL>>) = e
      BY <1>1, <1>2, <3>1
    <3> QED BY <2>1, <3>2
  <2>2. CASE ~over
    <3>1. Put(<<>>, <<s>>) = IF Len(<<>>) < QueueSize THEN e ELSE <<>>
      BY <2>3, PutOne
    <3> HIDE DEF e, d
    <3>2. Put(<<>>, <<s>>) = e
      BY <1>1, <1>2, <3>1
    <3> QED BY <2>2, <3>2
  <2> QED BY <2>1, <2>2
<1> HIDE DEF e, d, q
<1>8. CASE q = e
  <2>1. \A i \in 1 .. 1 : i = 1
    OBVIOUS
  <2>2. \A i \in 1 .. Len(e) : e[i].type # "sentinel"
    BY <1>2, <2>1
  <2>3. Len(e) <= QueueSize
    BY <1>1, <1>2
  <2> QED BY <1>2, <1>5, <1>8, <2>2, <2>3 DEF q
<1>9. CASE over /\ 1 < QueueSize /\ q = d
  <2>1. \A i \in 1 .. 2 : i = 1 \/ i = 2
    OBVIOUS
  <2>2. \A i \in 1 .. Len(d) : d[i].type = "sentinel" => i = Len(d)
    BY <1>6, <2>1
  <2>3. Len(d) <= QueueSize
    BY <1>1, <1>6, <1>9
  <2> QED BY <1>6, <1>9, <2>2, <2>3 DEF q
<1> QED BY <1>7, <1>8, <1>9

\* The last event is in a buffer that is not empty.
LEMMA TailHasLast ==
  ASSUME NEW b \in Seq(Nat), NEW n \in Nat, IsTail(b, n), Len(b) > 0 PROVE n \in Range(b)
<1>1. Len(b) \in Nat /\ Len(b) \in 1 .. Len(b) /\ DOMAIN b = 1 .. Len(b)
  OBVIOUS
<1>2. b[Len(b)] = n - Len(b) + Len(b)
  BY <1>1 DEF IsTail
<1>3. b[Len(b)] = n
  BY <1>1, <1>2
<1> QED BY <1>1, <1>3 DEF Range

\* chat_run_events keeps the invariant: what the buffer has is all there was, if it fits.
LEMMA SubscribeKeeps ==
  ASSUME StreamInv, NEW c \in Client, NEW k \in Key, chat_run_events(c, k) PROVE StreamInv'
<1>1. /\ Typed /\ RunsInOrder /\ BuffersAreTails /\ Subscribers
      /\ \A d \in Client : ForClient(d)
  BY ClientByClient DEF ByClient
<1> DEFINE s == Item("snapshot", buffer[k])
           over == is_finished(k) \/ ~is_known(k)
           items == IF over THEN <<s, SENTINEL>> ELSE <<s>>
<1>2. /\ pc[c] = "new" /\ run[k] # "absent" /\ key' = [key EXCEPT ![c] = k]
      /\ pc' = [pc EXCEPT ![c] = "streaming"] /\ subs' = [subs EXCEPT ![k] = @ \cup {c}]
      /\ queue' = [queue EXCEPT ![c] = Put(<<>>, items)]
  BY DEF chat_run_events, subscribe
<1>3. via' = [via EXCEPT ![c] = CASE k \in Range(histories) -> "history"
                                  [] ~is_known(k) -> "nothing"
                                  [] OTHER -> "subscribers"]
  BY DEF chat_run_events
<1>4. /\ histories' = histories /\ buffer' = buffer /\ finished' = finished /\ lost' = lost
      /\ evicted' = evicted /\ got' = got /\ run' = run /\ published' = published
  BY DEF chat_run_events, subscribe
<1>5. /\ subs \in [Key -> SUBSET Client]
      /\ pc \in [Client -> {"new", "read", "streaming", "ended", "left"}]
      /\ key \in [Client -> Key \cup {NoKey}] /\ via \in [Client -> Via]
      /\ queue \in [Client -> Seq(Frame)]
  BY <1>1 DEF Typed
<1>6. buffer[k] \in Seq(Nat) /\ published[k] \in Nat
  BY <1>1 DEF Typed
<1>7. s \in Frame /\ s.type = "snapshot" /\ s.events = buffer[k]
  BY <1>6 DEF Frame, Item
<1>8. over \in BOOLEAN
  BY DEF is_known, is_finished
<1> DEFINE q == Put(<<>>, items)
<1>9. /\ q \in Seq(Frame) /\ Len(q) <= QueueSize /\ Text(q) = buffer[k]
      /\ \A i \in 1 .. Len(q) : q[i].type = "sentinel" => over /\ i = Len(q)
  <2> HIDE DEF over, s
  <2> QED BY <1>7, <1>8, FirstFrames
<1>10. k \in Range(histories) => (over => run[k] = "over")
  BY <1>1 DEF is_finished, is_known, RunsInOrder
<1> HIDE DEF s, over, items, q
<1>11. queue' = [queue EXCEPT ![c] = q]
  BY <1>2 DEF q
<1>12. via'[c] \in Via /\ (via'[c] = "history" => k \in Range(histories))
  BY <1>3, <1>5 DEF Via
<1>13. pc'[c] = "streaming" /\ key'[c] = k /\ queue'[c] = q /\ c \in subs'[k]
  BY <1>2, <1>5, <1>11
<1>14. \A d \in Client : d # c => /\ pc'[d] = pc[d] /\ key'[d] = key[d] /\ via'[d] = via[d]
                                  /\ queue'[d] = queue[d]
  BY <1>2, <1>3, <1>5, <1>11
<1>15. \A j \in Key : /\ subs[j] \subseteq subs'[j]
                      /\ \A d \in subs'[j] : d \in subs[j] \/ (d = c /\ j = k)
  BY <1>2, <1>5
<1>16. Typed'
  <2>1. queue' \in [Client -> Seq(Frame)] /\ \A d \in Client : Len(queue'[d]) <= QueueSize
    <3>1. \A d \in Client : Len(queue[d]) <= QueueSize
      BY <1>1 DEF Typed
    <3>2. \A d \in Client : Len(queue'[d]) <= QueueSize
      BY <1>9, <1>13, <1>14, <3>1
    <3> QED BY <1>5, <1>9, <1>11, <3>2
  <2>2. subs' \in [Key -> SUBSET Client] /\ key' \in [Client -> Key \cup {NoKey}]
    BY <1>2, <1>5
  <2>3. pc' \in [Client -> {"new", "read", "streaming", "ended", "left"}]
    BY <1>2, <1>5
  <2>4. via' \in [Client -> Via]
    BY <1>3, <1>5, <1>12
  <2> QED BY <1>1, <1>4, <2>1, <2>2, <2>3, <2>4 DEF Typed
<1>17. RunsInOrder'
  BY <1>1, <1>4 DEF RunsInOrder, Opened
<1>18. BuffersAreTails'
  BY <1>1, <1>4 DEF BuffersAreTails, Opened
<1>19. Subscribers'
  <2> SUFFICES ASSUME NEW j \in Key, NEW d \in subs'[j]
               PROVE  pc'[d] = "streaming" /\ key'[d] = j
    BY DEF Subscribers
  <2>1. CASE d = c
    <3>1. c \notin subs[j]
      BY <1>1, <1>2 DEF Subscribers
    <3> QED BY <1>13, <1>15, <2>1, <3>1
  <2>2. CASE d # c
    <3>1. d \in subs[j] /\ d \in Client
      BY <1>5, <1>15, <2>2
    <3>2. pc[d] = "streaming" /\ key[d] = j
      BY <1>1, <3>1 DEF Subscribers
    <3> QED BY <1>14, <2>2, <3>1, <3>2
  <2> QED BY <2>1, <2>2
<1>20. ASSUME NEW d \in Client, d # c PROVE ForClient(d)'
  <2>1. ForClient(d) /\ evicted \subseteq evicted'
    BY <1>1, <1>4
  <2>2. /\ pc'[d] = pc[d] /\ key'[d] = key[d] /\ via'[d] = via[d] /\ got'[d] = got[d]
        /\ queue'[d] = queue[d] /\ lost'[d] = lost[d]
    BY <1>4, <1>14, <1>20
  <2>3. \A j \in Key : /\ run'[j] = "over" <=> run[j] = "over"
                       /\ run[j] # "absent" => run'[j] # "absent"
                       /\ published'[j] = published[j]
                       /\ d \in subs[j] => d \in subs'[j]
    BY <1>4, <1>15
  <2> QED BY <2>1, <2>2, <2>3, Unaffected
<1>21. ForClient(c)'
  <2>1. got[c] = <<>>
    BY <1>1, <1>2 DEF ForClient, Told
  <2>2. Delivered(c)' = buffer[k]
    <3>1. Delivered(c)' = got'[c] \o Text(queue'[c])
      BY DeliveredNext
    <3>2. <<>> \o buffer[k] = buffer[k]
      BY <1>6, ConcatEmptySeq
    <3> QED BY <1>4, <1>9, <1>13, <2>1, <3>1, <3>2
  <2>3. IsTail(buffer[k], published[k]) /\ GrowsTo(buffer[k], published[k])
    <3>1. IsTail(buffer[k], published[k])
      BY <1>1 DEF BuffersAreTails
    <3> QED BY <1>6, <3>1, TailGrowsTo
  <2>4. Told(c)'
    BY <1>13 DEF Told
  <2>5. key'[c] \in Key /\ run'[key'[c]] # "absent"
          /\ GrowsTo(Delivered(c)', published'[key'[c]])
    BY <1>2, <1>4, <1>13, <2>2, <2>3
  <2>6. ASSUME via'[c] = "history"
        PROVE  /\ pc'[c] = "streaming" /\ run'[key'[c]] # "over" => c \in subs'[key'[c]]
               /\ pc'[c] # "ended"
               /\ \A i \in 1 .. Len(queue'[c]) : queue'[c][i].type = "sentinel" =>
                     i = Len(queue'[c]) /\ run'[key'[c]] = "over"
               /\ run'[key'[c]] = "over" => published'[key'[c]] \in Range(Delivered(c)')
               /\ key'[c] \notin evicted' /\ published'[key'[c]] <= ReplaySize =>
                     Delivered(c)' = [i \in 1 .. published'[key'[c]] |-> i]
    <3>1. k \in Range(histories)
      BY <1>12, <2>6
    <3>2. Opened(k)
      BY <1>1, <3>1 DEF RunsInOrder
    <3>3. \A i \in 1 .. Len(q) : q[i].type = "sentinel" => i = Len(q) /\ run[k] = "over"
      BY <1>9, <1>10, <3>1
    <3>4. run[k] = "over" => published[k] \in Range(buffer[k])
      <4> HAVE run[k] = "over"
      <4>1. published[k] > 0
        BY <1>1 DEF RunsInOrder
      <4>2. Len(buffer[k]) > 0
        BY <1>1, <3>1, <4>1 DEF BuffersAreTails
      <4> QED BY <1>6, <2>3, <4>2, TailHasLast
    <3>5. k \notin evicted /\ published[k] <= ReplaySize =>
             buffer[k] = [i \in 1 .. published[k] |-> i]
      <4> HAVE k \notin evicted /\ published[k] <= ReplaySize
      <4>1. Len(buffer[k]) = published[k]
        BY <1>1, <3>2 DEF BuffersAreTails
      <4> QED BY <1>6, <2>3, <4>1, WholeTail
    <3> QED BY <1>4, <1>13, <2>2, <3>3, <3>4, <3>5
  <2> QED BY <2>4, <2>5, <2>6 DEF ForClient, Range
<1>22. \A d \in Client : ForClient(d)'
  BY <1>20, <1>21
<1> QED BY <1>16, <1>17, <1>18, <1>19, <1>22, ClientByClientNext DEF ByClient

\* sse_response keeps the invariant: it moves what is delivered from the queue to the client.
LEMMA ReadKeeps == ASSUME StreamInv, NEW c \in Client, read(c) PROVE StreamInv'
<1>1. /\ Typed /\ RunsInOrder /\ BuffersAreTails /\ Subscribers
      /\ \A d \in Client : ForClient(d)
  BY ClientByClient DEF ByClient
<1> DEFINE item == Head(queue[c])
<1>2. pc[c] = "streaming" /\ queue[c] # <<>>
  BY DEF read, drain
<1>3. /\ histories' = histories /\ buffer' = buffer /\ finished' = finished /\ lost' = lost
      /\ evicted' = evicted /\ key' = key /\ run' = run /\ published' = published /\ via' = via
  BY DEF read, drain
<1>4. /\ subs \in [Key -> SUBSET Client]
      /\ pc \in [Client -> {"new", "read", "streaming", "ended", "left"}]
      /\ got \in [Client -> Seq(Nat)] /\ queue \in [Client -> Seq(Frame)]
  BY <1>1 DEF Typed
<1>5. queue[c] \in Seq(Frame) /\ got[c] \in Seq(Nat) /\ Len(queue[c]) \in Nat /\ Len(queue[c]) > 0
  BY <1>2, <1>4
<1>6. item \in Frame /\ item = queue[c][1] /\ 1 \in 1 .. Len(queue[c])
  BY <1>5
<1>7. Told(c) /\ key[c] \in Key
  BY <1>1, <1>2 DEF Told, ForClient
<1>8. RunsInOrder'
  BY <1>1, <1>3 DEF RunsInOrder, Opened
<1>9. BuffersAreTails'
  BY <1>1, <1>3 DEF BuffersAreTails, Opened
<1>10. \A d \in Client : Len(queue[d]) <= QueueSize
  BY <1>1 DEF Typed
<1>11. ASSUME item.type = "sentinel" PROVE StreamInv'
  <2>1. /\ pc' = [pc EXCEPT ![c] = "ended"] /\ queue' = [queue EXCEPT ![c] = <<>>]
        /\ subs' = [subs EXCEPT ![key[c]] = @ \ {c}] /\ got' = got
    BY <1>11 DEF read, drain, unsubscribe
  <2>2. pc'[c] = "ended" /\ queue'[c] = <<>>
    BY <1>4, <2>1
  <2>3. \A d \in Client : d # c => pc'[d] = pc[d] /\ queue'[d] = queue[d]
    BY <1>4, <2>1
  <2>4. \A j \in Key : /\ subs'[j] \subseteq subs[j]
                       /\ \A d \in Client : d # c /\ d \in subs[j] => d \in subs'[j]
                       /\ c \in subs'[j] => j # key[c]
    BY <1>4, <2>1
  <2>5. Typed'
    <3>1. <<>> \in Seq(Frame) /\ Len(<<>>) = 0 /\ QueueSize \in Nat
      BY BrokerAssumption
    <3>2. queue' \in [Client -> Seq(Frame)]
      BY <1>4, <2>1, <3>1
    <3>3. \A d \in Client : Len(queue'[d]) <= QueueSize
      BY <1>10, <2>2, <2>3, <3>1
    <3>4. pc' \in [Client -> {"new", "read", "streaming", "ended", "left"}]
      BY <1>4, <2>1
    <3>5. subs' \in [Key -> SUBSET Client]
      BY <1>4, <2>1
    <3> QED BY <1>1, <1>3, <2>1, <3>2, <3>3, <3>4, <3>5 DEF Typed
  <2>6. Subscribers'
    <3> SUFFICES ASSUME NEW j \in Key, NEW d \in subs'[j]
                 PROVE  pc'[d] = "streaming" /\ key'[d] = j
      BY DEF Subscribers
    <3>1. d \in subs[j] /\ d \in Client
      BY <1>4, <2>4
    <3>2. pc[d] = "streaming" /\ key[d] = j
      BY <1>1, <3>1 DEF Subscribers
    <3>3. d # c
      BY <2>4, <3>2
    <3> QED BY <1>3, <2>3, <3>1, <3>2, <3>3
  <2>7. ASSUME NEW d \in Client, d # c PROVE ForClient(d)'
    <3>1. ForClient(d) /\ evicted \subseteq evicted'
      BY <1>1, <1>3
    <3>2. /\ pc'[d] = pc[d] /\ key'[d] = key[d] /\ via'[d] = via[d] /\ got'[d] = got[d]
          /\ queue'[d] = queue[d] /\ lost'[d] = lost[d]
      BY <1>3, <2>1, <2>3, <2>7
    <3>3. \A j \in Key : /\ run'[j] = "over" <=> run[j] = "over"
                         /\ run[j] # "absent" => run'[j] # "absent"
                         /\ published'[j] = published[j]
                         /\ d \in subs[j] => d \in subs'[j]
      BY <1>3, <2>4, <2>7
    <3> QED BY <3>1, <3>2, <3>3, Unaffected
  <2>8. ForClient(c)'
    <3>1. Delivered(c)' = got[c]
      <4>1. Delivered(c)' = got'[c] \o Text(queue'[c])
        BY DeliveredNext
      <4>2. got[c] \o <<>> = got[c]
        BY <1>5, ConcatEmptySeq
      <4> QED BY <2>1, <2>2, <4>1, <4>2, TextEmpty
    <3>2. run[key[c]] # "absent" /\ GrowsTo(Delivered(c), published[key[c]])
      BY <1>1, <1>7 DEF ForClient
    <3>3. GrowsTo(got[c], published[key[c]])
      <4>1. Text(queue[c]) \in Seq(Nat) /\ published[key[c]] \in Nat
        BY <1>1, <1>5, <1>7, TextType DEF Typed
      <4>2. GrowsTo(got[c] \o Text(queue[c]), published[key[c]])
        BY <3>2, DeliveredText
      <4> QED BY <1>5, <4>1, <4>2, GrowsPrefix
    <3>4. Told(c)'
      BY <2>2 DEF Told
    <3>5. key'[c] \in Key /\ run'[key'[c]] # "absent"
          /\ GrowsTo(Delivered(c)', published'[key'[c]])
      BY <1>3, <1>7, <3>1, <3>2, <3>3
    <3>6. ASSUME via'[c] = "history"
          PROVE  /\ run'[key'[c]] = "over" /\ Delivered(c)' = Delivered(c)
                 /\ "event" \in lost[c] \/ published[key[c]] \in Range(Delivered(c))
                 /\ "event" \notin lost[c] /\ key[c] \notin evicted
                    /\ published[key[c]] <= ReplaySize =>
                       Delivered(c) = [i \in 1 .. published[key[c]] |-> i]
      <4>1. /\ \A i \in 1 .. Len(queue[c]) : queue[c][i].type = "sentinel" =>
                  i = Len(queue[c]) /\ run[key[c]] = "over"
            /\ run[key[c]] = "over" =>
                  "event" \in lost[c] \/ published[key[c]] \in Range(Delivered(c))
            /\ "event" \notin lost[c] /\ key[c] \notin evicted /\ published[key[c]] <= ReplaySize =>
                  Delivered(c) = [i \in 1 .. published[key[c]] |-> i]
        BY <1>1, <1>3, <1>7, <3>6 DEF ForClient
      <4>2. Len(queue[c]) = 1 /\ run[key[c]] = "over"
        <5>1. queue[c][1].type = "sentinel" /\ 1 \in 1 .. Len(queue[c])
          BY <1>6, <1>11
        <5>2. 1 = Len(queue[c]) /\ run[key[c]] = "over"
          BY <4>1, <5>1
        <5> QED BY <5>2
      <4>3. Delivered(c) = got[c]
        <5>1. Text(queue[c]) = Head(queue[c]).events \o Text(Tail(queue[c]))
          BY <1>2, <1>5, TextHead
        <5>2. Head(queue[c]).events = <<>>
          BY <1>6, <1>11, FrameEvents
        <5>3. Tail(queue[c]) = <<>>
          <6>1. Tail(queue[c]) \in Seq(Frame) /\ Len(Tail(queue[c])) = Len(queue[c]) - 1
            BY <1>5
          <6>2. Len(Tail(queue[c])) = 0
            BY <4>2, <6>1
          <6> QED BY <6>1, <6>2, EmptySeq
        <5>4. <<>> \o <<>> = <<>> /\ got[c] \o <<>> = got[c]
          BY <1>5, ConcatEmptySeq
        <5> QED BY <5>1, <5>2, <5>3, <5>4, TextEmpty, DeliveredText
      <4> QED BY <1>3, <3>1, <4>1, <4>2, <4>3
    <3>7. \A i \in 1 .. Len(queue'[c]) : FALSE
      <4>1. Len(<<>>) = 0 /\ 1 .. 0 = {}
        OBVIOUS
      <4> QED BY <2>2, <4>1
    <3> QED BY <1>3, <2>2, <3>4, <3>5, <3>6, <3>7 DEF ForClient, Range
  <2>9. \A d \in Client : ForClient(d)'
    BY <2>7, <2>8
  <2> QED BY <1>8, <1>9, <2>5, <2>6, <2>9, ClientByClientNext DEF ByClient
<1>12. ASSUME item.type # "sentinel" PROVE StreamInv'
  <2>1. /\ queue' = [queue EXCEPT ![c] = Tail(@)] /\ pc' = pc /\ subs' = subs
        /\ got' = [got EXCEPT ![c] = @ \o item.events]
    BY <1>12 DEF read, drain
  <2>2. queue'[c] = Tail(queue[c]) /\ got'[c] = got[c] \o item.events
    BY <1>4, <2>1
  <2>3. \A d \in Client : d # c => queue'[d] = queue[d] /\ got'[d] = got[d]
    BY <1>4, <2>1
  <2>4. item.events \in Seq(Nat)
    BY <1>6, FrameEvents
  <2>5. /\ Tail(queue[c]) \in Seq(Frame) /\ Len(Tail(queue[c])) = Len(queue[c]) - 1
        /\ \A i \in 1 .. Len(queue[c]) - 1 : Tail(queue[c])[i] = queue[c][i + 1]
    BY <1>5
  <2>6. Typed'
    <3>1. queue' \in [Client -> Seq(Frame)]
      BY <1>4, <2>1, <2>5
    <3>2. got[c] \o item.events \in Seq(Nat)
      BY <1>5, <2>4
    <3>3. got' \in [Client -> Seq(Nat)]
      BY <1>4, <2>1, <3>2
    <3>4. \A d \in Client : Len(queue'[d]) <= QueueSize
      <4>1. Len(queue'[c]) <= QueueSize
        <5>1. Len(queue[c]) <= QueueSize /\ QueueSize \in Nat
          BY <1>10, BrokerAssumption
        <5> QED BY <1>5, <2>2, <2>5, <5>1
      <4> QED BY <1>10, <2>3, <4>1
    <3> QED BY <1>1, <1>3, <2>1, <3>1, <3>3, <3>4 DEF Typed
  <2>7. Subscribers'
    BY <1>1, <1>3, <2>1 DEF Subscribers
  <2>8. ASSUME NEW d \in Client, d # c PROVE ForClient(d)'
    <3>1. ForClient(d) /\ evicted \subseteq evicted'
      BY <1>1, <1>3
    <3>2. /\ pc'[d] = pc[d] /\ key'[d] = key[d] /\ via'[d] = via[d] /\ got'[d] = got[d]
          /\ queue'[d] = queue[d] /\ lost'[d] = lost[d]
      BY <1>3, <2>1, <2>3, <2>8
    <3>3. \A j \in Key : /\ run'[j] = "over" <=> run[j] = "over"
                         /\ run[j] # "absent" => run'[j] # "absent"
                         /\ published'[j] = published[j]
                         /\ d \in subs[j] => d \in subs'[j]
      BY <1>3, <2>1
    <3> QED BY <3>1, <3>2, <3>3, Unaffected
  <2>9. Delivered(c)' = Delivered(c)
    <3>1. Text(Tail(queue[c])) \in Seq(Nat)
      BY <2>5, TextType
    <3>2. Text(queue[c]) = item.events \o Text(Tail(queue[c]))
      BY <1>2, <1>5, TextHead
    <3> DEFINE t == Text(Tail(queue[c]))
               e == item.events
    <3> HIDE DEF t, e
    <3>3. (got[c] \o e) \o t = got[c] \o (e \o t)
      BY <1>5, <2>4, <3>1, JoinAssociative DEF t, e
    <3>4. Delivered(c)' = (got[c] \o e) \o t
      BY <2>2, DeliveredNext DEF t, e
    <3>5. Delivered(c) = got[c] \o (e \o t)
      BY <3>2, DeliveredText DEF t, e
    <3> QED BY <3>3, <3>4, <3>5
  <2>10. ForClient(c)'
    <3>1. Told(c)' /\ pc'[c] = "streaming"
      BY <1>2, <2>1 DEF Told
    <3>2. key'[c] \in Key /\ run'[key'[c]] # "absent"
          /\ GrowsTo(Delivered(c)', published'[key'[c]])
      BY <1>1, <1>3, <1>7, <2>9 DEF ForClient
    <3>3. ASSUME via'[c] = "history"
          PROVE  /\ run[key[c]] # "over" => c \in subs[key[c]]
                 /\ \A i \in 1 .. Len(queue[c]) : queue[c][i].type = "sentinel" =>
                       i = Len(queue[c]) /\ run[key[c]] = "over"
                 /\ run[key[c]] = "over" =>
                       "event" \in lost[c] \/ published[key[c]] \in Range(Delivered(c))
                 /\ "event" \notin lost[c] /\ key[c] \notin evicted
                    /\ published[key[c]] <= ReplaySize =>
                       Delivered(c) = [i \in 1 .. published[key[c]] |-> i]
      BY <1>1, <1>2, <1>3, <1>7, <3>3 DEF ForClient
    <3>4. ASSUME via'[c] = "history", NEW i \in 1 .. Len(queue'[c]),
                 queue'[c][i].type = "sentinel"
          PROVE  i = Len(queue'[c]) /\ run'[key'[c]] = "over"
      <4>1. i \in 1 .. Len(queue[c]) - 1 /\ i + 1 \in 1 .. Len(queue[c])
        BY <1>5, <2>2, <2>5, <3>4
      <4>2. queue'[c][i] = queue[c][i + 1]
        BY <2>2, <2>5, <4>1
      <4>3. i + 1 = Len(queue[c]) /\ run[key[c]] = "over"
        BY <3>3, <3>4, <4>1, <4>2
      <4>4. i = Len(queue[c]) - 1
        BY <4>1, <4>3
      <4> QED BY <1>3, <2>2, <2>5, <4>3, <4>4
    <3>5. ASSUME via'[c] = "history"
          PROVE  /\ pc'[c] = "streaming" /\ run'[key'[c]] # "over" => c \in subs'[key'[c]]
                 /\ pc'[c] # "ended"
                 /\ run'[key'[c]] = "over" =>
                       "event" \in lost'[c] \/ published'[key'[c]] \in Range(Delivered(c)')
                 /\ "event" \notin lost'[c] /\ key'[c] \notin evicted'
                    /\ published'[key'[c]] <= ReplaySize =>
                       Delivered(c)' = [i \in 1 .. published'[key'[c]] |-> i]
      BY <1>3, <2>1, <2>9, <3>1, <3>3, <3>5
    <3> QED BY <3>1, <3>2, <3>4, <3>5 DEF ForClient, Range
  <2>11. \A d \in Client : ForClient(d)'
    BY <2>8, <2>10
  <2> QED BY <1>8, <1>9, <2>6, <2>7, <2>11, ClientByClientNext DEF ByClient
<1> QED BY <1>11, <1>12

\* A client that leaves is told no more, and the others are as they were.
LEMMA LeaveKeeps == ASSUME StreamInv, NEW c \in Client, leave(c) PROVE StreamInv'
<1>1. /\ Typed /\ RunsInOrder /\ BuffersAreTails /\ Subscribers
      /\ \A d \in Client : ForClient(d)
  BY ClientByClient DEF ByClient
<1>2. /\ pc' = [pc EXCEPT ![c] = "left"] /\ queue' = [queue EXCEPT ![c] = <<>>]
      /\ subs' = [subs EXCEPT ![key[c]] = @ \ {c}] /\ key' = [key EXCEPT ![c] = NoKey]
      /\ got' = [got EXCEPT ![c] = <<>>] /\ lost' = [lost EXCEPT ![c] = {}]
      /\ via' = [via EXCEPT ![c] = "none"]
  BY DEF leave, disconnect, unsubscribe
<1>3. /\ histories' = histories /\ buffer' = buffer /\ finished' = finished
      /\ evicted' = evicted /\ run' = run /\ published' = published
  BY DEF leave, disconnect
<1>4. /\ subs \in [Key -> SUBSET Client]
      /\ pc \in [Client -> {"new", "read", "streaming", "ended", "left"}]
      /\ got \in [Client -> Seq(Nat)] /\ queue \in [Client -> Seq(Frame)]
      /\ lost \in [Client -> SUBSET {"event", "sentinel"}]
      /\ key \in [Client -> Key \cup {NoKey}] /\ via \in [Client -> Via]
  BY <1>1 DEF Typed
<1>5. RunsInOrder'
  BY <1>1, <1>3 DEF RunsInOrder, Opened
<1>6. BuffersAreTails'
  BY <1>1, <1>3 DEF BuffersAreTails, Opened
<1>7. \A d \in Client : d # c => /\ pc'[d] = pc[d] /\ queue'[d] = queue[d] /\ key'[d] = key[d]
                                 /\ got'[d] = got[d] /\ lost'[d] = lost[d] /\ via'[d] = via[d]
  BY <1>2, <1>4
<1>8. pc'[c] = "left" /\ queue'[c] = <<>> /\ got'[c] = <<>>
  BY <1>2, <1>4
<1>9. \A j \in Key : /\ subs'[j] \subseteq subs[j]
                     /\ \A d \in Client : d # c /\ d \in subs[j] => d \in subs'[j]
                     /\ c \in subs'[j] => j # key[c]
  BY <1>2, <1>4
<1>10. Typed'
  <2>1. <<>> \in Seq(Frame) /\ <<>> \in Seq(Nat) /\ Len(<<>>) = 0 /\ QueueSize \in Nat
    BY BrokerAssumption
  <2>2. queue' \in [Client -> Seq(Frame)] /\ got' \in [Client -> Seq(Nat)]
    BY <1>2, <1>4, <2>1
  <2>3. \A d \in Client : Len(queue'[d]) <= QueueSize
    <3>1. \A d \in Client : Len(queue[d]) <= QueueSize
      BY <1>1 DEF Typed
    <3> QED BY <1>7, <1>8, <2>1, <3>1
  <2>4. pc' \in [Client -> {"new", "read", "streaming", "ended", "left"}]
    BY <1>2, <1>4
  <2>5. subs' \in [Key -> SUBSET Client] /\ key' \in [Client -> Key \cup {NoKey}]
    BY <1>2, <1>4
  <2>6. lost' \in [Client -> SUBSET {"event", "sentinel"}]
    BY <1>2, <1>4
  <2>7. via' \in [Client -> Via]
    BY <1>2, <1>4 DEF Via
  <2> QED BY <1>1, <1>3, <2>2, <2>3, <2>4, <2>5, <2>6, <2>7 DEF Typed
<1>11. Subscribers'
  <2> SUFFICES ASSUME NEW j \in Key, NEW d \in subs'[j]
               PROVE  pc'[d] = "streaming" /\ key'[d] = j
    BY DEF Subscribers
  <2>1. d \in subs[j] /\ d \in Client
    BY <1>4, <1>9
  <2>2. pc[d] = "streaming" /\ key[d] = j
    BY <1>1, <2>1 DEF Subscribers
  <2>3. d # c
    BY <1>9, <2>2
  <2> QED BY <1>7, <2>1, <2>2, <2>3
<1>12. ASSUME NEW d \in Client, d # c PROVE ForClient(d)'
  <2>1. ForClient(d) /\ evicted \subseteq evicted'
    BY <1>1, <1>3
  <2>2. /\ pc'[d] = pc[d] /\ key'[d] = key[d] /\ via'[d] = via[d] /\ got'[d] = got[d]
        /\ queue'[d] = queue[d] /\ lost'[d] = lost[d]
    BY <1>7, <1>12
  <2>3. \A j \in Key : /\ run'[j] = "over" <=> run[j] = "over"
                       /\ run[j] # "absent" => run'[j] # "absent"
                       /\ published'[j] = published[j]
                       /\ d \in subs[j] => d \in subs'[j]
    BY <1>3, <1>9, <1>12
  <2> QED BY <2>1, <2>2, <2>3, Unaffected
<1>13. ForClient(c)'
  <2>1. ~Told(c)'
    BY <1>8 DEF Told
  <2> QED BY <1>8, <2>1 DEF ForClient
<1>14. \A d \in Client : ForClient(d)'
  BY <1>12, <1>13
<1> QED BY <1>5, <1>6, <1>10, <1>11, <1>14, ClientByClientNext DEF ByClient

\* A step of something else changes nothing here.
LEMMA StutterKeeps == ASSUME StreamInv, UNCHANGED vars PROVE StreamInv'
<1>1. /\ subs' = subs /\ queue' = queue /\ histories' = histories /\ buffer' = buffer
      /\ finished' = finished /\ lost' = lost /\ evicted' = evicted /\ pc' = pc /\ key' = key
      /\ got' = got /\ published' = published /\ via' = via /\ run' = run
  BY DEF vars, broker, client
<1>2. \A c : Delivered(c)' = Delivered(c)
  BY <1>1 DEF Delivered
<1>3. Typed' /\ RunsInOrder' /\ BuffersAreTails'
  BY <1>1 DEF StreamInv, Typed, RunsInOrder, BuffersAreTails, Opened
<1>4. Subscribed' /\ EndComesLast' /\ DeliveryGrows'
  BY <1>1, <1>2 DEF StreamInv, Subscribed, EndComesLast, DeliveryGrows, Told, GrowsTo
<1>5. LastDelivered' /\ NothingMissed'
  BY <1>1, <1>2 DEF StreamInv, LastDelivered, NothingMissed, Told, Range
<1> QED BY <1>3, <1>4, <1>5 DEF StreamInv

\* The invariant holds at the start,
LEMMA StreamStart == Init => StreamInv
<1> SUFFICES ASSUME Init PROVE StreamInv
  OBVIOUS
<1>1. /\ subs = [k \in Key |-> {}] /\ queue = [c \in Client |-> <<>>] /\ histories = <<>>
      /\ buffer = [k \in Key |-> <<>>] /\ finished = {} /\ pc = [c \in Client |-> "new"]
      /\ key = [c \in Client |-> NoKey] /\ got = [c \in Client |-> <<>>]
      /\ lost = [c \in Client |-> {}] /\ evicted = {} /\ run = [k \in Key |-> "absent"]
      /\ published = [k \in Key |-> 0] /\ via = [c \in Client |-> "none"]
  BY DEF Init, BrokerInit
<1>2. <<>> \in Seq(Frame) /\ <<>> \in Seq(Nat) /\ <<>> \in Seq(Key) /\ Len(<<>>) = 0
  OBVIOUS
<1>3. Typed
  <2>1. Len(<<>>) <= QueueSize
    BY <1>2, BrokerAssumption
  <2>2. \A c \in Client : Len(queue[c]) <= QueueSize
    BY <1>1, <2>1
  <2> QED BY <1>1, <1>2, <2>2 DEF Typed, Via
<1>4. Range(histories) = {}
  <2>1. DOMAIN histories = {}
    BY <1>1
  <2> QED BY <2>1 DEF Range
<1>5. RunsInOrder
  BY <1>1, <1>4 DEF RunsInOrder, Opened
<1>6. BuffersAreTails
  <2>1. IsTail(<<>>, 0)
    BY EmptyTail
  <2> QED BY <1>1, <1>4, <2>1 DEF BuffersAreTails, Opened
<1>7. Subscribers
  BY <1>1 DEF Subscribers
<1>8. \A c \in Client : ForClient(c)
  BY <1>1 DEF ForClient, Told
<1> QED BY <1>3, <1>5, <1>6, <1>7, <1>8, ClientByClient DEF ByClient

\* every step keeps it,
LEMMA StreamStep == StreamInv /\ [Next]_vars => StreamInv'
<1> SUFFICES ASSUME StreamInv, [Next]_vars PROVE StreamInv'
  OBVIOUS
<1>1. ASSUME NEW k \in Key, create_run(k) PROVE StreamInv'
  BY <1>1, CreateKeeps
<1>2. ASSUME NEW k \in Key, chat_start(k) PROVE StreamInv'
  BY <1>2, StartKeeps
<1>3. ASSUME NEW k \in Key, on_event(k) PROVE StreamInv'
  <2>1. Publishes(k, FALSE)
    BY <1>3, EventPublishes
  <2> QED BY <2>1, PublishKeeps
<1>4. ASSUME NEW k \in Key, drive_ends(k) PROVE StreamInv'
  <2>1. Publishes(k, TRUE)
    BY <1>4, EndPublishes
  <2> QED BY <2>1, PublishKeeps
<1>5. ASSUME NEW c \in Client, NEW k \in Key, chat_run_events(c, k) PROVE StreamInv'
  BY <1>5, SubscribeKeeps
<1>6. ASSUME NEW c \in Client, read(c) PROVE StreamInv'
  BY <1>6, ReadKeeps
<1>7. ASSUME NEW c \in Client, leave(c) PROVE StreamInv'
  BY <1>7, LeaveKeeps
<1>8. CASE UNCHANGED vars
  BY <1>8, StutterKeeps
<1> QED BY <1>1, <1>2, <1>3, <1>4, <1>5, <1>6, <1>7, <1>8 DEF Next, drive

\* and it implies the property.
LEMMA StreamMeans == StreamInv => StreamIsWhole
<1> SUFFICES ASSUME StreamInv PROVE StreamIsWhole
  OBVIOUS
<1>1. \A c \in Client : ForClient(c)
  BY ClientByClient DEF ByClient
<1>2. Typed
  BY DEF StreamInv
<1>3. ASSUME NEW c \in Client
      PROVE  \A i, j \in DOMAIN Delivered(c) : i < j => Delivered(c)[i] < Delivered(c)[j]
  <2>1. CASE Told(c)
    BY <1>1, <2>1 DEF ForClient, GrowsTo
  <2>2. CASE ~Told(c)
    <3>1. queue[c] = <<>> /\ got[c] = <<>>
      BY <1>1, <2>2 DEF ForClient
    <3>2. <<>> \o <<>> = <<>> /\ DOMAIN <<>> = {}
      OBVIOUS
    <3>3. DOMAIN Delivered(c) = {}
      BY <3>1, <3>2, TextEmpty, DeliveredText
    <3> QED BY <3>3
  <2> QED BY <2>1, <2>2
<1>4. InOrder
  BY <1>3 DEF InOrder
<1>5. FinishedBuffered /\ NothingMissed
  BY <1>2 DEF Typed, FinishedBuffered, StreamInv
<1>6. ASSUME NEW c \in Client, pc[c] = "ended", via[c] = "history"
      PROVE  run[key[c]] = "over" /\ ("event" \in lost[c] \/ published[key[c]] \in Range(got[c]))
  <2>1. Told(c)
    BY <1>6 DEF Told
  <2>2. run[key[c]] = "over" /\ queue[c] = <<>>
    BY <1>1, <1>6, <2>1 DEF ForClient
  <2>3. "event" \in lost[c] \/ published[key[c]] \in Range(Delivered(c))
    BY <1>1, <1>6, <2>1, <2>2 DEF ForClient
  <2>4. Delivered(c) = got[c]
    <3>1. got[c] \in Seq(Nat)
      BY <1>2 DEF Typed
    <3>2. got[c] \o <<>> = got[c]
      BY <3>1, ConcatEmptySeq
    <3> QED BY <2>2, <3>2, TextEmpty, DeliveredText
  <2> QED BY <2>2, <2>3, <2>4
<1>7. EndsWithAnswer
  BY <1>6 DEF EndsWithAnswer
<1> QED BY <1>4, <1>5, <1>7 DEF StreamIsWhole, ReplayIsSound

\* What a client of GET /chat/runs/{id}/events is told is the run's events in order, each
\* once, and all of them if it found the run's history, no queue overflowed and the buffer
\* is large enough; a stream that ends by itself has had the last one; whatever the sizes
\* of queues, buffers and histories and however many runs and clients there are.
THEOREM WholeStreams == Spec => []StreamIsWhole
<1>1. Spec => []StreamInv
  BY StreamStart, StreamStep, PTL DEF Spec
<1> QED BY <1>1, StreamMeans, PTL
=============================================================================
