---------------------------- MODULE ReadsProofs ----------------------------
(***************************************************************************)
(* Theorems about what a browser reads while it waits: the events of a     *)
(* deep dive (DeepDiveEvents, which MC_Reads extends) and the snapshots of *)
(* the dashboard (SnapshotCache, its instance Snap).  The last section     *)
(* carries both over to SumSpec.                                           *)
(***************************************************************************)
EXTENDS MC_Reads, TLAPS

\* ---- DeepDiveEvents: the rows, the message and the streams of a dive.

QueueItem == [type : {"snapshot", "event", "sentinel"}, events : Seq(Nat)]
Status == Final \cup {"absent", "running"}

Typed ==
    /\ subs \in [Key -> SUBSET Client]
    /\ queue \in [Client -> Seq(QueueItem)]
    /\ key \in [Client -> Key \cup {NoKey}]
    /\ pc \in [Client -> {"new", "read", "streaming", "ended", "left"}]
    /\ report \in [Key -> Status] /\ runrow \in [Key -> Status]
    /\ queued \subseteq Key
    /\ saved \in [Key -> 0..MaxStages] /\ stage \in [Key -> 0..MaxStages]
    /\ job \in [Key -> Jobs] /\ outcome \in [Key -> Final]
    /\ seen \in [Client -> [status : Status, progress : 0..MaxStages]]
    /\ \A c \in Client : pc[c] \in {"read", "streaming", "ended"} => key[c] \in Key

\* What is put on a queue is there after what was.
LEMMA PutSeq ==
  ASSUME DiveAssumption, NEW q \in Seq(QueueItem), NEW items \in Seq(QueueItem)
  PROVE  /\ Put(q, items) \in Seq(QueueItem)
         /\ \A i \in DOMAIN Put(q, items) :
               \/ i \in DOMAIN q /\ Put(q, items)[i] = q[i]
               \/ \E j \in DOMAIN items : Put(q, items)[i] = items[j]
<1> DEFINE room == QueueSize - Len(q)
           new == IF Len(items) <= room THEN items ELSE SubSeq(items, 1, room)
<1>1. Put(q, items) = q \o new
  BY DEF Put
<1>2. room \in Int /\ Len(items) \in Nat
  BY BrokerAssumption
<1>3. new \in Seq(QueueItem) /\ \A j \in DOMAIN new : j \in DOMAIN items /\ new[j] = items[j]
  <2>1. CASE Len(items) <= room
    BY <2>1
  <2>2. CASE ~(Len(items) <= room)
    <3>1. \A i \in 1..room : items[i] \in QueueItem
      BY <1>2, <2>2
    <3>2. room < Len(items) /\ new = SubSeq(items, 1, room)
      BY <1>2, <2>2
    <3> HIDE DEF room
    <3> HIDE DEF new
    <3> QED BY <1>2, <3>1, <3>2
  <2> QED BY <2>1, <2>2
<1> HIDE DEF new
<1> QED BY <1>1, <1>3

\* The type invariant, of what the proofs below read.
LEMMA Types == ASSUME DiveAssumption PROVE Spec => []Typed
<1>a. MaxStages \in Nat /\ \A s \in Final : s \in Status
  BY DEF DiveAssumption, Status
<1>1. Init => Typed
  <2> SUFFICES ASSUME Init PROVE Typed
    OBVIOUS
  <2>1. <<>> \in Seq(QueueItem)
    OBVIOUS
  <2> QED BY <1>a, <2>1 DEF Init, BrokerInit, Typed, Status, Final, Jobs
<1>2. Typed /\ [Next]_vars => Typed'
  <2> SUFFICES ASSUME Typed, [Next]_vars PROVE Typed'
    OBVIOUS
  <2>a. ASSUME NEW S \in SUBSET Client, NEW items \in Seq(QueueItem), put_nowait(S, items)
        PROVE  queue' \in [Client -> Seq(QueueItem)]
    BY <2>a, PutSeq DEF put_nowait, Typed
  <2>b. ASSUME NEW k \in Key, NEW n \in Nat, publish(k, n)
        PROVE  queue' \in [Client -> Seq(QueueItem)] /\ subs' = subs
    <3>1. <<Event(n)>> \in Seq(QueueItem)
      BY DEF Event, Item, QueueItem
    <3>2. subs[k] \in SUBSET Client
      BY DEF Typed
    <3> QED BY <2>a, <2>b, <3>1, <3>2 DEF publish
  <2>c. ASSUME NEW k \in Key, NEW n \in Nat, tell(k, n)
        PROVE  queue' \in [Client -> Seq(QueueItem)] /\ subs' \in [Key -> SUBSET Client]
    BY <2>b, <2>c DEF tell, broker, Typed
  <2>d. \A k \in Key : stage[k] \in Nat /\ MaxStages + 1 \in Nat
    BY <1>a DEF Typed
  <2>1. ASSUME NEW k \in Key, start_deep_dive(k), UNCHANGED <<client, seen>> PROVE Typed'
    BY <2>1 DEF start_deep_dive, goto, broker, client, Typed, Status, Jobs
  <2>2. ASSUME NEW k \in Key, persist(k), UNCHANGED <<client, seen>> PROVE Typed'
    <3>1. stage[k] + 1 \in 0..MaxStages
      BY <2>2, <1>a DEF persist, Typed
    <3> QED BY <2>2, <3>1 DEF persist, goto, broker, client, Typed, Jobs
  <2>3. ASSUME NEW k \in Key, emit(k), UNCHANGED <<client, seen>> PROVE Typed'
    BY <2>3, <2>c, <2>d DEF emit, goto, client, Typed, Jobs
  <2>4. ASSUME NEW k \in Key, conclude(k) \/ set_up(k), UNCHANGED <<client, seen>> PROVE Typed'
    <3>1. CASE conclude(k)
      BY <2>4, <3>1 DEF conclude, goto, broker, client, Typed, Jobs
    <3>2. CASE set_up(k)
      BY <2>4, <3>2 DEF set_up, goto, broker, client, Typed, Jobs
    <3> QED BY <2>4, <3>1, <3>2
  <2>5. ASSUME NEW k \in Key, update_report(k), UNCHANGED <<client, seen>> PROVE Typed'
    BY <2>5, <1>a DEF update_report, goto, broker, client, Typed, Jobs
  <2>6. ASSUME NEW k \in Key, finalize_run(k), UNCHANGED <<client, seen>> PROVE Typed'
    BY <2>6, <1>a DEF finalize_run, goto, broker, client, Typed, Jobs
  <2>7. ASSUME NEW k \in Key, enqueue(k), UNCHANGED <<client, seen>> PROVE Typed'
    BY <2>7 DEF enqueue, goto, broker, client, Typed, Jobs
  <2>8. ASSUME NEW k \in Key, dd_done(k), UNCHANGED <<client, seen>> PROVE Typed'
    BY <2>8, <2>c, <2>d DEF dd_done, goto, client, Typed, Jobs
  <2>9. ASSUME NEW k \in Key, raise(k) \/ set_up_fails(k), UNCHANGED <<client, seen>>
        PROVE Typed'
    BY <2>9 DEF raise, set_up_fails, goto, broker, client, Typed, Jobs, Final
  <2>10. ASSUME NEW k \in Key, close(k), UNCHANGED <<client, seen>> PROVE Typed'
    <3>1. CASE k \in manual
      <4>1. [i \in DOMAIN <<>> |-> Event(<<>>[i])] \o <<SENTINEL>> = <<SENTINEL>>
        OBVIOUS
      <4>2. <<SENTINEL>> \in Seq(QueueItem) /\ subs[k] \in SUBSET Client
        BY DEF SENTINEL, Item, QueueItem, Typed
      <4>3. queue' \in [Client -> Seq(QueueItem)] /\ subs' = [subs EXCEPT ![k] = {}]
        BY <2>10, <3>1, <4>1, <4>2, <2>a DEF close, publish_and_close
      <4> QED BY <2>10, <4>3 DEF close, goto, client, Typed, Jobs
    <3>2. CASE k \notin manual
      BY <2>10, <3>2 DEF close, goto, broker, client, Typed, Jobs
    <3> QED BY <3>1, <3>2
  <2>11. ASSUME NEW c \in Client, NEW k \in Key, get_report(c, k) PROVE Typed'
    BY <2>11 DEF get_report, broker, dive, Typed
  <2>12. ASSUME NEW c \in Client, deep_dive_events(c) PROVE Typed'
    <3>0. pc[c] = "read" /\ key[c] \in Key
      BY <2>12 DEF deep_dive_events, Typed
    <3>1. Item("snapshot", [i \in 1..seen[c].progress |-> i]) \in QueueItem
      <4>1. seen[c].progress \in Nat
        BY <1>a DEF Typed
      <4>2. [i \in 1..seen[c].progress |-> i] \in Seq(Nat)
        BY <4>1
      <4> QED BY <4>2 DEF Item, QueueItem
    <3>2. SENTINEL \in QueueItem
      BY DEF SENTINEL, Item, QueueItem
    <3>6. /\ <<Item("snapshot", [i \in 1..seen[c].progress |-> i]), SENTINEL>> \in Seq(QueueItem)
          /\ <<Item("snapshot", [i \in 1..seen[c].progress |-> i])>> \in Seq(QueueItem)
      <4> DEFINE shot == Item("snapshot", [i \in 1..seen[c].progress |-> i])
      <4> HIDE DEF shot
      <4>1. shot \in QueueItem
        BY <3>1 DEF shot
      <4>2. <<shot, SENTINEL>> \in Seq(QueueItem) /\ <<shot>> \in Seq(QueueItem)
        BY <4>1, <3>2
      <4> QED BY <4>2 DEF shot
    <3>3. PICK items \in Seq(QueueItem) : subscribe(c, key[c], items)
      <4>1. CASE seen[c].status # "running"
        BY <2>12, <3>6, <4>1 DEF deep_dive_events
      <4>2. CASE seen[c].status = "running"
        BY <2>12, <3>6, <4>2 DEF deep_dive_events
      <4> QED BY <4>1, <4>2
    <3>4. <<>> \in Seq(QueueItem)
      OBVIOUS
    <3>5. Put(<<>>, items) \in Seq(QueueItem)
      BY <3>4, PutSeq
    <3> QED BY <2>12, <3>0, <3>3, <3>5 DEF deep_dive_events, subscribe, dive, Typed
  <2>13. ASSUME NEW c \in Client, read(c) PROVE Typed'
    <3>1. queue[c] \in Seq(QueueItem) /\ queue[c] # <<>>
      BY <2>13 DEF read, drain, Typed
    <3>2. Tail(queue[c]) \in Seq(QueueItem)
      BY <3>1
    <3>3. key[c] \in Key /\ pc[c] = "streaming" /\ key' = key /\ UNCHANGED <<dive, seen>>
      BY <2>13 DEF read, drain, Typed
    <3>8. <<>> \in Seq(QueueItem)
      OBVIOUS
    <3>4. queue' \in [Client -> Seq(QueueItem)]
      <4>1. queue' = [queue EXCEPT ![c] = <<>>] \/ queue' = [queue EXCEPT ![c] = Tail(@)]
        BY <2>13 DEF read, drain
      <4> QED BY <4>1, <3>2, <3>8 DEF Typed
    <3>5. subs' \in [Key -> SUBSET Client]
      <4>1. subs' = [subs EXCEPT ![key[c]] = @ \ {c}] \/ subs' = subs
        BY <2>13 DEF read, drain, unsubscribe
      <4>2. subs[key[c]] \ {c} \in SUBSET Client
        BY <3>3 DEF Typed
      <4> QED BY <4>1, <4>2, <3>3 DEF Typed
    <3>6. pc' \in [Client -> {"new", "read", "streaming", "ended", "left"}]
          /\ \A b \in Client : pc'[b] # pc[b] => b = c
      BY <2>13 DEF read, drain, Typed
    <3>7. \A b \in Client : pc'[b] \in {"read", "streaming", "ended"} => key[b] \in Key
      BY <3>3, <3>6 DEF Typed
    <3> QED BY <3>3, <3>4, <3>5, <3>6, <3>7 DEF dive, Typed
  <2>14. ASSUME NEW c \in Client, leave(c) PROVE Typed'
    <3>1. subs' \in [Key -> SUBSET Client]
      BY <2>14 DEF leave, disconnect, unsubscribe, Typed
    <3>2. queue' \in [Client -> Seq(QueueItem)]
      <4>1. <<>> \in Seq(QueueItem)
        OBVIOUS
      <4> QED BY <2>14, <4>1 DEF leave, disconnect, Typed
    <3> QED BY <2>14, <3>1, <3>2 DEF leave, disconnect, dive, Typed
  <2>15. CASE restart
    BY <2>15 DEF restart, Typed, Jobs
  <2>16. CASE UNCHANGED vars
    BY <2>16 DEF vars, broker, client, dive, Typed
  <2> QED BY <2>1, <2>2, <2>3, <2>4, <2>5, <2>6, <2>7, <2>8, <2>9, <2>10, <2>11, <2>12, <2>13,
             <2>14, <2>15, <2>16 DEF Next, pipeline
<1> QED BY <1>1, <1>2, PTL DEF Spec


-----------------------------------------------------------------------------
\* Where run_deep_dive is says what its rows are: no run row is final before the
\* report row of the same ending, and none is written again after it.
RowsInv ==
    \A k \in Key :
        /\ job[k] \in {"none", "setup", "work", "emit", "update", "finalize"} =>
               runrow[k] \notin Final
        /\ job[k] = "none" => report[k] = "absent"
        /\ job[k] = "finalize" => report[k] = outcome[k]
        /\ runrow[k] \in Final => runrow[k] = report[k]
        /\ k \in queued \/ job[k] = "enqueue" =>
               report[k] = "completed" /\ runrow[k] = "completed"
        /\ job[k] \in {"done", "close", "over"} =>
               report[k] \in Final \/ k \in handling \cup unprepared

\* The rows of a dive are only written by the steps of its own pipeline, in order.
LEMMA Rows == ASSUME DiveAssumption PROVE Spec => []RowsInv
<1>1. Init => RowsInv
  BY DEF Init, RowsInv, Final
<1>2. Typed /\ RowsInv /\ [Next]_vars => RowsInv'
  <2> SUFFICES ASSUME Typed, RowsInv, [Next]_vars PROVE RowsInv'
    OBVIOUS
  <2>a. /\ report \in [Key -> Status] /\ runrow \in [Key -> Status]
        /\ job \in [Key -> Jobs] /\ outcome \in [Key -> Final]
    BY DEF Typed
  <2>1. ASSUME NEW k \in Key, start_deep_dive(k) PROVE RowsInv'
    BY <2>1, <2>a DEF start_deep_dive, goto, at, RowsInv, Final
  <2>2. ASSUME NEW k \in Key, set_up(k) \/ persist(k) \/ emit(k) \/ conclude(k)
        PROVE RowsInv'
    BY <2>2, <2>a DEF set_up, persist, emit, conclude, goto, at, RowsInv, Final
  <2>3. ASSUME NEW k \in Key, update_report(k) PROVE RowsInv'
    BY <2>3, <2>a DEF update_report, goto, at, RowsInv, Final
  <2>4. ASSUME NEW k \in Key, finalize_run(k) PROVE RowsInv'
    BY <2>4, <2>a DEF finalize_run, goto, at, RowsInv, Final
  <2>5. ASSUME NEW k \in Key, enqueue(k) PROVE RowsInv'
    BY <2>5, <2>a DEF enqueue, goto, at, RowsInv, Final
  <2>6. ASSUME NEW k \in Key, dd_done(k) \/ close(k) PROVE RowsInv'
    BY <2>6, <2>a DEF dd_done, close, goto, at, RowsInv, Final
  <2>7. ASSUME NEW k \in Key, raise(k) \/ set_up_fails(k) PROVE RowsInv'
    BY <2>7, <2>a DEF raise, set_up_fails, goto, at, RowsInv, Final
  <2>8. CASE UNCHANGED dive
    BY <2>8 DEF dive, RowsInv
  <2>9. CASE restart
    BY <2>9, <2>a DEF restart, RowsInv, Final
  <2>10. ASSUME NEW c \in Client,
                (\E k \in Key : get_report(c, k)) \/ deep_dive_events(c) \/ read(c) \/ leave(c)
         PROVE  RowsInv'
    BY <2>8, <2>10 DEF get_report, deep_dive_events, read, leave
  <2>11. UNCHANGED vars => UNCHANGED dive
    BY DEF vars
  <2> QED BY <2>1, <2>2, <2>3, <2>4, <2>5, <2>6, <2>7, <2>8, <2>9, <2>10, <2>11 DEF Next, pipeline
<1> QED BY <1>1, <1>2, Types, PTL DEF Spec

-----------------------------------------------------------------------------
Ended(k) == report[k] \in Final \/ k \in handling \cup unprepared

\* A final report stays final, and the except block of a dive is entered for good.
LEMMA EndedStays ==
  ASSUME Typed, RowsInv, [Next]_vars
  PROVE  \A k \in Key : /\ report[k] \in Final => report'[k] \in Final
                        /\ k \in handling \cup unprepared => k \in (handling \cup unprepared)'
<1>a. /\ report \in [Key -> Status] /\ outcome \in [Key -> Final]
  BY DEF Typed
<1>1. ASSUME NEW j \in Key, start_deep_dive(j)
      PROVE  /\ UNCHANGED <<handling, unprepared>> /\ report[j] \notin Final
             /\ report' = [report EXCEPT ![j] = "running"]
  BY <1>1 DEF start_deep_dive, at, RowsInv, Final
<1>2. ASSUME NEW j \in Key, update_report(j)
      PROVE  UNCHANGED <<handling, unprepared>> /\ report' = [report EXCEPT ![j] = outcome[j]]
  BY <1>2 DEF update_report
<1>3. ASSUME NEW j \in Key, raise(j) \/ set_up_fails(j)
      PROVE  report' = report /\ handling \subseteq handling' /\ unprepared \subseteq unprepared'
  BY <1>3 DEF raise, set_up_fails
<1>4. \/ \E j \in Key : start_deep_dive(j) \/ update_report(j) \/ raise(j) \/ set_up_fails(j)
      \/ UNCHANGED <<report, handling, unprepared>>
  BY DEF Next, vars, dive, pipeline, set_up, persist, emit, conclude, finalize_run, enqueue,
         dd_done, close, get_report, deep_dive_events, read, leave, restart
<1>5. CASE UNCHANGED <<report, handling, unprepared>>
  BY <1>5
<1>6. ASSUME NEW j \in Key, start_deep_dive(j) \/ update_report(j) \/ raise(j) \/ set_up_fails(j)
      PROVE  \A k \in Key : /\ report[k] \in Final => report'[k] \in Final
                            /\ k \in handling \cup unprepared => k \in (handling \cup unprepared)'
  <2>1. CASE start_deep_dive(j)
    BY <1>1, <1>a, <2>1
  <2>2. CASE update_report(j)
    BY <1>2, <1>a, <2>2
  <2>3. CASE raise(j) \/ set_up_fails(j)
    BY <1>3, <2>3
  <2> QED BY <1>6, <2>1, <2>2, <2>3
<1> QED BY <1>4, <1>5, <1>6

Sentinels(c) == {i \in DOMAIN queue[c] : queue[c][i].type = "sentinel"}

\* What a client was told of the end of a dive is so: the row it read before it
\* subscribed, the sentinel that is on its queue, the end of its stream.
ClientsInv ==
    /\ \A k \in Key : \A c \in subs[k] : key[c] = k /\ pc[c] = "streaming"
    /\ \A c \in Client :
        /\ pc[c] = "read" /\ seen[c].status # "running" => report[key[c]] \in Final
        /\ pc[c] = "streaming" /\ Sentinels(c) # {} => Ended(key[c])
        /\ pc[c] = "ended" => Ended(key[c])

\* ClientsInv holds for one client.
Told(c) ==
    /\ \A k \in Key : c \in subs[k] => key[c] = k /\ pc[c] = "streaming"
    /\ pc[c] = "read" /\ seen[c].status # "running" => report[key[c]] \in Final
    /\ pc[c] = "streaming" /\ Sentinels(c) # {} => Ended(key[c])
    /\ pc[c] = "ended" => Ended(key[c])

\* No client is told of an end before the report row has it.
LEMMA Clients == ASSUME DiveAssumption PROVE Spec => []ClientsInv
<1>0. /\ Typed => (ClientsInv <=> \A c \in Client : Told(c))
      /\ Typed' => (ClientsInv' <=> \A c \in Client : Told(c)')
  BY DEF Typed, ClientsInv, Told
<1>1. Init => ClientsInv
  BY DEF Init, BrokerInit, ClientsInv
<1>2. Typed /\ Typed' /\ RowsInv /\ ClientsInv /\ [Next]_vars => ClientsInv'
  <2> SUFFICES ASSUME Typed, Typed', RowsInv, ClientsInv, [Next]_vars, NEW c \in Client
               PROVE  Told(c)'
    BY <1>0
  <2>0. Told(c)
    BY <1>0
  <2>a. \A k \in Key : /\ report[k] \in Final => report'[k] \in Final
                       /\ k \in handling \cup unprepared => k \in (handling \cup unprepared)'
    BY EndedStays
  <2>b. \A k \in Key : Ended(k) => Ended(k)'
    BY <2>a DEF Ended
  <2>c. pc[c] \in {"read", "streaming", "ended"} => key[c] \in Key
    BY DEF Typed
  \* A step that leaves the queue of c, its request and its subscription alone.
  <2>d. ASSUME pc'[c] = pc[c], key'[c] = key[c], seen'[c] = seen[c], queue'[c] = queue[c],
               \A k \in Key : c \in subs'[k] => c \in subs[k]
        PROVE  Told(c)'
    <3>1. Sentinels(c)' = Sentinels(c)
      BY <2>d DEF Sentinels
    <3>2. \A k \in Key : c \in subs'[k] => key'[c] = k /\ pc'[c] = "streaming"
      BY <2>0, <2>d DEF Told
    <3>3. pc[c] = "read" /\ seen[c].status # "running" => report'[key[c]] \in Final
      BY <2>0, <2>a, <2>c DEF Told
    <3>4. pc[c] = "streaming" /\ Sentinels(c) # {} => Ended(key[c])'
      BY <2>0, <2>b, <2>c, <2>d DEF Told
    <3>5. pc[c] = "ended" => Ended(key[c])'
      BY <2>0, <2>b, <2>c, <2>d DEF Told
    <3> QED BY <2>d, <3>1, <3>2, <3>3, <3>4, <3>5 DEF Told
  \* A key gets events; only close puts a sentinel on the queues.
  <2>e. ASSUME NEW k \in Key, NEW items \in Seq(QueueItem), put_nowait(subs[k], items),
               UNCHANGED <<client, seen>>, \A j \in Key : c \in subs'[j] => c \in subs[j],
               (\E j \in DOMAIN items : items[j].type = "sentinel") => Ended(k)
        PROVE  Told(c)'
    <3>1. CASE c \notin subs[k]
      <4>1. queue'[c] = queue[c]
        BY <2>e, <3>1 DEF put_nowait
      <4> QED BY <4>1, <2>d, <2>e DEF client
    <3>2. CASE c \in subs[k]
      <4>1. key[c] = k /\ pc[c] = "streaming"
        BY <3>2, <2>0 DEF Told
      <4>2. queue'[c] = Put(queue[c], items) /\ queue[c] \in Seq(QueueItem)
        BY <2>e, <3>2 DEF put_nowait, Typed
      <4>3. \A i \in DOMAIN queue'[c] : \/ i \in DOMAIN queue[c] /\ queue'[c][i] = queue[c][i]
                                        \/ \E j \in DOMAIN items : queue'[c][i] = items[j]
        BY <4>2, PutSeq
      <4>4. Sentinels(c)' # {} => Ended(k)'
        <5> SUFFICES ASSUME NEW i \in DOMAIN queue'[c], queue'[c][i].type = "sentinel"
                     PROVE  Ended(k)'
          BY DEF Sentinels
        <5>1. CASE i \in DOMAIN queue[c] /\ queue'[c][i] = queue[c][i]
          <6>1. i \in Sentinels(c)
            BY <5>1 DEF Sentinels
          <6> QED BY <6>1, <4>1, <2>0, <2>b DEF Told
        <5>2. CASE \E j \in DOMAIN items : queue'[c][i] = items[j]
          BY <5>2, <2>e, <2>b
        <5> QED BY <5>1, <5>2, <4>3
      <4>5. pc'[c] = "streaming" /\ key'[c] = k
        BY <4>1, <2>e DEF client
      <4>6. \A j \in Key : c \in subs'[j] => j = k
        BY <2>e, <2>0, <4>1 DEF Told
      <4> QED BY <4>4, <4>5, <4>6 DEF Told
    <3> QED BY <3>1, <3>2
  <2>f. ASSUME NEW k \in Key, NEW n \in Nat, tell(k, n), UNCHANGED <<client, seen>>
        PROVE  Told(c)'
    <3>1. CASE k \in manual
      <4>1. <<Event(n)>> \in Seq(QueueItem) /\ \A j \in DOMAIN <<Event(n)>> :
                                                  <<Event(n)>>[j].type # "sentinel"
        BY DEF Event, Item, QueueItem
      <4> QED BY <2>f, <3>1, <4>1, <2>e DEF tell, publish
    <3>2. CASE k \notin manual
      BY <2>f, <3>2, <2>d DEF tell, broker, client
    <3> QED BY <3>1, <3>2
  <2>1. ASSUME NEW k \in Key,
               \/ start_deep_dive(k) \/ set_up(k) \/ persist(k) \/ conclude(k)
               \/ update_report(k) \/ finalize_run(k) \/ enqueue(k)
               \/ raise(k) \/ set_up_fails(k),
               UNCHANGED <<client, seen>>
        PROVE  Told(c)'
    <3>1. UNCHANGED broker
      BY <2>1 DEF start_deep_dive, set_up, persist, conclude, update_report, finalize_run,
             enqueue, raise, set_up_fails
    <3> QED BY <3>1, <2>1, <2>d DEF broker, client
  <2>2. ASSUME NEW k \in Key, emit(k) \/ dd_done(k), UNCHANGED <<client, seen>>
        PROVE  Told(c)'
    <3>1. stage[k] \in Nat /\ MaxStages + 1 \in Nat
      BY DEF Typed, DiveAssumption
    <3>2. PICK n \in Nat : tell(k, n)
      BY <3>1, <2>2 DEF emit, dd_done
    <3> QED BY <3>2, <2>2, <2>f
  <2>3. ASSUME NEW k \in Key, close(k), UNCHANGED <<client, seen>>
        PROVE  Told(c)'
    <3>1. CASE k \in manual
      <4>1. [i \in DOMAIN <<>> |-> Event(<<>>[i])] \o <<SENTINEL>> = <<SENTINEL>>
        OBVIOUS
      <4>2. <<SENTINEL>> \in Seq(QueueItem)
        BY DEF SENTINEL, Item, QueueItem
      <4>3. put_nowait(subs[k], <<SENTINEL>>) /\ subs' = [subs EXCEPT ![k] = {}]
        BY <2>3, <3>1, <4>1 DEF close, publish_and_close
      <4>4. Ended(k)
        BY <2>3 DEF close, at, RowsInv, Ended
      <4>5. \A j \in Key : c \in subs'[j] => c \in subs[j]
        BY <4>3 DEF Typed
      <4> QED BY <4>2, <4>3, <4>4, <4>5, <2>3, <2>e
    <3>2. CASE k \notin manual
      BY <2>3, <3>2, <2>d DEF close, broker, client
    <3> QED BY <3>1, <3>2
  <2>4. ASSUME NEW b \in Client, NEW k \in Key, get_report(b, k) PROVE Told(c)'
    <3>1. CASE b # c
      BY <2>4, <3>1, <2>d DEF get_report, broker, Typed
    <3>2. CASE b = c
      <4>1. pc'[c] = "read" /\ key'[c] = k /\ seen'[c].status = report[k]
        BY <2>4, <3>2 DEF get_report, Typed
      <4>2. \A j \in Key : c \notin subs'[j]
        BY <2>4, <3>2, <2>0 DEF get_report, broker, Told
      <4>3. report' = report /\ report[k] # "absent" /\ report[k] \in Status
        BY <2>4 DEF get_report, dive, Typed
      <4> QED BY <4>1, <4>2, <4>3 DEF Told, Status
    <3> QED BY <3>1, <3>2
  <2>5. ASSUME NEW b \in Client, deep_dive_events(b) PROVE Told(c)'
    <3>0. key[b] \in Key /\ subs[key[b]] \in SUBSET Client
      BY <2>5 DEF deep_dive_events, Typed
    <3>1. CASE b # c
      <4>1. /\ pc'[c] = pc[c] /\ queue'[c] = queue[c] /\ key' = key /\ seen' = seen
            /\ \A k \in Key : c \in subs'[k] => c \in subs[k]
        BY <2>5, <3>0, <3>1 DEF deep_dive_events, subscribe, Typed
      <4> QED BY <4>1, <2>d
    <3>2. CASE b = c
      <4> DEFINE shot == Item("snapshot", [i \in 1..seen[c].progress |-> i])
      <4>1. /\ pc[c] = "read" /\ pc' = [pc EXCEPT ![c] = "streaming"]
            /\ key' = key /\ report' = report
            /\ subs' = [subs EXCEPT ![key[c]] = @ \cup {c}]
        BY <2>5, <3>2 DEF deep_dive_events, subscribe, dive
      <4>2. pc'[c] = "streaming"
        BY <4>1 DEF Typed
      <4>3. \A k \in Key : c \in subs'[k] => key'[c] = k
        BY <4>1, <2>0 DEF Typed, Told
      <4>4. CASE seen[c].status # "running"
        <5>1. report[key[c]] \in Final
          BY <4>1, <4>4, <2>0 DEF Told
        <5> QED BY <4>1, <4>2, <4>3, <5>1 DEF Told, Ended
      <4>5. CASE seen[c].status = "running"
        <5>1. queue' = [queue EXCEPT ![c] = Put(<<>>, <<shot>>)]
          BY <2>5, <3>2, <4>5 DEF deep_dive_events, subscribe
        <5>2. shot.type = "snapshot" /\ shot \in QueueItem
          <6>1. seen[c].progress \in Nat
            BY DEF Typed, DiveAssumption
          <6>2. [i \in 1..seen[c].progress |-> i] \in Seq(Nat)
            BY <6>1
          <6> QED BY <6>2 DEF Item, QueueItem
        <5> HIDE DEF shot
        <5>3. <<shot>> \in Seq(QueueItem) /\ <<>> \in Seq(QueueItem)
          BY <5>2
        <5>4. \A i \in DOMAIN Put(<<>>, <<shot>>) :
                 \/ i \in DOMAIN <<>> /\ Put(<<>>, <<shot>>)[i] = <<>>[i]
                 \/ \E j \in DOMAIN <<shot>> : Put(<<>>, <<shot>>)[i] = <<shot>>[j]
          BY <5>3, PutSeq
        <5>5. \A i \in DOMAIN Put(<<>>, <<shot>>) : Put(<<>>, <<shot>>)[i].type # "sentinel"
          BY <5>2, <5>4
        <5>6. Sentinels(c)' = {}
          BY <5>1, <5>5 DEF Sentinels, Typed
        <5> QED BY <4>2, <4>3, <5>6 DEF Told
      <4> QED BY <4>4, <4>5
    <3> QED BY <3>1, <3>2
  <2>6. ASSUME NEW b \in Client, read(b) PROVE Told(c)'
    <3>0. /\ pc[b] = "streaming" /\ key[b] \in Key /\ queue[b] \in Seq(QueueItem)
          /\ queue[b] # <<>> /\ UNCHANGED <<key, dive, seen>>
      BY <2>6 DEF read, drain, Typed
    <3>1. CASE b # c
      <4>1. /\ pc'[c] = pc[c] /\ queue'[c] = queue[c]
            /\ subs' = [subs EXCEPT ![key[b]] = @ \ {b}] \/ subs' = subs
        BY <2>6, <3>1 DEF read, drain, unsubscribe, Typed
      <4>2. \A k \in Key : c \in subs'[k] => c \in subs[k]
        <5>1. subs \in [Key -> SUBSET Client]
          BY DEF Typed
        <5>2. CASE subs' = subs
          BY <5>2
        <5>3. CASE subs' = [subs EXCEPT ![key[b]] = @ \ {b}]
          BY <5>1, <5>3
        <5> QED BY <4>1, <5>2, <5>3
      <4> QED BY <4>1, <4>2, <3>0, <2>d
    <3>2. CASE b = c /\ Head(queue[c]).type = "sentinel"
      <4>1. pc'[c] = "ended" /\ subs' = [subs EXCEPT ![key[c]] = @ \ {c}] /\ key'[c] = key[c]
        BY <2>6, <3>2, <3>0 DEF read, drain, unsubscribe, Typed
      <4>2. 1 \in Sentinels(c)
        BY <3>0, <3>2 DEF Sentinels
      <4>3. Ended(key[c])'
        BY <4>2, <3>0, <3>2, <2>0, <2>b, <4>1 DEF Told
      <4>4. \A k \in Key : c \notin subs'[k]
        BY <4>1, <2>0 DEF Told, Typed
      <4> QED BY <4>1, <4>3, <4>4 DEF Told
    <3>3. CASE b = c /\ Head(queue[c]).type # "sentinel"
      <4>1. pc' = pc /\ subs' = subs /\ queue' = [queue EXCEPT ![c] = Tail(@)] /\ key' = key
        BY <2>6, <3>3, <3>0 DEF read, drain
      <4>2. queue'[c] = Tail(queue[c])
        BY <4>1 DEF Typed
      <4>3. Sentinels(c)' # {} => Sentinels(c) # {}
        <5> SUFFICES ASSUME NEW i \in DOMAIN queue'[c], queue'[c][i].type = "sentinel"
                     PROVE  Sentinels(c) # {}
          BY DEF Sentinels
        <5>1. queue[c] \in Seq(QueueItem) /\ queue[c] # <<>>
          BY <3>0, <3>3
        <5>2. i + 1 \in DOMAIN queue[c] /\ queue[c][i + 1] = queue'[c][i]
          BY <5>1, <4>2
        <5> QED BY <5>2 DEF Sentinels
      <4>4. pc[c] = "streaming" /\ \A k \in Key : c \in subs'[k] => key'[c] = k
        BY <4>1, <2>0, <3>0, <3>3 DEF Told
      <4>5. Sentinels(c)' # {} => Ended(key[c])'
        BY <4>1, <4>3, <4>4, <2>0, <2>b, <2>c DEF Told
      <4> QED BY <4>1, <4>4, <4>5 DEF Told
    <3> QED BY <3>1, <3>2, <3>3
  <2>7. ASSUME NEW b \in Client, leave(b) PROVE Told(c)'
    <3>0. pc[b] = "streaming" /\ key[b] \in Key /\ seen' = seen
      BY <2>7 DEF leave, disconnect, Typed
    <3>1. subs' = [subs EXCEPT ![key[b]] = @ \ {b}]
      BY <2>7 DEF leave, disconnect, unsubscribe
    <3>2. CASE b # c
      <4>1. pc'[c] = pc[c] /\ queue'[c] = queue[c] /\ key'[c] = key[c]
        BY <2>7, <3>2 DEF leave, disconnect, Typed
      <4>2. \A k \in Key : c \in subs'[k] => c \in subs[k]
        BY <3>1 DEF Typed
      <4> QED BY <4>1, <4>2, <3>0, <2>d
    <3>3. CASE b = c
      <4>1. pc'[c] = "left"
        BY <2>7, <3>3 DEF leave, disconnect, Typed
      <4>2. \A k \in Key : c \notin subs'[k]
        BY <3>1, <3>3, <2>0 DEF Told, Typed
      <4> QED BY <4>1, <4>2 DEF Told
    <3> QED BY <3>2, <3>3
  <2>8. CASE restart
    <3>1. /\ pc' = [b \in Client |-> IF pc[b] \in {"read", "streaming"} THEN "left" ELSE pc[b]]
          /\ subs' = [k \in Key |-> {}] /\ key' = key
      BY <2>8 DEF restart
    <3>2. pc'[c] = IF pc[c] \in {"read", "streaming"} THEN "left" ELSE pc[c]
      BY <3>1
    <3>3. \A k \in Key : c \notin subs'[k]
      BY <3>1
    <3>4. pc[c] = "ended" => Ended(key[c])'
      BY <2>0, <2>b, <2>c, <3>1 DEF Told
    <3> QED BY <3>1, <3>2, <3>3, <3>4 DEF Told
  <2>9. CASE UNCHANGED vars
    BY <2>9, <2>d DEF vars, broker, client
  <2> QED BY <2>1, <2>2, <2>3, <2>4, <2>5, <2>6, <2>7, <2>8, <2>9 DEF Next, pipeline
<1> QED BY <1>1, <1>2, Types, Rows, PTL DEF Spec

\* The rows, the message and the stream of a dive tell one ending, whatever writes failed
\* and whenever the process restarted (run_deep_dive, deep_dive_events).
THEOREM DiveOneEnding == ASSUME DiveAssumption PROVE Spec => []OneEnding
<1>1. Typed /\ RowsInv => EndingsAgree
  BY DEF Typed, RowsInv, EndingsAgree
<1>2. ClientsInv => EndMeansFinal
  BY DEF ClientsInv, EndMeansFinal, Ended
<1> QED BY <1>1, <1>2, Types, Rows, Clients, PTL DEF OneEnding

-----------------------------------------------------------------------------
\* ---- SnapshotCache: one rebuild of a section at a time.

SnapTasksTyped == task \in [Task -> Snap!Building \cup {Snap!Idle}]

SnapBackground(t) == task[t] \in Snap!Building /\ task[t].kind = "background"

\* A rebuild that holds the lock of its user and has not outlived it.
SnapHolds(t, u) == t \in Snap!lockers(u) \ snap_late

SnapOnePerUser ==
    /\ \A t \in Task : SnapBackground(t) => task[t].worker = Web
    /\ \A t, s \in Task : SnapBackground(t) /\ SnapBackground(s) /\ task[t].user = task[s].user => t = s

SnapOnePerLock ==
    \A u \in User : /\ \A t \in Task : SnapHolds(t, u) => u \in lock
                    /\ \A t, s \in Task : SnapHolds(t, u) /\ SnapHolds(s, u) => t = s

\* With the in-process store every rebuild is in the inflight set of the one worker;
\* with Redis every one past take_lock holds the lock, or has outlived it.
SnapSingleInv == SnapTasksTyped /\ (IF Snap!Process THEN SnapOnePerUser ELSE SnapOnePerLock)

\* No task becomes a background rebuild, or moves to another user or worker.
SnapShrinks ==
    \A t \in Task : SnapBackground(t)' =>
        /\ SnapBackground(t)
        /\ task'[t].user = task[t].user /\ task'[t].worker = task[t].worker

\* No task comes to hold a lock.
SnapReleases ==
    /\ lock' = lock
    /\ \A t \in Task, u \in User : SnapHolds(t, u)' => SnapHolds(t, u)

\* A free slot is no build.
LEMMA SnapIdleIsIdle == Snap!Idle \notin Snap!Building /\ Snap!Idle.at = "idle" /\ Snap!Idle.data = None
BY DEF Snap!Idle, Snap!Building

\* Such steps keep the two forms of single flight.
LEMMA SnapShrinksKeeps == ASSUME SnapOnePerUser, SnapShrinks PROVE SnapOnePerUser'
BY DEF SnapOnePerUser, SnapShrinks

\* The same of the lock.
LEMMA SnapReleasesKeeps == ASSUME SnapOnePerLock, SnapReleases PROVE SnapOnePerLock'
BY DEF SnapOnePerLock, SnapReleases

\* One task is replaced.
LEMMA SnapTaskReplaced ==
  ASSUME NEW t \in Task, NEW r \in Snap!Building \cup {Snap!Idle}, SnapTasksTyped,
         task' = [task EXCEPT ![t] = r]
  PROVE  SnapTasksTyped' /\ task'[t] = r /\ \A s \in Task \ {t} : task'[s] = task[s]
BY DEF SnapTasksTyped

\* A rebuild that holds a lock is a background task of the user.
LEMMA SnapHeld ==
  ASSUME SnapTasksTyped, NEW t \in Task, NEW u \in User, SnapHolds(t, u)
  PROVE  SnapBackground(t) /\ task[t].user = u /\ t \notin snap_late
BY SnapIdleIsIdle DEF SnapTasksTyped, SnapHolds, Snap!lockers, SnapBackground

\* Single flight per user: two rebuilds run at once only if one has outlived its lock
\* (inflight in the process, snap:lock in Redis).
THEOREM SnapSingleFlight == ASSUME Snap!SnapshotAssumption PROVE Snap!Spec => []Snap!OneRebuild
<1>1. Snap!Init => SnapSingleInv
  <2> SUFFICES ASSUME Snap!Init PROVE SnapSingleInv
    OBVIOUS
  <2>1. SnapTasksTyped
    BY DEF Snap!Init, SnapTasksTyped
  <2>2. \A t \in Task : task[t] = Snap!Idle
    BY DEF Snap!Init
  <2>3. \A t \in Task : ~SnapBackground(t) /\ \A u \in User : ~SnapHolds(t, u)
    BY <2>2, SnapIdleIsIdle DEF SnapBackground, SnapHolds, Snap!lockers
  <2> QED BY <2>1, <2>3 DEF SnapSingleInv, SnapOnePerUser, SnapOnePerLock
<1>2. SnapSingleInv /\ [Snap!Next]_(Snap!vars) => SnapSingleInv'
  <2> SUFFICES ASSUME SnapSingleInv, [Snap!Next]_(Snap!vars) PROVE SnapSingleInv'
    OBVIOUS
  <2>a. SnapTasksTyped
    BY DEF SnapSingleInv
  <2>b. Snap!Process' = Snap!Process
    BY DEF Snap!Next, Snap!served, Snap!build_inline, Snap!serve_stale, Snap!warm,
       Snap!refresh, Snap!step, Snap!take_lock, Snap!build, Snap!built,
           Snap!build_fails, Snap!put, Snap!put_lost, Snap!write, Snap!invalidate, Snap!invalidate_lost, Snap!clear, Snap!lock_expires,
           Snap!restart, Snap!vars, Snap!Process
  \* A step that starts no rebuild and gives no task a lock.
  <2>c. ASSUME SnapTasksTyped', SnapShrinks, SnapReleases PROVE SnapSingleInv'
    BY <2>b, <2>c, SnapShrinksKeeps, SnapReleasesKeeps DEF SnapSingleInv
  <2>d. ASSUME UNCHANGED <<task, lock, snap_late>> PROVE SnapSingleInv'
    BY <2>a, <2>b, <2>d DEF SnapSingleInv, SnapTasksTyped, SnapOnePerUser, SnapOnePerLock,
       SnapBackground, SnapHolds, Snap!lockers
  \* One task goes on, or ends.
  <2>e. ASSUME NEW t \in Task, NEW r \in Snap!Building \cup {Snap!Idle}, task' = [task EXCEPT ![t] = r],
               r \in Snap!Building => /\ task[t] \in Snap!Building /\ r.user = task[t].user
                                      /\ r.worker = task[t].worker /\ r.kind = task[t].kind
        PROVE  SnapTasksTyped' /\ SnapShrinks
    BY <2>a, <2>e, SnapTaskReplaced DEF SnapShrinks, SnapBackground
  <2>f. ASSUME NEW t \in Task, NEW r \in Snap!Building \cup {Snap!Idle}, task' = [task EXCEPT ![t] = r],
               r.at \in {"start", "built"} /\ r.kind = "background" =>
                   r.user = task[t].user /\ r.kind = task[t].kind
                   /\ task[t].at \in {"start", "built"}
                   /\ (t \in snap_late => t \in snap_late'),
               snap_late \ {t} \subseteq snap_late', lock' = lock
        PROVE  SnapReleases
    <3> SUFFICES ASSUME NEW s \in Task, NEW u \in User, SnapHolds(s, u)' PROVE SnapHolds(s, u)
      BY <2>f DEF SnapReleases
    <3>1. task'[t] = r /\ \A b \in Task \ {t} : task'[b] = task[b]
      BY <2>a, <2>f, SnapTaskReplaced
    <3>2. CASE s = t
      BY <3>1, <3>2, <2>f DEF SnapHolds, Snap!lockers
    <3>3. CASE s # t
      BY <3>1, <3>3, <2>f DEF SnapHolds, Snap!lockers
    <3> QED BY <3>2, <3>3
  <2>0. Snap!SnapshotAssumption
    OBVIOUS
  <2>1. ASSUME NEW u \in Snap!Users, NEW w \in Worker, NEW t \in Task, Snap!build_inline(u, w, t)
        PROVE  SnapSingleInv'
    <3> DEFINE r == [at |-> "start", user |-> u, worker |-> w, kind |-> "inline", data |-> None]
    <3>1. u \in User
      BY <2>0 DEF Snap!Users, Snap!SnapshotAssumption
    <3>2. r \in Snap!Building /\ r.kind = "inline"
      BY <3>1 DEF Snap!Building
    <3>3. task' = [task EXCEPT ![t] = r] /\ lock' = lock /\ snap_late' = snap_late
      BY <2>1 DEF Snap!build_inline
    <3> HIDE DEF r
    <3>4. SnapTasksTyped' /\ task'[t] = r /\ \A b \in Task \ {t} : task'[b] = task[b]
      BY <2>a, <3>2, <3>3, SnapTaskReplaced
    <3>5. SnapShrinks
      BY <3>2, <3>4 DEF SnapShrinks, SnapBackground
    <3>6. SnapReleases
      BY <3>2, <3>3, <2>f
    <3> QED BY <3>4, <3>5, <3>6, <2>c
  <2>2. ASSUME NEW u \in Snap!Users, NEW w \in Worker, NEW t \in Task, Snap!refresh(u, w, t)
        PROVE  SnapSingleInv'
    <3> DEFINE r == [at |-> IF Snap!Process THEN "start" ELSE "lock", user |-> u, worker |-> w,
                     kind |-> "background", data |-> None]
    <3>1. u \in User /\ (Snap!Process => w = Web)
      BY <2>0, <2>2 DEF Snap!Users, Snap!Workers, Snap!SnapshotAssumption, Snap!refresh
    <3>2. /\ r \in Snap!Building /\ r.kind = "background" /\ r.user = u /\ r.worker = w
          /\ ~Snap!Process => r.at = "lock"
      BY <3>1 DEF Snap!Building
    <3>3. /\ task' = [task EXCEPT ![t] = r] /\ lock' = lock /\ snap_late' = snap_late
          /\ ~Snap!inflight(u, w)
      BY <2>2 DEF Snap!refresh
    <3> HIDE DEF r
    <3>4. SnapTasksTyped' /\ task'[t] = r /\ \A b \in Task \ {t} : task'[b] = task[b]
      BY <2>a, <3>2, <3>3, SnapTaskReplaced
    <3>5. CASE Snap!Process
      <4>1. SnapOnePerUser
        BY <3>5 DEF SnapSingleInv
      <4>2. \A b \in Task : SnapBackground(b) => task[b].user # u
        BY <4>1, <3>1, <3>3, <3>5 DEF SnapOnePerUser, Snap!inflight, SnapBackground
      <4>3. \A b \in Task \ {t} : SnapBackground(b)' <=> SnapBackground(b)
        BY <3>4 DEF SnapBackground
      <4>4. SnapOnePerUser'
        BY <4>1, <4>2, <4>3, <3>1, <3>2, <3>4, <3>5 DEF SnapOnePerUser
      <4> QED BY <4>4, <3>4, <3>5, <2>b DEF SnapSingleInv
    <3>6. CASE ~Snap!Process
      <4>1. SnapReleases
        BY <3>2, <3>3, <3>6, <2>f
      <4> QED BY <4>1, <3>4, <3>6, <2>b, SnapReleasesKeeps DEF SnapSingleInv
    <3> QED BY <3>5, <3>6
  \* A task that goes on to another step keeps its user, its worker and its kind.
  <2>g. ASSUME NEW t \in Task, NEW here \in {"lock", "start", "built", "put"}, task[t].at = here,
               NEW there \in {"lock", "start", "built", "put"}, Snap!to(t, there)
        PROVE  \E r \in Snap!Building : /\ task' = [task EXCEPT ![t] = r] /\ r.at = there
                                        /\ task[t] \in Snap!Building /\ r.user = task[t].user
                                        /\ r.worker = task[t].worker /\ r.kind = task[t].kind
    <3>1. task[t] \in Snap!Building
      BY <2>a, <2>g, SnapIdleIsIdle DEF SnapTasksTyped
    <3>2. [task[t] EXCEPT !.at = there] \in Snap!Building
      BY <3>1 DEF Snap!Building
    <3>3. task' = [task EXCEPT ![t] = [task[t] EXCEPT !.at = there]]
      BY <2>g DEF Snap!to
    <3> QED BY <3>1, <3>2, <3>3 DEF Snap!Building
  <2>h. ASSUME NEW t \in Task, task' = [task EXCEPT ![t] = Snap!Idle], lock' = lock, snap_late \ {t} \subseteq snap_late'
        PROVE  SnapSingleInv'
    <3>1. SnapTasksTyped' /\ SnapShrinks
      BY <2>h, <2>e, SnapIdleIsIdle
    <3>2. SnapReleases
      BY <2>h, <2>f, SnapIdleIsIdle
    <3> QED BY <3>1, <3>2, <2>c
  <2>3. ASSUME NEW t \in Task, Snap!take_lock(t) PROVE SnapSingleInv'
    <3>1. CASE Snap!end(t) /\ UNCHANGED lock
      BY <3>1, <2>h DEF Snap!end
    <3>2. CASE /\ task[t].user \notin lock /\ lock' = lock \cup {task[t].user}
               /\ Snap!to(t, "start") /\ UNCHANGED snap_late
      <4>0. task[t].at = "lock"
        BY <2>3 DEF Snap!take_lock
      <4>1. PICK r \in Snap!Building : /\ task' = [task EXCEPT ![t] = r] /\ r.at = "start"
                                       /\ task[t] \in Snap!Building /\ r.user = task[t].user
                                       /\ r.worker = task[t].worker /\ r.kind = task[t].kind
        BY <3>2, <4>0, <2>g
      <4>2. SnapTasksTyped' /\ SnapShrinks
        BY <4>1, <2>e
      <4>3. task'[t] = r /\ \A b \in Task \ {t} : task'[b] = task[b]
        BY <2>a, <4>1, SnapTaskReplaced
      <4>4. ASSUME SnapOnePerLock PROVE SnapOnePerLock'
        <5> SUFFICES ASSUME NEW u \in User
                     PROVE  /\ \A b \in Task : SnapHolds(b, u)' => u \in lock'
                            /\ \A b, s \in Task : SnapHolds(b, u)' /\ SnapHolds(s, u)' => b = s
          BY DEF SnapOnePerLock
        <5>1. \A b \in Task \ {t} : SnapHolds(b, u)' <=> SnapHolds(b, u)
          BY <3>2, <4>3 DEF SnapHolds, Snap!lockers
        <5>2. SnapHolds(t, u)' => u = task[t].user
          BY <4>1, <4>3 DEF SnapHolds, Snap!lockers
        <5>3. \A b \in Task : SnapHolds(b, u) => u # task[t].user
          BY <4>4, <3>2 DEF SnapOnePerLock
        <5> QED BY <5>1, <5>2, <5>3, <4>4, <3>2 DEF SnapOnePerLock
      <4> QED BY <4>2, <4>4, <2>b, SnapShrinksKeeps DEF SnapSingleInv
    <3> QED BY <3>1, <3>2, <2>3 DEF Snap!take_lock
  <2>4. ASSUME NEW t \in Task, Snap!build(t) PROVE SnapSingleInv'
    <3>0. task[t].at = "start" /\ lock' = lock /\ snap_late' = snap_late
      BY <2>4 DEF Snap!build
    <3> DEFINE r == [task[t] EXCEPT !.at = "built", !.data = "fresh"]
    <3>1. task[t] \in Snap!Building
      BY <2>a, <3>0, SnapIdleIsIdle DEF SnapTasksTyped
    <3>2. /\ r \in Snap!Building /\ r.user = task[t].user /\ r.worker = task[t].worker
          /\ r.kind = task[t].kind
      BY <3>1 DEF Snap!Building, Snap!Data
    <3>3. task' = [task EXCEPT ![t] = r]
      BY <2>4 DEF Snap!build
    <3> HIDE DEF r
    <3>4. SnapTasksTyped' /\ SnapShrinks
      BY <3>1, <3>2, <3>3, <2>e
    <3>5. SnapReleases
      BY <3>0, <3>2, <3>3, <2>f
    <3> QED BY <3>4, <3>5, <2>c
  \* A rebuild ends and drops the lock of its user, whosever it is.
  <2>5. ASSUME NEW t \in Task, task[t].at = "built", Snap!unlock(t),
               NEW r \in Snap!Building \cup {Snap!Idle}, task' = [task EXCEPT ![t] = r],
               r.at \notin {"start", "built"},
               r \in Snap!Building => /\ task[t] \in Snap!Building /\ r.user = task[t].user
                                      /\ r.worker = task[t].worker /\ r.kind = task[t].kind
        PROVE  SnapSingleInv'
    <3>1. SnapTasksTyped' /\ SnapShrinks
      BY <2>5, <2>e
    <3>2. task'[t] = r /\ \A b \in Task \ {t} : task'[b] = task[b]
      BY <2>a, <2>5, SnapTaskReplaced
    <3>3. \A b \in Task, u \in User : /\ b \in Snap!lockers(u)' => b \in Snap!lockers(u) /\ b # t
                                      /\ ~SnapHolds(t, u)'
      BY <3>2, <2>5 DEF Snap!lockers, SnapHolds
    <3>4. ASSUME ~Snap!Process, SnapOnePerLock PROVE SnapOnePerLock'
      <4>1. CASE task[t].kind # "background"
        <5>1. lock' = lock /\ snap_late' = snap_late \ {t}
          BY <2>5, <4>1 DEF Snap!unlock
        <5>2. SnapReleases
          BY <5>1, <3>3 DEF SnapReleases, SnapHolds
        <5> QED BY <5>2, <3>4, SnapReleasesKeeps
      <4>2. CASE task[t].kind = "background"
        <5>0. PICK o \in User : o = task[t].user
          BY <2>a, <2>5, SnapIdleIsIdle DEF SnapTasksTyped, Snap!Building
        <5>1. /\ lock' = lock \ {o}
              /\ snap_late' = IF t \in snap_late THEN (snap_late \cup Snap!lockers(o)) \ {t} ELSE snap_late \ {t}
          BY <5>0, <2>5, <4>2, <3>4 DEF Snap!unlock
        <5>2. t \in Snap!lockers(o)
          BY <5>0, <2>5, <4>2 DEF Snap!lockers
        <5>3. \A b \in Task, u \in User : SnapHolds(b, u)' => SnapHolds(b, u) /\ b # t
          BY <5>1, <3>3 DEF SnapHolds
        <5>4. \A b \in Task : ~SnapHolds(b, o)'
          <6> SUFFICES ASSUME NEW b \in Task, SnapHolds(b, o)' PROVE FALSE
            OBVIOUS
          <6>1. b \in Snap!lockers(o) /\ b # t /\ b \notin snap_late /\ b \notin snap_late'
            BY <5>0, <5>3, <3>3 DEF SnapHolds
          <6>2. CASE t \in snap_late
            BY <6>1, <6>2, <5>1
          <6>3. CASE t \notin snap_late
            BY <6>1, <6>3, <5>0, <5>2, <3>4 DEF SnapOnePerLock, SnapHolds
          <6> QED BY <6>2, <6>3
        <5>5. ASSUME NEW b \in Task, NEW u \in User, SnapHolds(b, u)' PROVE u \in lock'
          <6>1. u # o
            BY <5>4, <5>5
          <6>2. u \in lock
            BY <5>3, <5>5, <3>4 DEF SnapOnePerLock
          <6> QED BY <6>1, <6>2, <5>1
        <5>6. ASSUME NEW b \in Task, NEW s \in Task, NEW u \in User, SnapHolds(b, u)', SnapHolds(s, u)'
              PROVE  b = s
          BY <5>3, <5>6, <3>4 DEF SnapOnePerLock
        <5> QED BY <5>5, <5>6 DEF SnapOnePerLock
      <4> QED BY <4>1, <4>2
    <3> QED BY <3>1, <3>4, <2>b, SnapShrinksKeeps DEF SnapSingleInv
  <2>6. ASSUME NEW t \in Task, Snap!built(t) PROVE SnapSingleInv'
    <3>1. PICK r \in Snap!Building : /\ task' = [task EXCEPT ![t] = r] /\ r.at = "put"
                                     /\ task[t] \in Snap!Building /\ r.user = task[t].user
                                     /\ r.worker = task[t].worker /\ r.kind = task[t].kind
      BY <2>6, <2>g DEF Snap!built
    <3> QED BY <3>1, <2>5, <2>6 DEF Snap!built
  <2>7. ASSUME NEW t \in Task, Snap!build_fails(t) PROVE SnapSingleInv'
    BY <2>7, <2>5, SnapIdleIsIdle DEF Snap!build_fails
  <2>8. ASSUME NEW t \in Task, Snap!put(t) \/ Snap!put_lost(t) PROVE SnapSingleInv'
    BY <2>8, <2>h DEF Snap!put, Snap!put_lost, Snap!end
  <2>9. ASSUME NEW u \in Snap!Users, Snap!write(u) PROVE SnapSingleInv'
    <3>1. \A t \in Task : /\ task'[t] \in Snap!Building \cup {Snap!Idle}
                          /\ task'[t].at = task[t].at /\ task'[t].user = task[t].user
                          /\ task'[t].worker = task[t].worker /\ task'[t].kind = task[t].kind
                          /\ SnapBackground(t)' => SnapBackground(t)
      <4> SUFFICES ASSUME NEW t \in Task
                   PROVE  /\ task'[t] \in Snap!Building \cup {Snap!Idle}
                          /\ task'[t].at = task[t].at /\ task'[t].user = task[t].user
                          /\ task'[t].worker = task[t].worker /\ task'[t].kind = task[t].kind
                          /\ SnapBackground(t)' => SnapBackground(t)
        OBVIOUS
      <4>1. CASE task'[t] = task[t]
        BY <4>1, <2>a DEF SnapTasksTyped, SnapBackground
      <4>2. CASE task[t].data # None /\ task'[t] = [task[t] EXCEPT !.data = "old"]
        <5>1. task[t] \in Snap!Building
          BY <2>a, <4>2, SnapIdleIsIdle DEF SnapTasksTyped
        <5> QED BY <4>2, <5>1 DEF Snap!Building, Snap!Data, SnapBackground
      <4>3. task'[t] = IF task[t].user = u /\ task[t].data # None
                         THEN [task[t] EXCEPT !.data = "old"] ELSE task[t]
        BY <2>9 DEF Snap!write
      <4> QED BY <4>1, <4>2, <4>3
    <3>2. lock' = lock /\ snap_late' = snap_late /\ task' = [t \in Task |-> task'[t]]
      BY <2>9 DEF Snap!write
    <3>3. SnapTasksTyped' /\ SnapShrinks
      BY <3>1, <3>2 DEF SnapTasksTyped, SnapShrinks
    <3>4. SnapReleases
      BY <3>1, <3>2 DEF SnapReleases, SnapHolds, Snap!lockers
    <3> QED BY <3>3, <3>4, <2>c
  <2>10. ASSUME NEW u \in Snap!Users, Snap!invalidate(u) \/ Snap!invalidate_lost(u) PROVE SnapSingleInv'
    BY <2>10, <2>d DEF Snap!invalidate, Snap!invalidate_lost
  <2>11. CASE Snap!clear
    BY <2>11, <2>d DEF Snap!clear
  <2>12. ASSUME NEW u \in Snap!Users, Snap!lock_expires(u) PROVE SnapSingleInv'
    <3>1. lock' = lock \ {u} /\ snap_late' = snap_late \cup Snap!lockers(u) /\ task' = task
      BY <2>12 DEF Snap!lock_expires
    <3>2. SnapTasksTyped' /\ SnapShrinks
      BY <3>1, <2>a DEF SnapTasksTyped, SnapShrinks, SnapBackground
    <3>3. \A t \in Task, v \in User : SnapHolds(t, v)' => SnapHolds(t, v) /\ v # u
      BY <3>1 DEF SnapHolds, Snap!lockers
    <3>4. ASSUME SnapOnePerLock PROVE SnapOnePerLock'
      BY <3>1, <3>3, <3>4 DEF SnapOnePerLock
    <3> QED BY <3>2, <3>4, <2>b, SnapShrinksKeeps DEF SnapSingleInv
  <2>13. ASSUME NEW w \in Worker, Snap!restart(w) PROVE SnapSingleInv'
    <3>1. /\ task' = [t \in Task |-> IF task[t].worker = w THEN Snap!Idle ELSE task[t]]
          /\ snap_late' = {t \in snap_late : task[t].worker # w} /\ lock' = lock
      BY <2>13 DEF Snap!restart
    <3>2. \A t \in Task : task'[t] = IF task[t].worker = w THEN Snap!Idle ELSE task[t]
      BY <3>1
    <3>3. SnapTasksTyped'
      BY <2>a, <3>1 DEF SnapTasksTyped
    <3>4. SnapShrinks
      BY <3>2, SnapIdleIsIdle DEF SnapShrinks, SnapBackground
    <3>5. SnapReleases
      BY <3>1, <3>2, SnapIdleIsIdle DEF SnapReleases, SnapHolds, Snap!lockers
    <3> QED BY <3>3, <3>4, <3>5, <2>c
  <2>14. CASE UNCHANGED Snap!vars
    BY <2>14, <2>d DEF Snap!vars
  <2> QED BY <2>1, <2>2, <2>3, <2>4, <2>6, <2>7, <2>8, <2>9, <2>10, <2>11, <2>12, <2>13, <2>14
      DEF Snap!Next, Snap!served, Snap!serve_stale, Snap!warm, Snap!step
<1>3. SnapSingleInv => Snap!OneRebuild
  <2> SUFFICES ASSUME SnapSingleInv, NEW u \in User, NEW t \in Snap!lockers(u) \ snap_late,
                      NEW s \in Snap!lockers(u) \ snap_late
               PROVE  t = s
    BY DEF Snap!OneRebuild
  <2>1. t \in Task /\ s \in Task /\ SnapHolds(t, u) /\ SnapHolds(s, u)
    BY DEF Snap!lockers, SnapHolds
  <2>2. /\ SnapBackground(t) /\ task[t].user = u /\ SnapBackground(s) /\ task[s].user = u
    BY <2>1, SnapHeld DEF SnapSingleInv
  <2> QED BY <2>1, <2>2 DEF SnapSingleInv, SnapOnePerUser, SnapOnePerLock
<1> QED BY <1>1, <1>2, <1>3, PTL DEF Snap!Spec

-----------------------------------------------------------------------------
(***************************************************************************)
(* The components side by side                                             *)
(***************************************************************************)

\* Every behaviour of the run is one of the dives and of the snapshot store, up to steps
\* that change nothing of theirs.
LEMMA SumImplements == SumSpec => Spec /\ Snap!Spec
<1>1. SumInit => Init /\ Snap!Init
  BY DEF SumInit
<1>2. [SumNext]_all => [Next]_vars
  BY DEF SumNext, all
<1>3. [SumNext]_all => [Snap!Next]_(Snap!vars)
  BY DEF SumNext, all, snap_vars, Snap!vars
<1> QED BY <1>1, <1>2, <1>3, PTL DEF SumSpec, Spec, Snap!Spec

\* A dive has one ending: its run, its report, the message that it is ready and the end of
\* its stream agree, whatever write failed and whenever the process restarted.
THEOREM EndsAgree == SumSpec => []OneEnding
BY SumImplements, DiveOneEnding, PartsAssumption, PTL

\* A section is rebuilt by one task at a time, in the process or across the workers,
\* unless a task has outlived its lock.
THEOREM SingleRebuild == SumSpec => []OneRebuild
BY SumImplements, SnapSingleFlight, PartsAssumption, PTL DEF OneRebuild
=============================================================================
