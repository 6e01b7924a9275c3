--------------------------- MODULE ProgressBroker ---------------------------
(***************************************************************************)
(* The in-process publish/subscribe of progress events (ProgressBroker),   *)
(* and the generator that drains one subscriber's queue into a response    *)
(* (sse_response).  Each method runs without an await, so it is one step;  *)
(* the modules that EXTEND this one say which job publishes and what the   *)
(* endpoint does around subscribe.                                         *)
(***************************************************************************)
EXTENDS Naturals, Sequences, FiniteSets, SequencesExt

CONSTANTS
    Key,            \* run or report ids
    Client,         \* one GET of an events endpoint each
    NoKey,
    QueueSize,      \* _QUEUE_SIZE
    ReplaySize,     \* replay_size; 0 keeps no history
    MaxHistories    \* max_histories

ASSUME BrokerAssumption ==
    /\ QueueSize \in Nat \ {0}
    /\ ReplaySize \in Nat
    /\ MaxHistories \in Nat \ {0}

VARIABLES
    subs,        \* subs[k]: clients whose queue is subscribed to k
    queue,       \* queue[c]: the queue of client c
    histories,   \* the keys of _history, next to be evicted first
    buffer,      \* buffer[k]: the deque of k, empty once evicted
    finished,    \* _finished
    pc,          \* pc[c]: "new", "read" (its row was read), "streaming", "ended", "left"
    key,         \* key[c]: the id it asked for
    got,         \* got[c]: events received, those of the snapshot first
    lost,        \* lost[c]: kinds of items put_nowait dropped (history)
    evicted      \* keys whose history was evicted (history)

broker == <<subs, queue, histories, buffer, finished, lost, evicted>>
client == <<pc, key, got>>

\* A queue item: the snapshot frame with the events it replays, one event
\* (events of a key are numbered as they are published), or SENTINEL.
Item(type, events) == [type |-> type, events |-> events]
Event(n) == Item("event", <<n>>)
SENTINEL == Item("sentinel", <<>>)

BrokerTypeOK ==
    /\ subs \in [Key -> SUBSET Client]
    /\ \A c \in Client : /\ Len(queue[c]) <= QueueSize
                         /\ \A i \in DOMAIN queue[c] :
                              queue[c][i].type \in {"snapshot", "event", "sentinel"}
    /\ histories \in Seq(Key) /\ IsInjective(histories)
    /\ Len(histories) <= MaxHistories
    /\ \A k \in Key : /\ buffer[k] \in Seq(Nat) /\ Len(buffer[k]) <= ReplaySize
                      /\ buffer[k] # <<>> => k \in Range(histories)
    /\ finished \subseteq Key /\ evicted \subseteq Key
    /\ key \in [Client -> Key \cup {NoKey}]
    /\ pc \in [Client -> {"new", "read", "streaming", "ended", "left"}]
    /\ lost \in [Client -> SUBSET {"event", "sentinel"}]

BrokerInit ==
    /\ subs = [k \in Key |-> {}]
    /\ queue = [c \in Client |-> <<>>]
    /\ histories = <<>>
    /\ buffer = [k \in Key |-> <<>>]
    /\ finished = {}
    /\ pc = [c \in Client |-> "new"]
    /\ key = [c \in Client |-> NoKey]
    /\ got = [c \in Client |-> <<>>]
    /\ lost = [c \in Client |-> {}]
    /\ evicted = {}

-----------------------------------------------------------------------------
\* The last n elements of s (a deque with maxlen n).
LastOf(s, n) == IF Len(s) <= n THEN s ELSE SubSeq(s, Len(s) - n + 1, Len(s))

\* put_nowait of the items, in turn, on the queues of the clients in S.
Put(q, items) == LET room == QueueSize - Len(q)
                 IN q \o (IF Len(items) <= room THEN items ELSE SubSeq(items, 1, room))

put_nowait(S, items) ==
    /\ queue' = [c \in Client |-> IF c \in S THEN Put(queue[c], items) ELSE queue[c]]
    /\ lost' = [c \in Client |->
                  IF c \in S
                  THEN LET in == Len(Put(queue[c], items)) - Len(queue[c])
                       IN lost[c] \cup {items[i].type : i \in (in + 1)..Len(items)}
                  ELSE lost[c]]

\* The key becomes the newest of the histories and gets the events; the oldest
\* history goes when there are too many (_record, and open with no event).
touch(k, events) ==
    IF ReplaySize = 0 THEN UNCHANGED <<histories, buffer, evicted>>
    ELSE LET kept == LastOf(Append(RemoveFirst(histories, k), k), MaxHistories)
             gone == Range(histories) \ Range(kept)
         IN /\ histories' = kept
            /\ buffer' = [j \in Key |->
                            CASE j = k -> LastOf(buffer[k] \o events, ReplaySize)
                              [] j \in gone -> <<>>
                              [] OTHER -> buffer[j]]
            /\ evicted' = evicted \cup gone

still_finished == finished \cap Range(histories')

open(k) ==
    /\ touch(k, <<>>)
    /\ finished' = IF ReplaySize = 0 THEN finished ELSE still_finished \ {k}
    /\ UNCHANGED <<subs, queue, lost>>

publish(k, n) ==
    /\ touch(k, <<n>>)
    /\ finished' = IF ReplaySize = 0 THEN finished ELSE still_finished
    /\ put_nowait(subs[k], <<Event(n)>>)
    /\ UNCHANGED subs

\* The job's last step, with no await in it: publish the last event, if there
\* is one, and close.
publish_and_close(k, last) ==
    /\ touch(k, last)
    /\ finished' = IF ReplaySize = 0 THEN finished ELSE still_finished \cup {k}
    /\ put_nowait(subs[k], [i \in DOMAIN last |-> Event(last[i])] \o <<SENTINEL>>)
    /\ subs' = [subs EXCEPT ![k] = {}]

\* Mutant of is_finished: close leaves no mark.
is_finished_never(k) == FALSE

is_finished(k) == k \in finished
is_known(k) == subs[k] # {} \/ k \in Range(histories)

\* Mutant of subscribe: nothing is replayed.
subscribe_unreplayed(c, k, items) ==
    /\ subs' = [subs EXCEPT ![k] = @ \cup {c}]
    /\ queue' = [queue EXCEPT ![c] = Tail(items)]
    /\ pc' = [pc EXCEPT ![c] = "streaming"]
    /\ UNCHANGED <<histories, buffer, finished, lost, evicted, got>>

\* subscribe, and the first frames an endpoint puts on the empty queue.
subscribe(c, k, items) ==
    /\ subs' = [subs EXCEPT ![k] = @ \cup {c}]
    /\ queue' = [queue EXCEPT ![c] = Put(<<>>, items)]
    /\ pc' = [pc EXCEPT ![c] = "streaming"]
    /\ UNCHANGED <<histories, buffer, finished, lost, evicted, got>>

unsubscribe(c) == subs' = [subs EXCEPT ![key[c]] = @ \ {c}]

-----------------------------------------------------------------------------
\* One turn of the generator of sse_response: SENTINEL ends the response.
drain(c) ==
    /\ pc[c] = "streaming" /\ queue[c] # <<>>
    /\ LET item == Head(queue[c])
       IN IF item.type = "sentinel"
          THEN /\ pc' = [pc EXCEPT ![c] = "ended"]
               /\ queue' = [queue EXCEPT ![c] = <<>>]
               /\ unsubscribe(c)
               /\ UNCHANGED got
          ELSE /\ queue' = [queue EXCEPT ![c] = Tail(@)]
               /\ got' = [got EXCEPT ![c] = @ \o item.events]
               /\ UNCHANGED <<pc, subs>>
    /\ UNCHANGED <<histories, buffer, finished, key, lost, evicted>>

\* The client is found to be gone, after a frame or at a heartbeat; what it
\* received is of no more interest.
disconnect(c) ==
    /\ pc[c] = "streaming"
    /\ pc' = [pc EXCEPT ![c] = "left"]
    /\ queue' = [queue EXCEPT ![c] = <<>>]
    /\ unsubscribe(c)
    /\ key' = [key EXCEPT ![c] = NoKey]
    /\ got' = [got EXCEPT ![c] = <<>>]
    /\ lost' = [lost EXCEPT ![c] = {}]
    /\ UNCHANGED <<histories, buffer, finished, evicted>>

\* Everything c has received or will from its queue as it is.
Delivered(c) == got[c] \o FlattenSeq([i \in DOMAIN queue[c] |-> queue[c][i].events])

-----------------------------------------------------------------------------
\* No event reaches a client twice or out of order, neither within the live
\* events nor between the replayed ones and the live ones.
InOrder ==
    \A c \in Client : \A i, j \in DOMAIN Delivered(c) :
       i < j => Delivered(c)[i] < Delivered(c)[j]

\* "The run is over and its history is all a new subscriber will ever get": a
\* key is marked finished only while its history is buffered, so evicting the
\* history of a run, even one still publishing, leaves no mark behind.
FinishedBuffered == finished \subseteq Range(histories)

\* The two promises of the broker to its readers.
ReplayIsSound == InOrder /\ FinishedBuffered
=============================================================================
