----------------------------- MODULE ChatEvents -----------------------------
(***************************************************************************)
(* POST /chat/start and GET /chat/runs/{id}/events: detached chat runs     *)
(* publish to chat_broker (a ProgressBroker with replay), and any number   *)
(* of clients tail a run, while it goes on or after it.                    *)
(***************************************************************************)
EXTENDS ProgressBroker

CONSTANT MaxEvents   \* bound: events a run publishes before its last one
ASSUME ChatAssumption == MaxEvents \in Nat /\ ReplaySize > 0

VARIABLES
    run,        \* run[k]: "absent", "created", "live" or "over"
    published,  \* published[k]: events published so far
    via         \* via[c]: what made the run known when c subscribed (history)

vars == <<broker, client, run, published, via>>

Via == {"none", "history", "subscribers", "nothing"}

TypeOK ==
    /\ BrokerTypeOK
    /\ run \in [Key -> {"absent", "created", "live", "over"}]
    /\ published \in [Key -> 0..(MaxEvents + 1)]
    /\ via \in [Client -> Via]

Init ==
    /\ BrokerInit
    /\ run = [k \in Key |-> "absent"]
    /\ published = [k \in Key |-> 0]
    /\ via = [c \in Client |-> "none"]

\* chat_start: the agent_runs row is there before the run is registered.
create_run(k) ==
    /\ run[k] = "absent"
    /\ run' = [run EXCEPT ![k] = "created"]
    /\ UNCHANGED <<broker, client, published, via>>

chat_start(k) ==
    /\ run[k] = "created"
    /\ run' = [run EXCEPT ![k] = "live"]
    /\ open(k)
    /\ UNCHANGED <<client, published, via>>

on_event(k) ==
    /\ run[k] = "live" /\ published[k] < MaxEvents
    /\ published' = [published EXCEPT ![k] = @ + 1]
    /\ publish(k, published[k] + 1)
    /\ UNCHANGED <<client, run, via>>

\* drive: the "done" or "error" event, then close.
drive_ends(k) ==
    /\ run[k] = "live"
    /\ run' = [run EXCEPT ![k] = "over"]
    /\ published' = [published EXCEPT ![k] = @ + 1]
    /\ publish_and_close(k, <<published[k] + 1>>)
    /\ UNCHANGED <<client, via>>

\* chat_run_events, after get_run: the broker is read, then subscribed to.
chat_run_events(c, k) ==
    /\ pc[c] = "new" /\ run[k] # "absent"
    /\ key' = [key EXCEPT ![c] = k]
    /\ via' = [via EXCEPT ![c] = CASE k \in Range(histories) -> "history"
                                   [] ~is_known(k) -> "nothing"
                                   [] OTHER -> "subscribers"]
    /\ LET snapshot == Item("snapshot", buffer[k])
       IN subscribe(c, k, IF is_finished(k) \/ ~is_known(k)
                          THEN <<snapshot, SENTINEL>> ELSE <<snapshot>>)
    /\ UNCHANGED <<run, published>>

drive(k) == chat_start(k) \/ on_event(k) \/ drive_ends(k)
read(c) == drain(c) /\ UNCHANGED <<run, published, via>>
leave(c) == /\ disconnect(c)
            /\ via' = [via EXCEPT ![c] = "none"]
            /\ UNCHANGED <<run, published>>

Next ==
    \/ \E k \in Key : create_run(k) \/ drive(k)
    \/ \E c \in Client : \/ \E k \in Key : chat_run_events(c, k)
                         \/ read(c)
                         \/ leave(c)

Spec == Init /\ [][Next]_vars

\* A run ends (its caps and timeouts), and a connected client is sent what is
\* in its queue.
Fairness == /\ \A k \in Key : WF_vars(drive(k))
            /\ \A c \in Client : WF_vars(read(c))

FairSpec == Spec /\ Fairness

-----------------------------------------------------------------------------
(***************************************************************************)
(* Properties                                                              *)
(***************************************************************************)

\* "Replaying every event buffered so far closes two gaps at once": a client
\* that found the run's history has, or has in its queue, all the events of
\* the run so far, unless its queue overflowed or the buffer was too small.
NothingMissed ==
    \A c \in Client :
       (/\ pc[c] \in {"streaming", "ended"}
        /\ via[c] = "history"
        /\ "event" \notin lost[c]
        /\ key[c] \notin evicted
        /\ published[key[c]] <= ReplaySize)
       => Delivered(c) = [i \in 1..published[key[c]] |-> i]

\* A stream that ended by itself ended for a reason: the run was over and its
\* last event was sent, or the client was told at once that there is no buffer.
EndsWithAnswer ==
    \A c \in Client :
       pc[c] = "ended" /\ via[c] = "history" =>
          /\ run[key[c]] = "over"
          /\ "event" \in lost[c] \/ published[key[c]] \in Range(got[c])

\* What a client was told is the run's events in order, and, when it found the run's
\* history, all there was to tell.
StreamIsWhole == ReplayIsSound /\ NothingMissed /\ EndsWithAnswer

\* Every stream ends, but for two cases: the queue was full when the run was
\* closed, or only another subscriber made the run look known.
StreamEnds ==
    \A c \in Client :
       (pc[c] = "streaming" /\ via[c] # "subscribers")
          ~> (pc[c] # "streaming" \/ "sentinel" \in lost[c])
=============================================================================
