--------------------------- MODULE DeepDiveEvents ---------------------------
(***************************************************************************)
(* A deep dive from its report row to its end (run_deep_dive and the task  *)
(* of start_deep_dive that drives it), and the clients that tail it with   *)
(* GET /deep-dive/{id}/events.  Its broker keeps no history: what a client *)
(* missed comes from the report row, which the endpoint reads in an await  *)
(* before it subscribes.                                                   *)
(***************************************************************************)
EXTENDS ProgressBroker

CONSTANTS
    MaxStages,    \* progress events of one dive
    MaxRestarts   \* bound: process restarts in a behaviour
DiveAssumption ==
    /\ MaxStages \in Nat /\ MaxRestarts \in Nat
    /\ ReplaySize = 0

VARIABLES
    report,    \* report[k]: deep_dive_reports.status ("partial" is "completed")
    runrow,    \* runrow[k]: agent_runs.status of the dive
    saved,     \* saved[k]: stages in deep_dive_reports.progress
    manual,    \* dives started by POST /deep-dive; the others are scheduled
    job,       \* job[k]: where run_deep_dive is
    outcome,   \* outcome[k]: the status it finalizes with
    stage,     \* stage[k]: stages passed so far
    handling,  \* dives whose finalize("error") in the except block has begun
    queued,    \* dives whose summary was handed to enqueue_outbound
    unprepared,  \* dives whose set-up failed (history)
    seen,      \* seen[c]: the report row as c's request read it
    late,      \* clients that subscribed when nothing would close the key (history)
    restarts   \* restarts so far

dive == <<report, runrow, saved, manual, job, outcome, stage, handling, queued,
          unprepared>>
vars == <<broker, client, dive, seen, late, restarts>>

Final == {"completed", "error"}
Jobs == {"none", "setup", "work", "emit", "update", "finalize", "enqueue", "done",
         "close", "over", "lost"}

TypeOK ==
    /\ BrokerTypeOK
    /\ report \in [Key -> Final \cup {"absent", "running"}]
    /\ runrow \in [Key -> Final \cup {"absent", "running"}]
    /\ saved \in [Key -> 0..MaxStages] /\ stage \in [Key -> 0..MaxStages]
    /\ job \in [Key -> Jobs] /\ outcome \in [Key -> Final]
    /\ manual \subseteq Key /\ handling \subseteq Key /\ queued \subseteq Key
    /\ unprepared \subseteq Key
    /\ seen \in [Client -> [status: Final \cup {"absent", "running"},
                            progress: 0..MaxStages]]
    /\ late \subseteq Client /\ restarts \in 0..MaxRestarts

Init ==
    /\ BrokerInit
    /\ report = [k \in Key |-> "absent"] /\ runrow = [k \in Key |-> "absent"]
    /\ saved = [k \in Key |-> 0] /\ stage = [k \in Key |-> 0]
    /\ manual = {} /\ handling = {} /\ queued = {} /\ unprepared = {} /\ late = {}
    /\ job = [k \in Key |-> "none"]
    /\ outcome = [k \in Key |-> "completed"]
    /\ seen = [c \in Client |-> [status |-> "absent", progress |-> 0]]
    /\ restarts = 0

-----------------------------------------------------------------------------
goto(k, j) == job' = [job EXCEPT ![k] = j]
at(k, j) == job[k] = j

\* start_deep_dive, or the weekly run_deep_dives_for_all: run row, report row.
start_deep_dive(k) ==
    /\ at(k, "none") /\ goto(k, "setup")
    /\ report' = [report EXCEPT ![k] = "running"]
    /\ runrow' = [runrow EXCEPT ![k] = "running"]
    /\ \/ manual' = manual \cup {k}
       \/ UNCHANGED manual
    /\ UNCHANGED <<broker, saved, outcome, stage, handling, queued, unprepared>>

\* The set-up of run_deep_dive, before its try: the client, the user, the plan.
set_up(k) ==
    /\ at(k, "setup") /\ goto(k, "work")
    /\ UNCHANGED <<broker, report, runrow, saved, manual, outcome, stage, handling, queued,
                   unprepared>>

\* An exception there reaches drive, or the fan-out, at once: nothing is finalized.
set_up_fails(k) ==
    /\ at(k, "setup") /\ goto(k, "close")
    /\ unprepared' = unprepared \cup {k}
    /\ UNCHANGED <<broker, report, runrow, saved, manual, outcome, stage, handling, queued>>

\* _Progress._persist: a failed write is swallowed.
persist(k) ==
    /\ at(k, "work") /\ stage[k] < MaxStages /\ goto(k, "emit")
    /\ stage' = [stage EXCEPT ![k] = @ + 1]
    /\ \/ saved' = [saved EXCEPT ![k] = stage[k] + 1]
       \/ UNCHANGED saved
    /\ UNCHANGED <<broker, report, runrow, manual, outcome, handling, queued, unprepared>>

\* A scheduled dive has no on_event callback.
tell(k, n) == IF k \in manual THEN publish(k, n) ELSE UNCHANGED broker

emit(k) ==
    /\ at(k, "emit") /\ goto(k, "work")
    /\ tell(k, stage[k])
    /\ UNCHANGED <<report, runrow, saved, manual, outcome, stage, handling, queued, unprepared>>

\* The stages are over; all specialists may have failed.
conclude(k) ==
    /\ at(k, "work") /\ goto(k, "update")
    /\ \E s \in Final : outcome' = [outcome EXCEPT ![k] = s]
    /\ UNCHANGED <<broker, report, runrow, saved, manual, stage, handling, queued, unprepared>>

\* Mutant of update_report: a failure is not written.
update_report_success(k) ==
    /\ at(k, "update") /\ goto(k, "finalize")
    /\ report' = [report EXCEPT ![k] = IF outcome[k] = "error" THEN @ ELSE outcome[k]]
    /\ UNCHANGED <<broker, runrow, saved, manual, outcome, stage, handling, queued, unprepared>>

\* finalize: the report row, the run row, the message, the last event.
update_report(k) ==
    /\ at(k, "update") /\ goto(k, "finalize")
    /\ report' = [report EXCEPT ![k] = outcome[k]]
    /\ UNCHANGED <<broker, runrow, saved, manual, outcome, stage, handling, queued, unprepared>>

finalize_run(k) ==
    /\ at(k, "finalize")
    /\ goto(k, IF outcome[k] = "completed" THEN "enqueue" ELSE "done")
    /\ runrow' = [runrow EXCEPT ![k] = outcome[k]]
    /\ UNCHANGED <<broker, report, saved, manual, outcome, stage, handling, queued, unprepared>>

\* A failure to enqueue is swallowed.
enqueue(k) ==
    /\ at(k, "enqueue") /\ goto(k, "done")
    /\ \/ queued' = queued \cup {k}
       \/ UNCHANGED queued
    /\ UNCHANGED <<broker, report, runrow, saved, manual, outcome, stage, handling,
                   unprepared>>

dd_done(k) ==
    /\ at(k, "done") /\ goto(k, "close")
    /\ tell(k, MaxStages + 1)
    /\ UNCHANGED <<report, runrow, saved, manual, outcome, stage, handling, queued, unprepared>>

\* An exception in the try block runs finalize("error"); one raised by that
\* call ends the dive.
raise(k) ==
    /\ job[k] \in {"work", "update", "finalize"}
    /\ IF k \in handling THEN goto(k, "close") /\ UNCHANGED <<outcome, handling>>
       ELSE /\ goto(k, "update")
            /\ outcome' = [outcome EXCEPT ![k] = "error"]
            /\ handling' = handling \cup {k}
    /\ UNCHANGED <<broker, report, runrow, saved, manual, stage, queued, unprepared>>

\* Mutant of close: the broker is not told.
close_silent(k) ==
    /\ at(k, "close") /\ goto(k, "over")
    /\ UNCHANGED <<broker, report, runrow, saved, manual, outcome, stage, handling, queued,
                   unprepared>>

\* The finally block of drive; nothing closes the key of a scheduled dive.
close(k) ==
    /\ at(k, "close") /\ goto(k, "over")
    /\ IF k \in manual THEN publish_and_close(k, <<>>) ELSE UNCHANGED broker
    /\ UNCHANGED <<report, runrow, saved, manual, outcome, stage, handling, queued, unprepared>>

pipeline(k) ==
    /\ \/ set_up(k) \/ persist(k) \/ emit(k) \/ conclude(k) \/ update_report(k)
       \/ finalize_run(k) \/ enqueue(k) \/ dd_done(k) \/ close(k)
    /\ UNCHANGED <<client, seen, late, restarts>>

-----------------------------------------------------------------------------
\* deep_dive_events: the row is read ...
get_report(c, k) ==
    /\ pc[c] = "new" /\ report[k] # "absent"
    /\ pc' = [pc EXCEPT ![c] = "read"]
    /\ key' = [key EXCEPT ![c] = k]
    /\ seen' = [seen EXCEPT ![c] = [status |-> report[k], progress |-> saved[k]]]
    /\ UNCHANGED <<broker, dive, got, late, restarts>>

\* ... and then the key is subscribed to.
deep_dive_events(c) ==
    /\ pc[c] = "read"
    /\ LET snapshot == Item("snapshot", [i \in 1..seen[c].progress |-> i])
       IN subscribe(c, key[c], IF seen[c].status # "running"
                               THEN <<snapshot, SENTINEL>> ELSE <<snapshot>>)
    /\ late' = IF job[key[c]] \in {"over", "lost"} THEN late \cup {c} ELSE late
    /\ UNCHANGED <<dive, key, seen, restarts>>

read(c) == drain(c) /\ UNCHANGED <<dive, seen, late, restarts>>
leave(c) == disconnect(c) /\ UNCHANGED <<dive, seen, late, restarts>>

\* The process restarts: the broker, the tasks and the connections are gone.
restart ==
    /\ restarts < MaxRestarts /\ restarts' = restarts + 1
    /\ subs' = [k \in Key |-> {}]
    /\ queue' = [c \in Client |-> <<>>]
    /\ pc' = [c \in Client |-> IF pc[c] \in {"read", "streaming"} THEN "left" ELSE pc[c]]
    /\ job' = [k \in Key |-> IF job[k] \in {"none", "over"} THEN job[k] ELSE "lost"]
    /\ UNCHANGED <<histories, buffer, finished, lost, evicted, key, got, report, runrow,
                   saved, manual, outcome, stage, handling, queued, unprepared, seen, late>>

Next ==
    \/ \E k \in Key : \/ start_deep_dive(k) /\ UNCHANGED <<client, seen, late, restarts>>
                      \/ pipeline(k)
                      \/ (raise(k) \/ set_up_fails(k)) /\ UNCHANGED <<client, seen, late, restarts>>
    \/ \E c \in Client : \/ \E k \in Key : get_report(c, k)
                         \/ deep_dive_events(c)
                         \/ read(c)
                         \/ leave(c)
    \/ restart

Spec == Init /\ [][Next]_vars

\* Every stage ends (budgets and timeouts), requests are served, and a
\* connected client is sent what is in its queue.
FairSpec ==
    /\ Spec
    /\ \A k \in Key : WF_vars(pipeline(k))
    /\ \A c \in Client : WF_vars(deep_dive_events(c)) /\ WF_vars(read(c))

-----------------------------------------------------------------------------
(***************************************************************************)
(* Properties                                                              *)
(***************************************************************************)

\* The report, its run and its message never tell different endings, although
\* they are written one after the other, each write may fail, and the failure of
\* a later one rewrites the first: a run that has ended, ended as its report, and
\* "Your deep dive is ready" is queued only for a dive that is and stays completed.
EndingsAgree ==
    /\ \A k \in Key : runrow[k] \in Final => runrow[k] = report[k]
    /\ \A k \in queued : report[k] = "completed" /\ runrow[k] = "completed"

\* A stream that ends tells the client to load the report; it is final by
\* then, unless finalize failed twice or the dive was never set up.
EndMeansFinal ==
    \A c \in Client : pc[c] = "ended" =>
       report[key[c]] \in Final \/ key[c] \in handling \cup unprepared

\* The rows, the message and the stream tell one ending.
OneEnding == EndingsAgree /\ EndMeansFinal

\* Every dive ends with a final report, unless its set-up or its writes fail or the
\* process stops: "a failed plan or synthesis stage still finalizes the report row".
ReportFinal ==
    \A k \in Key : report[k] = "running" ~>
       (report[k] \in Final \/ k \in handling \cup unprepared \/ at(k, "lost"))

\* The stream of a manual dive ends, unless the queue was full when the dive
\* closed it, or the dive was over when the client subscribed.
ManualStreamEnds ==
    \A c \in Client : (pc[c] = "streaming" /\ key[c] \in manual) ~>
       (pc[c] # "streaming" \/ "sentinel" \in lost[c] \/ c \in late)

\* A dive ends for those who read its report and for those who watch its stream.
DiveEnds == ReportFinal /\ ManualStreamEnds
=============================================================================
