-------------------------------- MODULE Digest --------------------------------
(***************************************************************************)
(* One user's morning digests: the pipeline (run_digest_pipeline) with its *)
(* synthesis, the send_digest tool and the fallback, started by the daily  *)
(* fan-out, by POST /digest/run or as the first briefing.  A step is what  *)
(* happens between two awaits that matter.                                 *)
(***************************************************************************)
EXTENDS Naturals, FiniteSets

CONSTANTS
    Run,        \* pipeline runs, each used once: a bound
    MaxDay,     \* days in the user's time zone: a bound
    MaxSends,   \* send_digest calls of a run: what its budget allows
    None

Body == {"good", "fallback"}
Origin == {"scheduled", "forced", "first"}

DigestAssumption ==
    /\ MaxDay \in Nat \ {0}
    /\ None \notin [run : Run, body : Body] \cup Origin \cup {"completed"}

VARIABLES
    day,
    digest,     \* digest[d]: the run and kind of body of the row of day d, or None
    queued,     \* queued[r]: what r handed to enqueue_outbound, with its day
    pc, origin, \* per run: its place, what started it
    born,       \* the day it started on (history)
    sends,      \* send_digest calls begun
    sent,       \* a call of it returned
    row,        \* agent_runs.status of its anchor run
    first_active,   \* first_briefings_active has the user
    loud,       \* runs whose fallback failed, or that a restart cut short (history)
    met         \* pairs of runs that overlapped (history)

vars == <<day, digest, queued, pc, origin, born, sends, sent, row, first_active, loud, met>>

Day == 1 .. MaxDay
Place == {"idle", "f_check", "start", "work", "synth", "stored", "finish", "fallback",
          "fallback_queue", "fail", "done"}

TypeOK ==
    /\ day \in Day
    /\ digest \in [Day -> [run : Run, body : Body] \cup {None}]
    /\ queued \in [Run -> SUBSET [day : Day, body : Body]]
    /\ pc \in [Run -> Place] /\ origin \in [Run -> Origin \cup {None}]
    /\ born \in [Run -> Day \cup {None}]
    /\ sends \in [Run -> 0 .. MaxSends] /\ sent \in [Run -> BOOLEAN]
    /\ row \in [Run -> {"running", "completed", "error", None}]
    /\ first_active \in BOOLEAN
    /\ {loud} \subseteq SUBSET Run /\ met \subseteq SUBSET Run

Init ==
    /\ day = 1 /\ digest = [d \in Day |-> None]
    /\ queued = [r \in Run |-> {}]
    /\ pc = [r \in Run |-> "idle"] /\ origin = [r \in Run |-> None]
    /\ born = [r \in Run |-> None]
    /\ sends = [r \in Run |-> 0] /\ sent = [r \in Run |-> FALSE]
    /\ row = [r \in Run |-> None]
    /\ first_active = FALSE /\ loud = {} /\ met = {}

goto(r, where) == pc' = [pc EXCEPT ![r] = where]
Running(r) == pc[r] \notin {"idle", "done"}

\* r starts: it overlaps the runs under way.
starts(r, how, where) ==
    /\ pc[r] = "idle" /\ goto(r, where)
    /\ origin' = [origin EXCEPT ![r] = how] /\ born' = [born EXCEPT ![r] = day]
    /\ met' = met \cup {{r, s} : s \in {q \in Run : Running(q)}}

midnight ==
    /\ day < MaxDay /\ day' = day + 1
    /\ UNCHANGED <<digest, queued, pc, origin, born, sends, sent, row, first_active, loud, met>>

-----------------------------------------------------------------------------
(***************************************************************************)
(* Entry points                                                            *)
(***************************************************************************)

\* Mutant of due: the fan-out does not look at the day's row.
due_always == TRUE

\* The skips before a scheduled run: a pending trial decision, the cadence and the
\* cost cap may skip any day; the row of the day always does.
due == digest[day] = None

\* run_digests_for_all, one user of it; POST /digest/run may run it at the same time.
scheduled(r) ==
    /\ due /\ starts(r, "scheduled", "start")
    /\ UNCHANGED <<day, digest, queued, sends, sent, row, first_active, loud>>

\* digest_run: force=True.
digest_run(r) ==
    /\ starts(r, "forced", "start")
    /\ UNCHANGED <<day, digest, queued, sends, sent, row, first_active, loud>>

\* digest_first reads the latest digest, which is the one of today, and the positions.
digest_first(r) ==
    /\ digest[day] = None /\ starts(r, "first", "f_check")
    /\ UNCHANGED <<day, digest, queued, sends, sent, row, first_active, loud>>

\* The rest of digest_first, without an await: "running" is the answer of a second one.
claim_first(r) ==
    /\ pc[r] = "f_check"
    /\ goto(r, IF first_active THEN "done" ELSE "start") /\ first_active' = TRUE
    /\ UNCHANGED <<day, digest, queued, origin, born, sends, sent, row, loud, met>>

\* drive's finally.
releases(r) == first_active' = (first_active /\ origin[r] # "first")

-----------------------------------------------------------------------------
(***************************************************************************)
(* The pipeline                                                            *)
(***************************************************************************)

\* create_run; it is not in the try.
create_run(r) ==
    /\ pc[r] = "start"
    /\ \/ goto(r, "work") /\ row' = [row EXCEPT ![r] = "running"]
          /\ UNCHANGED <<first_active, loud>>
       \/ goto(r, "done") /\ releases(r) /\ loud' = loud \cup {r} /\ UNCHANGED row
    /\ UNCHANGED <<day, digest, queued, origin, born, sends, sent, met>>

\* Market context, plan, news, scaffold and investigations.
investigate(r) ==
    /\ pc[r] = "work" /\ (goto(r, "synth") \/ goto(r, "fallback"))
    /\ UNCHANGED <<day, digest, queued, origin, born, sends, sent, row, first_active, loud, met>>

\* send_digest of a well-formed body stores the digest of what is now today: another
\* block of the turn, the retry of safe_dispatch, or another turn of the model.  A
\* malformed body, or a failing upsert, is a step that changes nothing here.
send_digest(r) ==
    /\ pc[r] = "synth" /\ sends[r] < MaxSends /\ goto(r, "stored")
    /\ digest' = [digest EXCEPT ![day] = [run |-> r, body |-> "good"]]
    /\ sends' = [sends EXCEPT ![r] = @ + 1]
    /\ UNCHANGED <<day, queued, origin, born, sent, row, first_active, loud, met>>

enqueue(r, body) == queued' = [queued EXCEPT ![r] = @ \cup {[day |-> day, body |-> body]}]

\* enqueue_outbound; the call returns, or has timed out, or fails.
send_digest_queues(r) ==
    /\ pc[r] = "stored" /\ goto(r, "synth")
    /\ \/ enqueue(r, "good") /\ (sent' = [sent EXCEPT ![r] = TRUE] \/ UNCHANGED sent)
       \/ UNCHANGED <<queued, sent>>
    /\ UNCHANGED <<day, digest, origin, born, sends, row, first_active, loud, met>>

\* Mutant of synthesized: a turn without a send_digest that worked ends the stage.
synthesized_unsent(r) ==
    /\ pc[r] = "synth" /\ goto(r, "finish")
    /\ UNCHANGED <<day, digest, queued, origin, born, sends, sent, row, first_active, loud, met>>

\* The turn in which a call returned ends the stage; without one its budget runs out.
synthesized(r) ==
    /\ pc[r] = "synth" /\ goto(r, IF sent[r] THEN "finish" ELSE "fallback")
    /\ UNCHANGED <<day, digest, queued, origin, born, sends, sent, row, first_active, loud, met>>

\* finalize_run("completed"), inside the try.
finalize_completed(r) ==
    /\ pc[r] = "finish"
    /\ \/ goto(r, "done") /\ row' = [row EXCEPT ![r] = "completed"] /\ releases(r)
       \/ goto(r, "fallback") /\ UNCHANGED <<row, first_active>>
    /\ UNCHANGED <<day, digest, queued, origin, born, sends, sent, loud, met>>

\* _deliver_fallback: both of its writes are best-effort.
fallback_stores(r) ==
    /\ pc[r] = "fallback"
    /\ \/ /\ goto(r, "fallback_queue")
          /\ digest' = [digest EXCEPT ![day] = [run |-> r, body |-> "fallback"]]
          /\ UNCHANGED loud
       \/ goto(r, "fail") /\ loud' = loud \cup {r} /\ UNCHANGED digest
    /\ UNCHANGED <<day, queued, origin, born, sends, sent, row, first_active, met>>

fallback_queues(r) ==
    /\ pc[r] = "fallback_queue" /\ goto(r, "fail")
    /\ \/ enqueue(r, "fallback") /\ UNCHANGED loud
       \/ loud' = loud \cup {r} /\ UNCHANGED queued
    /\ UNCHANGED <<day, digest, origin, born, sends, sent, row, first_active, met>>

\* finalize_run("error"): if it raises, the row stays "running".
finalize_error(r) ==
    /\ pc[r] = "fail" /\ goto(r, "done") /\ releases(r)
    /\ row' = [row EXCEPT ![r] = "error"] \/ UNCHANGED row
    /\ UNCHANGED <<day, digest, queued, origin, born, sends, sent, loud, met>>

\* The process stops: its runs end where they are.
restart ==
    LET cut == {r \in Run : Running(r)} IN
    /\ cut # {} /\ first_active' = FALSE
    /\ pc' = [r \in Run |-> IF r \in cut THEN "done" ELSE pc[r]]
    /\ loud' = loud \cup cut
    /\ UNCHANGED <<day, digest, queued, origin, born, sends, sent, row, met>>

pipeline(r) ==
    \/ create_run(r) \/ investigate(r)
    \/ send_digest(r) \/ send_digest_queues(r) \/ synthesized(r) \/ finalize_completed(r)
    \/ fallback_stores(r) \/ fallback_queues(r) \/ finalize_error(r)

Next == midnight \/ restart \/ \E r \in Run :
    scheduled(r) \/ digest_run(r) \/ digest_first(r) \/ claim_first(r) \/ pipeline(r)

Spec == Init /\ [][Next]_vars

-----------------------------------------------------------------------------
(***************************************************************************)
(* Properties                                                              *)
(***************************************************************************)

\* "On any failure the user still receives a fallback digest": a run whose row says
\* it completed queued its digest, and one that failed queued the fallback or had a
\* good one out already; only a failing fallback or a restart is silent.
NoSilentFailure ==
    \A r \in Run :
        /\ row[r] = "completed" => \E m \in queued[r] : m.body = "good"
        /\ pc[r] = "done" /\ row[r] \notin {"completed", None} => queued[r] # {} \/ r \in loud

\* "(user_id, digest_date) idempotency" of the fan-out: two of its runs message the
\* user about one day only if they ran at the same time, or past midnight.
OneDigestPerDay ==
    \A r, s \in Run :
        r # s /\ origin[r] = "scheduled" /\ origin[s] = "scheduled" =>
            \/ {r, s} \in met
            \/ ~\E m \in queued[r], n \in queued[s] : m.day = n.day /\ {m.day} = {born[r], born[s]}

\* Two first briefings never run at once: the second answers "running".
OneFirstBriefing ==
    \A r, s \in Run :
        r # s /\ origin[r] = "first" /\ origin[s] = "first" =>
            ~({pc[r], pc[s]} \cap {"idle", "done", "f_check"} = {})

\* One message a morning, one first briefing at a time.
NoDoubleDigest == OneDigestPerDay /\ OneFirstBriefing

\* "A no-op once any digest exists, so it can't be farmed for free runs."
FirstIsNoOp ==
    [][\A r \in Run : origin[r] = "first" /\ pc[r] = "f_check" /\ pc'[r] = "start"
                      => \A d \in Day : digest[d] = None]_vars
=============================================================================
