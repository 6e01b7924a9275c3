------------------------------- MODULE JobHealth -------------------------------
(***************************************************************************)
(* A scheduled job with its heartbeat and the health /health derives from  *)
(* it: the scheduler that fires it, the wrapper that records each run, and *)
(* the staleness rules.  Time goes in ticks, TicksPerDay of them a day; a  *)
(* cron job fires at the first tick of its days, an interval job at every  *)
(* Interval-th tick.  Days and weekdays start at a Sunday, day 0.          *)
(***************************************************************************)
EXTENDS Integers, FiniteSets

CONSTANTS
    Field,          \* day-of-week fields: sets of tokens [lo, hi, step]
    MaxTime,        \* a bound
    TicksPerDay,
    Interval,       \* of an interval job, in ticks
    GraceTicks,     \* digest_misfire_grace_seconds
    DegradedFactor, OfflineFactor,
    MaxFailures,    \* a bound
    None

JobAssumption ==
    /\ \A f \in Field : \A k \in f : {k.lo, k.hi} \subseteq 0 .. 7 /\ k.step \in 1 .. 7
    /\ {MaxTime, TicksPerDay, Interval, GraceTicks, DegradedFactor, OfflineFactor,
        MaxFailures} \subseteq Nat \ {0}
    /\ None \notin Nat \cup Field

VARIABLES
    now,
    field,          \* the cron field of the job, None for an interval job
    handled,        \* the last fire the scheduler has dealt with
    pc,             \* of the job: "idle", "running", "ok", "failed"
    last_success, failures,     \* its row of job_heartbeats
    succeeded,      \* when a run last succeeded (history)
    failed_runs,    \* runs that failed since (history)
    blind           \* a result could not be written since (history)

vars == <<now, field, handled, pc, last_success, failures, succeeded, failed_runs, blind>>
row == <<last_success, failures>>
history == <<succeeded, failed_runs, blind>>

Time == 0 .. MaxTime

TypeOK ==
    /\ now \in Time /\ field \in Field \cup {None}
    /\ handled \in Time
    /\ pc \in {"idle", "running", "ok", "failed"}
    /\ last_success \in Time \cup {None} /\ failures \in 0 .. MaxFailures
    /\ succeeded \in Time \cup {None} /\ failed_runs \in 0 .. MaxFailures
    /\ blind \in BOOLEAN

Init ==
    /\ now = 0 /\ field \in Field \cup {None} /\ handled = 0 /\ pc = "idle"
    /\ last_success = None /\ failures = 0
    /\ succeeded = None /\ failed_runs = 0 /\ blind = FALSE

-----------------------------------------------------------------------------
(***************************************************************************)
(* The schedule                                                            *)
(***************************************************************************)

\* The numbers of a field, every step-th of a token's: of "1" only one.
numbers(f) == UNION {{d \in k.lo .. k.hi : (d - k.lo) % k.step = 0} : k \in f}

\* Mutant of translate_crontab_dow: the numbers go to APScheduler as they are.
translate_not(f) == {d % 7 : d \in numbers(f)}

\* _translate_crontab_dow: APScheduler's 0 is a Monday.
translate_crontab_dow(f) == {(d - 1) % 7 : d \in {n % 7 : n \in numbers(f)}}

weekday(t) == (t \div TicksPerDay) % 7
aps_weekday(t) == (weekday(t) + 6) % 7

\* CronTrigger with the translated field, or IntervalTrigger.
is_fire(t) ==
    /\ t > 0
    /\ IF field = None THEN t % Interval = 0
       ELSE t % TicksPerDay = 1 /\ aps_weekday(t) \in translate_crontab_dow(field)

\* What the field says in the numbering of cron, 0 and 7 both a Sunday.
is_cron_fire(t) ==
    IF field = None THEN is_fire(t)
    ELSE t % TicksPerDay = 1 /\ \E d \in numbers(field) : d % 7 = weekday(t)

\* A result is written in the tick the job ends in.
tick ==
    /\ pc \in {"idle", "running"} /\ now < MaxTime /\ now' = now + 1
    /\ UNCHANGED <<field, handled, pc, row, history>>

\* Fires not dealt with: coalesce makes them one run.
due == {t \in handled + 1 .. now : is_fire(t)}

\* heartbeat_wrapped starts, its attempt recorded or not: at once, or late by at most
\* misfire_grace_time.
start ==
    /\ pc = "idle" /\ \E t \in due : now - t <= GraceTicks
    /\ pc' = "running" /\ handled' = now
    /\ UNCHANGED <<now, field, row, history>>

\* A fire is dropped: its run would be a second instance, or too late, or the
\* process was down.
skip ==
    /\ due # {} /\ handled' = now
    /\ UNCHANGED <<now, field, pc, row, history>>

-----------------------------------------------------------------------------
(***************************************************************************)
(* heartbeat_wrapped                                                       *)
(***************************************************************************)

\* fn returns, or raises, later than it was started.
job ==
    /\ pc = "running" /\ now > handled
    /\ \/ pc' = "ok" /\ succeeded' = now /\ failed_runs' = 0
       \/ pc' = "failed" /\ failed_runs < MaxFailures /\ failed_runs' = failed_runs + 1
          /\ UNCHANGED succeeded
    /\ UNCHANGED <<now, field, handled, row, blind>>

record_job_result ==
    /\ pc \in {"ok", "failed"} /\ pc' = "idle"
    /\ IF pc = "ok" THEN last_success' = now /\ failures' = 0 /\ blind' = FALSE
       ELSE failures < MaxFailures /\ failures' = failures + 1 /\ UNCHANGED <<last_success, blind>>
    /\ UNCHANGED <<now, field, handled, succeeded, failed_runs>>

\* "Heartbeat write failures are logged and swallowed"; the process may have died too,
\* before the job was done or after.
result_lost ==
    /\ pc # "idle" /\ pc' = "idle" /\ blind' = (blind \/ pc # "running")
    /\ UNCHANGED <<now, field, handled, row, succeeded, failed_runs>>

Next == tick \/ start \/ skip \/ job \/ record_job_result \/ result_lost

Spec == Init /\ [][Next]_vars

-----------------------------------------------------------------------------
(***************************************************************************)
(* Health                                                                  *)
(***************************************************************************)

\* trigger.get_next_fire_time(None, t), which is inclusive; None beyond the horizon.
next_fire(t) ==
    LET later == {f \in t .. MaxTime : is_fire(f)} IN
    IF later = {} THEN None ELSE CHOOSE f \in later : \A g \in later : f <= g

\* cron_state counts fires one after the other, up to two.
cron_state ==
    LET deadline == now - GraceTicks
        overdue(f) == f # None /\ f <= deadline
        first  == next_fire(last_success)
        second == next_fire(first + 1)
    IN  CASE ~overdue(first)                     -> "live"
          [] overdue(first) /\ ~overdue(second)  -> "degraded"
          [] overdue(first) /\ overdue(second)   -> "offline"

interval_state ==
    LET age == now - last_success IN
    CASE age > Interval * OfflineFactor  -> "offline"
      [] age > Interval * DegradedFactor /\ age <= Interval * OfflineFactor -> "degraded"
      [] OTHER -> "live"

\* job_health of an enabled job; three failures in a row degrade what looks alive.
job_health ==
    LET state == IF last_success = None THEN "unknown"
                 ELSE IF field = None THEN interval_state ELSE cron_state
    IN  IF state = "live" /\ failures >= 3 THEN "degraded" ELSE state

-----------------------------------------------------------------------------
(***************************************************************************)
(* Properties                                                              *)
(***************************************************************************)

\* The fires, in the numbering of cron, that have come and gone since the last success.
missed == {t \in 1 .. now - GraceTicks :
               is_cron_fire(t) /\ succeeded # None /\ succeeded <= t}

\* "live" is never a lie: the job did succeed after the last fire that is older than
\* the grace, or within the intervals an interval job may miss, and it is not failing.
LiveIsTrue ==
    job_health = "live" =>
        /\ succeeded # None
        /\ IF field = None THEN now - succeeded <= Interval * DegradedFactor ELSE missed = {}
        /\ failed_runs < 3 \/ blind \/ pc = "failed"

\* No false alarm: a cron job is offline only if two fires went by since its last
\* success, or that success could not be written.
AlarmIsTrue ==
    field # None /\ job_health = "offline" =>
        Cardinality(missed) >= 2 \/ blind \/ pc = "ok"

\* What /health says of a job is so.
HealthIsTrue == LiveIsTrue /\ AlarmIsTrue
=============================================================================
