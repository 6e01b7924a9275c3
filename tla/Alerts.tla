-------------------------------- MODULE Alerts --------------------------------
(***************************************************************************)
(* One user's macro and price alerts.  A scan comes from the fan-out, from *)
(* a route or from a second process of a deployment, so that scans         *)
(* overlap.  The global part of a scan writes nothing an alert depends on; *)
(* of the rest, what happens between two awaits that matter is a step.     *)
(***************************************************************************)
EXTENDS Naturals, FiniteSets

CONSTANTS
    Scan,         \* scans, each used once: a bound
    Event,        \* fingerprints of the events the macro specialists may find
    Ticker,
    MaxDay,       \* a bound
    Cooldown,     \* anomaly_cooldown_days
    None

AlertsAssumption == {MaxDay, Cooldown} \subseteq Nat

VARIABLES
    day,
    stored,       \* rows of alerts
    delivered,    \* those with delivered = TRUE
    queued,       \* times an alert was handed to enqueue_outbound
    pc, todo,     \* per scan: its place, the alerts it still has to deliver
    now,          \* the alert it has stored and not yet marked
    hit,          \* a price scan's hit_tickers
    stored_by,    \* the scan that stored an alert (history)
    lost,         \* alerts whose scan raised or stopped before their enqueue (history)
    met           \* pairs of scans that overlapped (history)

vars == <<day, stored, delivered, queued, pc, now, todo, hit, stored_by, lost, met>>
row == <<stored, delivered, queued, stored_by, lost>>

Day == 1 .. MaxDay
\* build_fingerprint has the day of the scan; that of a macro alert only the event.
Price == [day : Day, tickers : SUBSET Ticker \ {{}}]
Alert == [event : Event] \cup Price
Place == {"idle", "synthesis", "cooldown", "narration", "deliver", "enqueue", "mark", "done"}

TypeOK ==
    /\ day \in Day
    /\ delivered \subseteq stored /\ stored \subseteq Alert /\ lost \subseteq stored
    /\ queued \in [Alert -> 0 .. Cardinality(Scan)]
    /\ pc \in [Scan -> Place] /\ todo \in [Scan -> SUBSET Alert]
    /\ hit \in [Scan -> SUBSET Ticker]
    /\ stored_by \in [Alert -> Scan \cup {None}] /\ now \in [Scan -> Alert \cup {None}]
    /\ met \subseteq SUBSET Scan

Init ==
    /\ day = 1 /\ stored = {} /\ delivered = {} /\ queued = [a \in Alert |-> 0]
    /\ pc = [s \in Scan |-> "idle"] /\ todo = [s \in Scan |-> {}]
    /\ hit = [s \in Scan |-> {}] /\ now = [s \in Scan |-> None]
    /\ stored_by = [a \in Alert |-> None] /\ lost = {} /\ met = {}

goto(s, where) == pc' = [pc EXCEPT ![s] = where]
Running(s) == pc[s] \notin {"idle", "done"}

starts(s, where) ==
    /\ pc[s] = "idle" /\ goto(s, where)
    /\ met' = met \cup {{s, r} : r \in {q \in Scan : Running(q)}}
    /\ UNCHANGED <<day, row, now, todo>>

-----------------------------------------------------------------------------
(***************************************************************************)
(* What to alert about                                                     *)
(***************************************************************************)

\* run_macro_scan, or the turn of the user in run_macro_scans_for_all.
run_macro_scan(s) == starts(s, "synthesis") /\ UNCHANGED hit

\* synthesize_for_user: the model picks events; a failure ends the scan.
synthesize_for_user(s) ==
    /\ pc[s] = "synthesis"
    /\ \/ \E events \in SUBSET [event : Event] :
              todo' = [todo EXCEPT ![s] = events] /\ goto(s, "deliver")
       \/ goto(s, "done") /\ UNCHANGED todo
    /\ UNCHANGED <<day, row, now, hit, met>>

\* run_anomaly_scan, or the turn of the user in run_anomaly_scans_for_all: the
\* flagged tickers the user holds or watches.
run_anomaly_scan(s) ==
    /\ starts(s, "cooldown")
    /\ \E tickers \in SUBSET Ticker \ {{}} : hit' = [hit EXCEPT ![s] = tickers]

\* Mutant of cooled: the cooldown ends with the day.
cooled_today(edge) == UNION {a.tickers : a \in {b \in stored \cap Price : b.day = day}}

\* The tickers of recent price alerts.  Whether one from exactly Cooldown days ago
\* still counts depends on the hour.
cooled(edge) ==
    UNION {a.tickers : a \in {b \in stored \cap Price :
        day - b.day < Cooldown \/ (edge /\ day - b.day = Cooldown)}}

\* The cooldown filter, and the user's own severity floor, which drops tickers too.
cooldown_filter(s) ==
    /\ pc[s] = "cooldown"
    /\ \E edge \in BOOLEAN : \E kept \in SUBSET (hit[s] \ cooled(edge)) :
           /\ hit' = [hit EXCEPT ![s] = kept]
           /\ goto(s, IF kept = {} THEN "done" ELSE "narration")
    /\ UNCHANGED <<day, row, now, todo, met>>

\* One alert for all tickers, whether the narration came or not.
narrate(s) ==
    /\ pc[s] = "narration"
    /\ \/ /\ todo' = [todo EXCEPT ![s] = {[day |-> day, tickers |-> hit[s]]}]
          /\ goto(s, "deliver")
       \/ goto(s, "done") /\ UNCHANGED todo
    /\ UNCHANGED <<day, row, now, hit, met>>

-----------------------------------------------------------------------------
(***************************************************************************)
(* Delivery: _deliver_alerts, and its copy for price alerts                *)
(***************************************************************************)

\* create_alert_if_new: the unique constraint decides, even between two scans.
is_new(a) == a \notin stored

\* The alerts of a scan come in some order; a row that fails to be written ends it.
create_alert_if_new(s, a) ==
    /\ pc[s] = "deliver" /\ a \in todo[s]
    /\ \/ /\ is_new(a) /\ goto(s, "enqueue")
          /\ stored' = stored \cup {a} /\ now' = [now EXCEPT ![s] = a]
          /\ stored_by' = [stored_by EXCEPT ![a] = s]
          /\ todo' = [todo EXCEPT ![s] = @ \ {a}]
       \/ /\ ~is_new(a) /\ todo' = [todo EXCEPT ![s] = @ \ {a}]
          /\ UNCHANGED <<pc, stored, now, stored_by>>
       \/ goto(s, "done") /\ UNCHANGED <<todo, stored, now, stored_by>>
    /\ UNCHANGED <<day, delivered, queued, hit, lost, met>>

\* enqueue_outbound; if it raises, the except of the scan skips the rest.
enqueue_outbound(s) ==
    /\ pc[s] = "enqueue"
    /\ \/ goto(s, "mark") /\ queued' = [queued EXCEPT ![now[s]] = @ + 1] /\ UNCHANGED lost
       \/ goto(s, "done") /\ lost' = lost \cup {now[s]} /\ UNCHANGED queued
    /\ UNCHANGED <<day, stored, delivered, now, todo, hit, stored_by, met>>

mark_alert_delivered(s) ==
    /\ pc[s] = "mark"
    /\ \/ goto(s, "deliver") /\ delivered' = delivered \cup {now[s]}
       \/ goto(s, "done") /\ UNCHANGED delivered
    /\ UNCHANGED <<day, stored, queued, now, todo, hit, stored_by, lost, met>>

\* finalize_run; it does not matter here whether it fails.
finalize_run(s) ==
    /\ pc[s] = "deliver" /\ todo[s] = {} /\ goto(s, "done")
    /\ UNCHANGED <<day, row, now, todo, hit, met>>

-----------------------------------------------------------------------------
midnight == day < MaxDay /\ day' = day + 1 /\ UNCHANGED <<row, pc, now, todo, hit, met>>

\* A process stops, and with it a scan.
restart(s) ==
    /\ Running(s) /\ goto(s, "done")
    /\ lost' = IF pc[s] = "enqueue" THEN lost \cup {now[s]} ELSE lost
    /\ UNCHANGED <<day, stored, delivered, queued, stored_by, now, todo, hit, met>>

scan(s) ==
    \/ synthesize_for_user(s) \/ cooldown_filter(s) \/ narrate(s)
    \/ \E a \in Alert : create_alert_if_new(s, a)
    \/ enqueue_outbound(s) \/ mark_alert_delivered(s) \/ finalize_run(s)

Next ==
    \/ \E s \in Scan : run_macro_scan(s) \/ run_anomaly_scan(s) \/ scan(s) \/ restart(s)
    \/ midnight

Spec == Init /\ [][Next]_vars

-----------------------------------------------------------------------------
(***************************************************************************)
(* Properties                                                              *)
(***************************************************************************)

\* "Dedup by fingerprint": whatever overlaps, an alert is queued at most once, it is
\* marked as delivered only if it was, and one that was stored is queued, is about to
\* be, or fell to a failure between the two writes, which no later scan repairs.
AlertedOnce ==
    \A a \in stored :
        LET begun == \E s \in Scan : pc[s] = "enqueue" /\ now[s] = a IN
        /\ queued[a] = IF begun \/ a \in lost THEN 0 ELSE 1
        /\ a \in delivered => queued[a] = 1

\* "A ticker that appeared in a recent price_anomaly alert stays quiet": two price
\* alerts within the cooldown share a ticker only if their scans overlapped.
CooldownHeld ==
    \A a, b \in stored \cap Price :
        \/ a = b \/ a.tickers \cap b.tickers = {}
        \/ a.day - b.day >= Cooldown \/ b.day - a.day >= Cooldown
        \/ {stored_by[a], stored_by[b]} \in met

\* No event and no ticker is announced twice.
AlertsOnce == AlertedOnce /\ CooldownHeld
=============================================================================
