------------------------------ MODULE Forecasts ------------------------------
(***************************************************************************)
(* The forecast ledger: the nightly job (and the backfill script, which    *)
(* runs the same code over a longer window) that enters the claims the     *)
(* pipelines published and settles those whose horizon has elapsed.  A     *)
(* document holds one claim.                                               *)
(***************************************************************************)
EXTENDS Integers, FiniteSets

CONSTANTS
    Claim,
    Prose,          \* the claims of digests and of deep-dive texts, which a model extracts
    FirstDay, MaxDay,   \* bounds: the days of the model, counted from a Monday
    Lookback,       \* EXTRACT_LOOKBACK_DAYS
    Horizon,
    None

\* Three days of lookback are those from a Friday to the next run, on Monday.
ForecastsAssumption ==
    /\ {FirstDay, MaxDay, Lookback, Horizon} \subseteq Nat
    /\ FirstDay <= MaxDay /\ Lookback >= 3 /\ Prose \subseteq Claim
    /\ None \notin Int \cup [status : {"open", "expired"}]
                 \cup [status : {"resolved"}, entry : Int, exit : Int, on : Int]

VARIABLES
    day,
    bench,          \* the day of the benchmark's latest bar
    bars,           \* the day of the latest bar of the claims' ticker
    published,      \* published[c]: the day its document was stored
    unscored,       \* the claims of a type that prices cannot settle
    ledger,         \* ledger[c]: its row, with the bars its outcome was computed from
    pc,             \* per job: its place
    rows,           \* the claims it extracted
    due,            \* the open rows it listed and still has to look at
    ran,            \* the nightly job ran today (history)
    lacking,        \* lacking[c]: the weekday whose run was missed, failed or left the
                    \* document of c out; Day from the second on (history)
    offered,        \* claims of the days before a nightly insert that took them (history)
    raced           \* both jobs were settling rows (history)

vars == <<day, bench, bars, published, unscored, ledger, pc, rows, due, ran, lacking, offered, raced>>
job == <<pc, rows, due>>
history == <<lacking, offered, raced>>

Job == {"nightly", "backfill"}
Day == FirstDay .. MaxDay
Weekday(d) == d % 7 < 5

\* The last trading day up to d.
TradingDay(d) == CHOOSE t \in {d - 2, d - 1, d} :
    Weekday(t) /\ \A u \in {d - 2, d - 1, d} : Weekday(u) => u <= t

BarDay == FirstDay - 4 .. MaxDay
Row == [status : {"open", "expired"}]
       \cup [status : {"resolved"}, entry : BarDay, exit : BarDay, on : Day]

TypeOK ==
    /\ day \in Day /\ bench \in BarDay
    /\ bars \in BarDay
    /\ published \in [Claim -> Day \cup {None}]
    /\ unscored \subseteq Claim
    /\ ledger \in [Claim -> Row \cup {None}]
    /\ pc \in [Job -> {"idle", "insert", "list", "resolve"}]
    /\ rows \in [Job -> SUBSET Claim] /\ due \in [Job -> SUBSET Claim]
    /\ ran \in BOOLEAN /\ lacking \in [Claim -> SUBSET Day] /\ offered \subseteq Claim /\ raced \in BOOLEAN

Init ==
    /\ day = FirstDay /\ bench = TradingDay(day - 1) /\ bars = bench
    /\ published = [c \in Claim |-> None] /\ unscored = {} /\ ledger = [c \in Claim |-> None]
    /\ pc = [j \in Job |-> "idle"]
    /\ rows = [j \in Job |-> {}] /\ due = [j \in Job |-> {}]
    /\ ran = FALSE /\ lacking = [c \in Claim |-> {}] /\ offered = {} /\ raced = FALSE

-----------------------------------------------------------------------------
(***************************************************************************)
(* Around the ledger                                                       *)
(***************************************************************************)

\* Tonight does not take the claims of S.
miss(S) == lacking' = [c \in Claim |->
    IF c \notin S THEN lacking[c] ELSE IF lacking[c] \subseteq {day} THEN {day} ELSE Day]

\* A job keeps the date it starts with; it is over by midnight.
midnight ==
    /\ day < MaxDay /\ day' = day + 1 /\ ran' = FALSE
    /\ \A j \in Job : pc[j] = "idle"
    /\ IF Weekday(day) /\ ~ran THEN miss(Claim) ELSE UNCHANGED lacking
    /\ UNCHANGED <<bench, bars, published, unscored, ledger, job, offered, raced>>

\* A picks run, a deep dive, a digest or an alert.
publish(c) ==
    /\ published[c] = None /\ published' = [published EXCEPT ![c] = day]
    /\ unscored' \in {unscored, unscored \cup {c}}
    /\ UNCHANGED <<day, bench, bars, ledger, job, ran, history>>

\* daily_prices_sync, which may miss the ticker or stay out altogether.
prices_sync ==
    /\ bench' = TradingDay(day)
    /\ bars' \in {bars, bench'}
    /\ UNCHANGED <<day, published, unscored, ledger, job, ran, history>>

-----------------------------------------------------------------------------
(***************************************************************************)
(* run_forecast_ledger                                                     *)
(***************************************************************************)
goto(j, where) == pc' = [pc EXCEPT ![j] = where]

\* Mutant of window: the day the lookback starts with is left out.
window_short(j) == {c \in Claim : published[c] # None /\
    (j = "nightly" => published[c] > day - Lookback)}

\* What was published since the lookback's first midnight; the script goes back months.
window(j) == {c \in Claim : published[c] # None /\
    (j = "nightly" => published[c] >= day - Lookback)}

\* The nightly job starts in the evening of weekdays, the script at any time.  Without a
\* client, beyond EXTRACT_MAX_COST_USD, when its call raises or when its answer has no
\* claim that passes, a document is left out, and the job goes on as if nothing happened.
extract(j) ==
    /\ pc[j] = "idle" /\ goto(j, "insert")
    /\ j = "nightly" => Weekday(day) /\ ~ran
    /\ \E left \in SUBSET Prose :
           /\ rows' = [rows EXCEPT ![j] = window(j) \ left]
           /\ IF j = "nightly" THEN miss(window(j) \cap left) ELSE UNCHANGED lacking
    /\ ran' = (ran \/ j = "nightly")
    /\ UNCHANGED <<day, bench, bars, published, unscored, ledger, due, offered, raced>>

\* insert_forecasts_if_new: a row whose claim_key is there is left alone.
insert_forecasts_if_new(j) ==
    /\ pc[j] = "insert" /\ goto(j, "list")
    /\ ledger' = [c \in Claim |->
           IF c \in rows[j] /\ ledger[c] = None THEN [status |-> "open"] ELSE ledger[c]]
    /\ offered' = offered \cup {c \in Claim :
           j = "nightly" /\ published[c] \in FirstDay .. day - 1 /\ day \notin lacking[c]}
    /\ UNCHANGED <<day, bench, bars, published, unscored, rows, due, ran, lacking, raced>>

elapsed(c) == published[c] + Horizon <= day

\* Open rows whose due date has come.
sweep == {c \in Claim : ledger[c] = [status |-> "open"] /\ elapsed(c)}

list_due_forecasts(j) ==
    /\ pc[j] = "list" /\ goto(j, "resolve")
    /\ due' = [due EXCEPT ![j] = sweep]
    /\ raced' = (raced \/ \E i \in Job \ {j} : pc[i] = "resolve")
    /\ UNCHANGED <<day, bench, bars, published, unscored, ledger, rows, ran, lacking, offered>>

\* Mutant of measurable: the benchmark's calendar does not matter.
measurable_always(c) == TRUE

\* "A claim resolves only once fully elapsed against the benchmark calendar."
measurable(c) == bench >= published[c] + Horizon

earlier(a, b) == IF a < b THEN a ELSE b

\* forecastscore.resolve_forecast: from the last bar before the claim to the last one
\* up to its due date.
outcome(c) ==
    [status |-> "resolved", entry |-> earlier(bars, TradingDay(published[c] - 1)),
     exit |-> earlier(bars, TradingDay(published[c] + Horizon)), on |-> day]

\* One row of the sweep.
resolve_forecast(j, c) ==
    /\ pc[j] = "resolve" /\ c \in due[j] /\ due' = [due EXCEPT ![j] = @ \ {c}]
    /\ ledger' = [ledger EXCEPT ![c] =
           IF c \in unscored THEN [status |-> "expired"]
           ELSE IF measurable(c) THEN outcome(c) ELSE @]
    /\ UNCHANGED <<day, bench, bars, published, unscored, pc, rows, ran, history>>

end(j) ==
    /\ pc[j] = "resolve" /\ due[j] = {} /\ goto(j, "idle")
    /\ rows' = [rows EXCEPT ![j] = {}]
    /\ UNCHANGED <<day, bench, bars, published, unscored, ledger, due, ran, history>>

\* A call raises, and the job ends where it is.  An unsuccessful night is a missed one.
fail(j) ==
    /\ pc[j] # "idle" /\ goto(j, "idle")
    /\ rows' = [rows EXCEPT ![j] = {}] /\ due' = [due EXCEPT ![j] = {}]
    /\ IF j = "nightly" /\ pc[j] = "insert" THEN miss(Claim) ELSE UNCHANGED lacking
    /\ UNCHANGED <<day, bench, bars, published, unscored, ledger, ran, offered, raced>>

Next ==
    \/ midnight \/ prices_sync \/ \E c \in Claim : publish(c)
    \/ \E j \in Job :
           \/ extract(j) \/ insert_forecasts_if_new(j) \/ list_due_forecasts(j)
           \/ \E c \in Claim : resolve_forecast(j, c)
           \/ end(j) \/ fail(j)

Spec == Init /\ [][Next]_vars

-----------------------------------------------------------------------------
(***************************************************************************)
(* Properties                                                              *)
(***************************************************************************)
entered == {c \in Claim : ledger[c] # None}

\* "A missed night self-heals on the next run", when the night is that of a Tuesday,
\* a Wednesday or a Thursday: what was published before a run is in the ledger after.
\* A run that leaves a document out is a missed night for its claim.
MidweekHeals ==
    \A c \in offered :
        Cardinality(lacking[c]) <= 1 /\ (\A d \in lacking[c] : d % 7 \in 1 .. 3)
            => c \in entered

\* "A missed night self-heals on the next run", whichever it is.
MissedNightHeals == \A c \in offered : Cardinality(lacking[c]) <= 1 => c \in entered

\* No hindsight, no early verdict and no second one: a row is settled once its due date
\* has come for the benchmark too, from a bar before the claim and none after the due
\* date, and stays as it is, unless two runs settled rows at once.
NoHindsight ==
    [][\A c \in Claim : ledger[c] # ledger'[c] /\ ledger'[c].status = "resolved" =>
         /\ ledger'[c].entry < published[c] /\ ledger'[c].exit <= published[c] + Horizon
         /\ bench >= published[c] + Horizon
         /\ raced \/ ledger[c] = [status |-> "open"]]_vars
=============================================================================
