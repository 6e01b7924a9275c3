-------------------------- MODULE MC_Jobs --------------------------
\* An account and the scheduled jobs that work for it, in one run.  The components share
\* no variable: a behaviour is of one of them, named by part, and the others stay in
\* their initial state.
EXTENDS Account, TLC

CONSTANTS
    Run, DigestDays, MaxSends, None, Scan, Event, Ticker, AlertDays, Cooldown, Sync,
    TrialRunDays, TrialDays, EndingSoon, FinalNudge, Grace, Field, HealthTicks,
    TicksPerDay, Interval, GraceTicks, DegradedFactor, OfflineFactor, MaxFailures,
    Claim, Prose, FirstDay, LedgerDays, Lookback, Horizon, Candidates, FinalCount, Concurrency,
    AdmissionCap, AnalystCost, MoversCost, CriticCost, OverviewCost

VARIABLES
    part,        \* the component this behaviour is of
    day, digest_digest, queued, digest_pc, origin, digest_born, sends, sent, row,
    first_active, loud, met,
    alerts_day, stored, delivered, alerts_queued, alerts_pc, todo, now, hit, stored_by,
    lost, alerts_met,
    trial_day, plan, started, ends, trial_sent, sync, job, arms, raced, settled, failed,
    scanned,
    health_now, field, handled, health_pc, last_success, failures, succeeded,
    failed_runs, blind,
    ledger_day, bench, bars, published, unscored, ledger_ledger, ledger_pc, rows, due,
    ran, lacking, offered, ledger_raced,
    stage, spent, queue, active, analysis, checks, status, payload, entries

Morning == INSTANCE Digest WITH
    MaxDay <- DigestDays, digest <- digest_digest, pc <- digest_pc, born <- digest_born
Scans == INSTANCE Alerts WITH
    MaxDay <- AlertDays, day <- alerts_day, queued <- alerts_queued, pc <- alerts_pc,
    met <- alerts_met
Offer == INSTANCE Trial WITH
    MaxDay <- TrialRunDays, day <- trial_day, sent <- trial_sent
Health == INSTANCE JobHealth WITH
    MaxTime <- HealthTicks, now <- health_now, pc <- health_pc
Ledger == INSTANCE Forecasts WITH
    MaxDay <- LedgerDays, day <- ledger_day, ledger <- ledger_ledger, pc <- ledger_pc,
    raced <- ledger_raced
Screen == INSTANCE Picks

ASSUME PartsAssumption ==
    /\ Morning!DigestAssumption
    /\ Scans!AlertsAssumption
    /\ Offer!TrialAssumption
    /\ Health!JobAssumption
    /\ Ledger!ForecastsAssumption
    /\ Screen!PicksAssumption

Parts == {"account", "digest", "alerts", "trial", "health", "ledger", "picks"}

digest_vars ==
    <<day, digest_digest, queued, digest_pc, origin, digest_born, sends, sent, row,
      first_active, loud, met>>
alerts_vars ==
    <<alerts_day, stored, delivered, alerts_queued, alerts_pc, todo, now, hit,
      stored_by, lost, alerts_met>>
trial_vars ==
    <<trial_day, plan, started, ends, trial_sent, sync, job, arms, raced, settled,
      failed, scanned>>
health_vars ==
    <<health_now, field, handled, health_pc, last_success, failures, succeeded,
      failed_runs, blind>>
ledger_vars ==
    <<ledger_day, bench, bars, published, unscored, ledger_ledger, ledger_pc, rows, due,
      ran, lacking, offered, ledger_raced>>
picks_vars ==
    <<stage, spent, queue, active, analysis, checks, status, payload, entries>>

SumInit ==
    /\ part \in Parts
    /\ Init
    /\ Morning!Init
    /\ Scans!Init
    /\ Offer!Init
    /\ Health!Init
    /\ Ledger!Init
    /\ Screen!Init
    /\ part # "trial" => plan = "free"
    /\ part # "health" => field = None

\* Bound: of the accounts only the first gets rows that are in the way of its deletion.
BlockedFirst == blocking => users = 1

SumNext ==
    /\ UNCHANGED part
    /\ \/ /\ part = "account" /\ Next /\ BlockedFirst'
          /\ UNCHANGED <<digest_vars, alerts_vars, trial_vars, health_vars, ledger_vars,
                         picks_vars>>
       \/ /\ part = "digest" /\ Morning!Next
          /\ UNCHANGED <<vars, alerts_vars, trial_vars, health_vars, ledger_vars,
                         picks_vars>>
       \/ /\ part = "alerts" /\ Scans!Next
          /\ UNCHANGED <<vars, digest_vars, trial_vars, health_vars, ledger_vars,
                         picks_vars>>
       \/ /\ part = "trial" /\ Offer!Next
          /\ UNCHANGED <<vars, digest_vars, alerts_vars, health_vars, ledger_vars,
                         picks_vars>>
       \/ /\ part = "health" /\ Health!Next
          /\ UNCHANGED <<vars, digest_vars, alerts_vars, trial_vars, ledger_vars,
                         picks_vars>>
       \/ /\ part = "ledger" /\ Ledger!Next
          /\ UNCHANGED <<vars, digest_vars, alerts_vars, trial_vars, health_vars,
                         picks_vars>>
       \/ /\ part = "picks" /\ Screen!Next
          /\ UNCHANGED <<vars, digest_vars, alerts_vars, trial_vars, health_vars,
                         ledger_vars>>

all == <<part, vars, digest_vars, alerts_vars, trial_vars, health_vars, ledger_vars, picks_vars>>

SumSpec == SumInit /\ [][SumNext]_all

\* Requests are interchangeable, and so are the runs, the scans and the syncs, which have
\* the same two names in the .cfg; NoHindsight is about single steps of another part.
Symmetry == Permutations(Req)

\* The day-of-week fields of the crontabs: 1-5, 5-7, and a list with a step.
Token(a, b, s) == [lo |-> a, hi |-> b, step |-> s]
Fields == {{Token(1, 5, 1)}, {Token(5, 7, 1)}, {Token(0, 0, 1), Token(1, 6, 2)}}

-----------------------------------------------------------------------------
(***************************************************************************)
(* Properties of the instances; those of Account keep their names         *)
(***************************************************************************)

\* A failed digest is not silent, and a completed one was queued.
NoSilentFailure == part = "digest" => Morning!NoSilentFailure

\* One message a morning, one first briefing at a time, unless runs overlapped.
NoDoubleDigest == part = "digest" => Morning!NoDoubleDigest

\* No event and no ticker is announced twice.
AlertsOnce == part = "alerts" => Scans!AlertsOnce

\* The one trial of an account is armed once and stays settled, and its notices are
\* sent once, in order, and none of a lapse forgotten.
TrialRight == part = "trial" => Offer!TrialRight

\* What /health says of a job is so.
HealthIsTrue == part = "health" => Health!HealthIsTrue

\* A night missed for a claim between Tuesday and Thursday heals on the next run.
MidweekHeals == part = "ledger" => Ledger!MidweekHeals

\* A claim is settled from bars it could not have known, and not before it is due.
NoHindsight == Ledger!NoHindsight

\* What a picks run shows and spends is what its rules allow.
PicksHonest == part = "picks" => Screen!PicksHonest
=============================================================================
