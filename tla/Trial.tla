-------------------------------- MODULE Trial --------------------------------
(***************************************************************************)
(* One account's Pro trial: armed at the first successful sync, settled by *)
(* a payment or by choosing Free, and told about by the daily notices job. *)
(* Sessions write the columns they changed, so that two of them mix.       *)
(***************************************************************************)
EXTENDS Naturals, Sequences, SequencesExt

CONSTANTS
    Sync,           \* syncs that may arm the trial, each used once: a bound
    MaxDay,         \* a bound
    TrialDays,      \* trial_days
    EndingSoon,     \* ENDING_SOON_DAYS
    FinalNudge,     \* FINAL_NUDGE_DAYS
    Grace,          \* TRIAL_DECISION_GRACE_DAYS
    None

Kind == {"trial_ending", "trial_ended", "trial_final"}

TrialAssumption ==
    /\ {MaxDay, TrialDays, EndingSoon, FinalNudge, Grace} \subseteq Nat
    /\ TrialDays > 0 /\ FinalNudge < Grace
    /\ None \notin Seq(Kind)         \* no notices to queue is not the same as no job

VARIABLES
    day,
    plan,           \* users.plan
    started,        \* users.trial_started_at is set
    ends,           \* users.trial_ends_at
    sent,           \* the kinds of the notices queued, skipped rows included
    sync,           \* per sync: its place in maybe_start_trial
    job,            \* notices the job still has to queue; None: it is not running
    arms,           \* times the trial was armed (history)
    raced,          \* two armings overlapped, or an arming and a payment (history)
    settled,        \* a payment or a choice came after the arming (history)
    failed,         \* kinds whose queueing failed, or that a stop skipped (history)
    scanned         \* days on which the job saw the account as undecided (history)

user == <<plan, started, ends>>
vars == <<day, user, sent, sync, job, arms, raced, settled, failed, scanned>>

Day == 0 .. MaxDay

TypeOK ==
    /\ day \in Day
    /\ plan \in {"free", "pro"} /\ started \in BOOLEAN
    /\ ends \in 0 .. (MaxDay + TrialDays) \cup {None}
    /\ sent \in Seq(Kind) /\ Len(sent) <= 3
    /\ sync \in [Sync -> {"idle", "arm", "done"}]
    /\ job \in Seq(Kind) \cup {None}
    /\ arms \in 0 .. 2 /\ {raced, settled} \subseteq BOOLEAN
    /\ failed \subseteq Kind /\ scanned \subseteq Day

Init ==
    /\ day = 0 /\ plan \in {"free", "pro"} /\ started = FALSE /\ ends = None
    /\ sent = <<>> /\ sync = [q \in Sync |-> "idle"] /\ job = None
    /\ arms = 0 /\ raced = FALSE /\ settled = FALSE /\ failed = {} /\ scanned = {}

midnight ==
    /\ day < MaxDay /\ day' = day + 1
    /\ UNCHANGED <<user, sent, sync, job, arms, raced, settled, failed, scanned>>

-----------------------------------------------------------------------------
(***************************************************************************)
(* The trial                                                               *)
(***************************************************************************)

\* Mutant of may_start: whoever has no trial state gets one.
may_start_again == plan # "pro" /\ ends = None

may_start == plan # "pro" /\ ~started

\* maybe_start_trial, which portfolio_sync and set_manual_portfolio end with: it
\* reads the row ...
reads_user(q) ==
    /\ sync[q] = "idle"
    /\ sync' = [sync EXCEPT ![q] = IF may_start THEN "arm" ELSE "done"]
    /\ UNCHANGED <<day, user, sent, job, arms, raced, settled, failed, scanned>>

\* ... and commits both timestamps.
maybe_start_trial(q) ==
    /\ sync[q] = "arm" /\ sync' = [sync EXCEPT ![q] = "done"]
    /\ started' = TRUE /\ ends' = day + TrialDays
    /\ arms' = arms + 1
    /\ raced' = (raced \/ \E p \in Sync \ {q} : sync[p] = "arm")
    /\ UNCHANGED <<day, plan, sent, job, settled, failed, scanned>>

\* resolve_trial, of POST /billing/choose-free.
resolve_trial ==
    /\ ends' = None /\ settled' = (settled \/ ends # None)
    /\ UNCHANGED <<day, plan, started, sent, sync, job, arms, raced, failed, scanned>>

\* apply_subscription_state: paying settles any trial state, a lapse touches none.
apply_subscription_state(to) ==
    /\ plan' = to
    /\ IF to = "pro" THEN ends' = None /\ settled' = (settled \/ started)
                     ELSE UNCHANGED <<ends, settled>>
    /\ raced' = (raced \/ \E q \in Sync : sync[q] = "arm")
    /\ UNCHANGED <<day, started, sent, sync, job, arms, failed, scanned>>

-----------------------------------------------------------------------------
(***************************************************************************)
(* The notices                                                             *)
(***************************************************************************)

\* _notices_for a user whose trial ends on day e, the oldest first.
notices_for(e) ==
    CASE day < e /\ e - day <= EndingSoon                    -> <<"trial_ending">>
      [] e <= day /\ day < e + FinalNudge                    -> <<"trial_ended">>
      [] e + FinalNudge <= day /\ day < e + Grace            -> <<"trial_ended", "trial_final">>
      [] OTHER                                               -> <<>>

\* run_trial_notices lists the users with live trial state, and computes each one's
\* notices from the row it listed.  The scheduler runs one job at a time.
run_trial_notices ==
    /\ job = None /\ ends # None /\ plan # "pro"
    /\ job' = notices_for(ends)
    /\ scanned' = scanned \cup {day}
    /\ UNCHANGED <<day, user, sent, sync, arms, raced, settled, failed>>

\* has_outbound_of_kind: a row that was skipped counts.
is_due(kind) == ~Contains(sent, kind)

\* One notice: is it there already?  Else enqueue_outbound, which may fail; the next
\* one gets its turn all the same.
queue_notice ==
    /\ job # None /\ job # <<>> /\ job' = Tail(job)
    /\ \/ /\ sent' = IF is_due(Head(job)) THEN Append(sent, Head(job)) ELSE sent
          /\ UNCHANGED failed
       \/ failed' = failed \cup {Head(job)} /\ UNCHANGED sent
    /\ UNCHANGED <<day, user, sync, arms, raced, settled, scanned>>

notices_end ==
    /\ job = <<>> /\ job' = None
    /\ UNCHANGED <<day, user, sent, sync, arms, raced, settled, failed, scanned>>

\* The process stops in the middle of the job.
restart ==
    /\ job # None /\ job # <<>> /\ job' = None
    /\ failed' = failed \cup Range(job)
    /\ sync' = [q \in Sync |-> IF sync[q] = "arm" THEN "done" ELSE sync[q]]
    /\ UNCHANGED <<day, user, sent, arms, raced, settled, scanned>>

Next ==
    \/ midnight \/ restart
    \/ \E q \in Sync : reads_user(q) \/ maybe_start_trial(q)
    \/ resolve_trial \/ \E to \in {"free", "pro"} : apply_subscription_state(to)
    \/ run_trial_notices \/ queue_notice \/ notices_end

Spec == Init /\ [][Next]_vars

-----------------------------------------------------------------------------
(***************************************************************************)
(* Properties                                                              *)
(***************************************************************************)

\* "The account's one no-card Pro trial": it is armed once, and once it is settled
\* nothing of it comes back; unless a sync read the row before another sync, or a
\* payment, wrote it.
OneTrial == raced \/ (arms <= 1 /\ (settled => ends = None))

before(k, l) == \E i, j \in 1 .. Len(sent) : i < j /\ sent[i] = k /\ sent[j] = l

\* "Each notice sends at most once ever", and a lapse is announced before the last
\* chance is, unless queueing the first one failed.
NoticesOrdered ==
    /\ IsInjective(sent)
    /\ \A k \in Kind : before(k, "trial_ending") => raced
    /\ Contains(sent, "trial_final") =>
           before("trial_ended", "trial_final") \/ "trial_ended" \in failed

\* Digests never pause in silence: a trial that a scan saw lapsed and undecided has
\* its notice, unless that scan is not done or queueing failed.
LapseTold ==
    \A d \in scanned : ends # None /\ ends <= d /\ d < ends + Grace =>
        Contains(sent, "trial_ended") \/ job # None \/ "trial_ended" \in failed

\* Each notice once, in order, and none of a lapse forgotten.
NoticesRight == NoticesOrdered /\ LapseTold

\* The trial and what the user is told of it.
TrialRight == OneTrial /\ NoticesRight
=============================================================================
