------------------------------- MODULE Outbox -------------------------------
(***************************************************************************)
(* The outbound message queue: rows of `outbound_messages`, filled by      *)
(* Repo.enqueue_outbound and drained by Dispatcher.tick (one tick at a     *)
(* time in each process).  A worker is one process's delivery job; an      *)
(* await in tick is a boundary between two actions, so anything may happen *)
(* between the claim of a batch, each provider call and each recorded      *)
(* result.                                                                 *)
(***************************************************************************)
EXTENDS Integers, Sequences, FiniteSets

CONSTANTS
    Msg,            \* row ids, numbered in created_at order
    User,
    Worker,         \* processes that run the delivery job
    Channel,        \* values of outbound_messages.channel
    CHANNELS,       \* the channels claim_due_outbound selects
    Adapters,       \* the channels with a registered adapter
    Dest,           \* destinations (addresses, device tokens)
    None,           \* the NULL channel and destination
    BatchSize,      \* rows one tick claims at most
    MaxAttempts,    \* delivery_max_attempts
    Lease,          \* lease_seconds, in units of the clock
    BACKOFF_SECONDS,\* retry delays, in units of the clock
    MaxAborts,      \* bound: crashes and failed result writes in a behaviour
    LeaseHolds      \* whether every tick finishes within its lease

ASSUME MsgAssumption == Msg \subseteq Nat /\ None \notin Msg
ASSUME ChannelAssumption == CHANNELS \subseteq Channel /\ "push" \in Channel
ASSUME BoundsAssumption ==
    /\ BatchSize \in Nat \ {0}
    /\ MaxAttempts \in Nat \ {0}
    /\ Lease \in Nat \ {0}
    /\ MaxAborts \in Nat
    /\ LeaseHolds \in BOOLEAN
ASSUME BackoffAssumption ==
    BACKOFF_SECONDS \in Seq(Nat \ {0}) /\ Len(BACKOFF_SECONDS) > 0

VARIABLES
    row,       \* the outbound_messages table
    batch,     \* batch[w]: rows claimed by the running tick and not yet handled
    seen,      \* seen[w][m]: attempts of a batch row as read at the claim
    sending,   \* sending[w]: the row whose adapter.send has been called, or None
    outcome,   \* outcome[w]: what that call returned
    hist,      \* history of provider calls per row (not in the code)
    aborts     \* number of aborted ticks so far (bounded by MaxAborts)

vars == <<row, batch, seen, sending, outcome, hist, aborts>>

Status == {"absent", "queued", "sent", "failed", "skipped", "gone"}
Settled == {"sent", "failed", "skipped"}
Outcome == {"ok", "transient", "permanent"}

Row == [status: Status, user: User \cup {None}, channel: Channel \cup {None},
        dest: Dest \cup {None}, attempts: Nat, wait: Nat]

\* tries: calls of adapter.send; accepted: messages the provider took;
\* aborted: calls whose result was never recorded; ambiguous: calls that
\* failed although the provider took the message.
Hist == [tries: Nat, accepted: Nat, aborted: Nat, ambiguous: Nat]

TypeOK ==
    /\ row \in [Msg -> Row]
    /\ batch \in [Worker -> SUBSET Msg]
    /\ seen \in [Worker -> [Msg -> Nat]]
    /\ sending \in [Worker -> Msg \cup {None}]
    /\ outcome \in [Worker -> Outcome \cup {None}]
    /\ hist \in [Msg -> Hist]
    /\ aborts \in 0..MaxAborts

-----------------------------------------------------------------------------
NoRow == [status |-> "absent", user |-> None, channel |-> None, dest |-> None,
          attempts |-> 0, wait |-> 0]

Init ==
    /\ row = [m \in Msg |-> NoRow]
    /\ batch = [w \in Worker |-> {}]
    /\ seen = [w \in Worker |-> [m \in Msg |-> 0]]
    /\ sending = [w \in Worker |-> None]
    /\ outcome = [w \in Worker |-> None]
    /\ hist = [m \in Msg |->
                 [tries |-> 0, accepted |-> 0, aborted |-> 0, ambiguous |-> 0]]
    /\ aborts = 0

Absent == {m \in Msg : row[m].status = "absent"}

NewRow(u, status, channel, dest) ==
    [status |-> status, user |-> u, channel |-> channel, dest |-> dest,
     attempts |-> 0, wait |-> 0]

(***************************************************************************)
(* Repo.enqueue_outbound: one transaction writes the preferred-channel row *)
(* (`primary`, queued or skipped) and one push row per registered device.  *)
(* `push` maps the fan-out's row ids to device tokens.  Ids are taken in   *)
(* created_at order.                                                       *)
(***************************************************************************)
enqueue_outbound(u, primary, first, push) ==
    LET fresh == {first} \cup DOMAIN push
    IN /\ fresh \subseteq Absent
       /\ \A m \in fresh, n \in Absent \ fresh : m < n
       /\ \A m \in DOMAIN push : first < m
       /\ row' = [m \in Msg |->
                    CASE m = first -> primary
                      [] m \in DOMAIN push -> NewRow(u, "queued", "push", push[m])
                      [] OTHER -> row[m]]
       /\ UNCHANGED <<batch, seen, sending, outcome, hist, aborts>>

\* What the preferred-channel resolution may return for user u.
Resolution(u) ==
    {NewRow(u, "skipped", None, None)}
    \cup {NewRow(u, "queued", c, d) : c \in Channel \ {"push"}, d \in Dest}

Injections(S, T) == {f \in [S -> T] : \A x, y \in S : f[x] = f[y] => x = y}

Enqueue ==
    \E u \in User, first \in Absent, S \in SUBSET Absent :
       /\ first \notin S
       /\ \E primary \in Resolution(u), push \in Injections(S, Dest) :
             enqueue_outbound(u, primary, first, push)

-----------------------------------------------------------------------------
\* Mutants of Due: settled rows are claimed again; a failed row never is.
Due_resend == {m \in Msg : /\ row[m].status \in {"queued", "sent"}
                           /\ row[m].channel \in CHANNELS
                           /\ row[m].wait = 0}
Due_untried == {m \in Msg : /\ row[m].status = "queued" /\ row[m].attempts = 0
                            /\ row[m].channel \in CHANNELS
                            /\ row[m].wait = 0}

Due == {m \in Msg : /\ row[m].status = "queued"
                    /\ row[m].channel \in CHANNELS
                    /\ row[m].wait = 0}

\* ORDER BY created_at LIMIT BatchSize over the due rows.
Oldest(S) == {T \in SUBSET S :
                /\ Cardinality(T) <= BatchSize
                /\ T = S \/ Cardinality(T) = BatchSize
                /\ \A m \in T, n \in S \ T : m < n}

Idle(w) == batch[w] = {}

\* Mutant of claim_due_outbound: the claim takes no lease.
claim_unleased(w) ==
    /\ Idle(w)
    /\ \E claimed \in Oldest(Due) :
          /\ batch' = [batch EXCEPT ![w] = claimed]
          /\ seen' = [seen EXCEPT ![w] =
                        [m \in Msg |-> IF m \in claimed THEN row[m].attempts ELSE 0]]
    /\ UNCHANGED <<row, sending, outcome, hist, aborts>>

\* Repo.claim_due_outbound: lease the oldest due rows; the snapshot tick
\* iterates over keeps the attempts as they were at the claim.
claim_due_outbound(w) ==
    /\ Idle(w)
    /\ \E claimed \in Oldest(Due) :
          /\ row' = [m \in Msg |->
                       IF m \in claimed THEN [row[m] EXCEPT !.wait = Lease]
                       ELSE row[m]]
          /\ batch' = [batch EXCEPT ![w] = claimed]
          /\ seen' = [seen EXCEPT ![w] =
                        [m \in Msg |-> IF m \in claimed THEN row[m].attempts ELSE 0]]
    /\ UNCHANGED <<sending, outcome, hist, aborts>>

\* The row the loop of tick is at: the oldest claimed one.
Next_in(w, m) == m \in batch[w] /\ \A n \in batch[w] : m <= n

\* adapter.send returned r (an exception counts as transient); `accepted`
\* says whether the provider took the message.
send(w, r, accepted) ==
    /\ sending[w] = None
    /\ r = "ok" => accepted
    /\ r = "permanent" => ~accepted
    /\ \E m \in Msg :
          /\ Next_in(w, m)
          /\ row[m].channel \in Adapters
          /\ sending' = [sending EXCEPT ![w] = m]
          /\ outcome' = [outcome EXCEPT ![w] = r]
          /\ hist' = [hist EXCEPT
                        ![m].tries = @ + 1,
                        ![m].accepted = IF accepted THEN @ + 1 ELSE @,
                        ![m].ambiguous = IF accepted /\ r # "ok" THEN @ + 1 ELSE @]
    /\ UNCHANGED <<row, batch, seen, aborts>>

\* Dispatcher.retry_delay: backoff for a row that has now failed n times.
retry_delay(n) ==
    LET k == IF n < 1 THEN 1 ELSE n
    IN BACKOFF_SECONDS[IF k < Len(BACKOFF_SECONDS) THEN k
                       ELSE Len(BACKOFF_SECONDS)]

\* Mutant of Spent: one attempt too many.
Spent_late(tried, o) == o = "permanent" \/ tried.attempts > MaxAttempts

\* No further attempt is made after result o.
Spent(tried, o) == o = "permanent" \/ tried.attempts >= MaxAttempts

\* The row after one more attempt, with result o.
Tried(r, o, delay) ==
    LET tried == [r EXCEPT !.attempts = @ + 1]
    IN CASE o = "ok" -> [tried EXCEPT !.status = "sent"]
         [] o # "ok" /\ Spent(tried, o) -> [tried EXCEPT !.status = "failed"]
         [] OTHER -> [tried EXCEPT !.status = "queued", !.wait = delay]

\* Mutant of Recorded: a deleted row is written back.
Recorded_revives(r, o, delay) == Tried(r, o, delay)

\* Repo.record_send_result with result o on the row as it is now, whatever its
\* status; a deleted row is left alone.
Recorded(r, o, delay) == IF r.status = "gone" THEN r ELSE Tried(r, o, delay)

\* The loop of tick moves on from row m.
advance(w, m) ==
    /\ batch' = [batch EXCEPT ![w] = @ \ {m}]
    /\ seen' = [seen EXCEPT ![w][m] = 0]

\* The result of the call is written.
record_send_result(w) ==
    /\ sending[w] # None
    /\ LET m == sending[w]
       IN /\ row' = [row EXCEPT ![m] =
                       Recorded(@, outcome[w], retry_delay(seen[w][m] + 1))]
          /\ advance(w, m)
    /\ sending' = [sending EXCEPT ![w] = None]
    /\ outcome' = [outcome EXCEPT ![w] = None]
    /\ UNCHANGED <<hist, aborts>>

\* tick: no adapter for the channel, so the row fails for good, unsent.
record_unconfigured(w) ==
    /\ sending[w] = None
    /\ \E m \in Msg :
          /\ Next_in(w, m)
          /\ row[m].channel \notin Adapters
          /\ row' = [row EXCEPT ![m] = Recorded(@, "permanent", 0)]
          /\ advance(w, m)
    /\ UNCHANGED <<sending, outcome, hist, aborts>>

(***************************************************************************)
(* The tick ends early: the process stops, or record_send_result raises.   *)
(* The rest of the batch stays leased, and a call whose result was not     *)
(* recorded is forgotten.                                                  *)
(***************************************************************************)
abort(w) ==
    /\ ~Idle(w)
    /\ aborts < MaxAborts
    /\ aborts' = aborts + 1
    /\ hist' = [m \in Msg |-> IF m = sending[w]
                              THEN [hist[m] EXCEPT !.aborted = @ + 1]
                              ELSE hist[m]]
    /\ batch' = [batch EXCEPT ![w] = {}]
    /\ seen' = [seen EXCEPT ![w] = [m \in Msg |-> 0]]
    /\ sending' = [sending EXCEPT ![w] = None]
    /\ outcome' = [outcome EXCEPT ![w] = None]
    /\ UNCHANGED row

\* Repo.delete_user_data: every row of the user goes in one transaction.
delete_user_data(u) ==
    /\ \E m \in Msg : row[m].user = u /\ row[m].status # "gone"
    /\ row' = [m \in Msg |-> IF row[m].user = u
                             THEN [row[m] EXCEPT !.status = "gone"]
                             ELSE row[m]]
    /\ UNCHANGED <<batch, seen, sending, outcome, hist, aborts>>

\* Time passes by one unit of the clock.
elapse ==
    /\ \E m \in Msg : row[m].wait > 0
    /\ LeaseHolds => \A w \in Worker : \A m \in batch[w] : row[m].wait # 1
    /\ row' = [m \in Msg |-> IF row[m].wait > 0
                             THEN [row[m] EXCEPT !.wait = @ - 1]
                             ELSE row[m]]
    /\ UNCHANGED <<batch, seen, sending, outcome, hist, aborts>>

tick(w) ==
    \/ claim_due_outbound(w)
    \/ \E r \in Outcome, accepted \in BOOLEAN : send(w, r, accepted)
    \/ record_send_result(w)
    \/ record_unconfigured(w)

Next ==
    \/ Enqueue
    \/ \E w \in Worker : tick(w) \/ abort(w)
    \/ \E u \in User : delete_user_data(u)
    \/ elapse

Spec == Init /\ [][Next]_vars

\* The interval scheduler keeps starting ticks, every provider call returns
\* (httpx timeouts), every write ends, and the clock advances.
Fairness == WF_vars(elapse) /\ \A w \in Worker : WF_vars(tick(w))

FairSpec == Spec /\ Fairness

-----------------------------------------------------------------------------
(***************************************************************************)
(* Properties                                                              *)
(***************************************************************************)

\* A settled row (sent, failed or skipped) is never touched by a later tick:
\* only the deletion of its user changes its status.  record_send_result does
\* not look at the status it overwrites, so this rests on claims being disjoint.
SettledIsFinal ==
    [][\A m \in Msg : row[m].status \in Settled =>
          row'[m].status \in {row[m].status, "gone"}]_vars

\* "FOR UPDATE SKIP LOCKED keeps concurrent workers disjoint": no row is in
\* the batches of two ticks.
WorkersDisjoint ==
    \A v, w \in Worker : v # w => batch[v] \cap batch[w] = {}

\* A provider takes a message twice only if a call for it was cut off by an
\* abort, or failed after the provider had taken the message.
DuplicatesExplained ==
    \A m \in Msg : hist[m].accepted <= 1 + hist[m].aborted + hist[m].ambiguous

\* The retry budget: at most MaxAttempts provider calls per row, and one more
\* for each call whose result an abort lost.
SendBudget ==
    \A m \in Msg : hist[m].tries <= MaxAttempts + hist[m].aborted

\* No provider call and no delivery that an abort, an unclear answer or the retry
\* budget does not explain.
SendsExplained == DuplicatesExplained /\ SendBudget

\* The queue implements the life cycle it promises: a message is settled once,
\* is sent only if a provider took it, and no provider sees a settled one.
Lifecycle == INSTANCE MessageLifecycle WITH
    status <- [m \in Msg |-> row[m].status],
    taken <- {m \in Msg : hist[m].accepted > 0}

ImplementsLifecycle == Lifecycle!MSpec

\* Every queued row on a channel the dispatcher claims is settled in the end.
ClaimableSettles ==
    \A m \in Msg : (row[m].status = "queued" /\ row[m].channel \in CHANNELS)
                     ~> (row[m].status # "queued")

\* The same for every channel that has an adapter, push included.
DeliverableSettles ==
    \A m \in Msg : (row[m].status = "queued" /\ row[m].channel \in Adapters)
                     ~> (row[m].status # "queued")
=============================================================================
