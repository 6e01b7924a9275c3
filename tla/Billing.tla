------------------------------- MODULE Billing -------------------------------
(***************************************************************************)
(* The Stripe webhook: handlers that turn events into users.plan for one   *)
(* user.  An event is only a signal to fetch its subscription; Stripe      *)
(* delivers every event at least once, in any order, and again until a     *)
(* handler has answered.                                                   *)
(***************************************************************************)
EXTENDS Naturals, Sequences, SequencesExt

CONSTANTS
    Sub,          \* subscription ids
    NoSub,        \* the NULL stripe_subscription_id
    Handler,      \* concurrent webhook requests
    MaxChanges,   \* bound: changes of a subscription at Stripe, one event each
    MaxFailures,  \* bound: handlers that fail
    OneLive       \* whether the user never holds two live subscriptions at Stripe

BillingAssumption ==
    /\ NoSub \notin Sub
    /\ MaxChanges \in Nat /\ MaxFailures \in Nat
    /\ OneLive \in BOOLEAN

VARIABLES
    stripe,     \* stripe[s]: the status of s at Stripe
    events,     \* the subscription of each event sent so far; ids are positions
    plan,       \* users.plan
    sub,        \* users.stripe_subscription_id
    recorded,   \* the stripe_events table
    pc,         \* pc[h]: what handler h does next
    event,      \* event[h]: the event it handles, 0 when idle
    fetched,    \* fetched[h]: the status fetch_subscription returned
    failures,   \* failed handlers so far
    moved       \* handlers under way whose user another one changed after their
                \* fetch (history)

user == <<plan, sub>>
handler == <<pc, event, fetched>>
vars == <<stripe, events, user, recorded, handler, failures, moved>>

StripeStatus == {"none", "incomplete", "active", "canceled"}

TypeOK ==
    /\ stripe \in [Sub -> StripeStatus]
    /\ events \in Seq(Sub) /\ Len(events) <= MaxChanges
    /\ plan \in {"free", "pro"} /\ sub \in Sub \cup {NoSub}
    /\ recorded \subseteq 1..MaxChanges
    /\ pc \in [Handler -> {"idle", "fetch", "user", "apply", "record"}]
    /\ event \in [Handler -> 0..MaxChanges]
    /\ fetched \in [Handler -> StripeStatus]
    /\ failures \in 0..MaxFailures
    /\ moved \subseteq Handler

Init ==
    /\ stripe = [s \in Sub |-> "none"]
    /\ events = <<>>
    /\ plan = "free" /\ sub = NoSub
    /\ recorded = {}
    /\ pc = [h \in Handler |-> "idle"]
    /\ event = [h \in Handler |-> 0]
    /\ fetched = [h \in Handler |-> "none"]
    /\ failures = 0
    /\ moved = {}

-----------------------------------------------------------------------------
(***************************************************************************)
(* Stripe: a checkout starts a subscription, which becomes active, perhaps *)
(* after a payment step, and is canceled in the end.  "active" stands for  *)
(* _PRO_STATUSES.                                                          *)
(***************************************************************************)
Live(s) == stripe[s] \in {"incomplete", "active"}

change(s, status) ==
    /\ Len(events) < MaxChanges
    /\ stripe' = [stripe EXCEPT ![s] = status]
    /\ events' = Append(events, s)
    /\ UNCHANGED <<user, recorded, handler, failures, moved>>

\* POST /billing/checkout refuses a user on Pro; the session it opens may be
\* completed later.
checkout(s) ==
    /\ stripe[s] = "none"
    /\ plan # "pro"
    /\ OneLive => \A t \in Sub : ~Live(t)
    /\ \E status \in {"incomplete", "active"} : change(s, status)

activate(s) == stripe[s] = "incomplete" /\ change(s, "active")
cancel(s) == Live(s) /\ change(s, "canceled")

-----------------------------------------------------------------------------
goto(h, where) == pc' = [pc EXCEPT ![h] = where]
its(h) == events[event[h]]

plan_for_status(status) == IF status = "active" THEN "pro" ELSE "free"

\* stripe_webhook: an event already recorded is only acknowledged.
stripe_webhook(h, e) ==
    /\ pc[h] = "idle" /\ e \in DOMAIN events \ recorded
    /\ goto(h, "fetch")
    /\ event' = [event EXCEPT ![h] = e]
    /\ UNCHANGED <<stripe, events, user, recorded, fetched, failures, moved>>

fetch_subscription(h) ==
    /\ pc[h] = "fetch" /\ goto(h, "user")
    /\ fetched' = [fetched EXCEPT ![h] = stripe[its(h)]]
    /\ UNCHANGED <<stripe, events, user, recorded, event, failures, moved>>

\* Mutant of sync_subscription: any subscription's end counts.
sync_any(h) ==
    /\ pc[h] = "user" /\ goto(h, "apply")
    /\ UNCHANGED <<stripe, events, user, recorded, event, fetched, failures, moved>>

\* sync_subscription up to its decision: the end of a subscription that is not
\* the user's current one is ignored.
sync_subscription(h) ==
    /\ pc[h] = "user"
    /\ goto(h, IF plan_for_status(fetched[h]) = "free" /\ sub \notin {NoSub, its(h)}
               THEN "record" ELSE "apply")
    /\ UNCHANGED <<stripe, events, user, recorded, event, fetched, failures, moved>>

apply_subscription_state(h) ==
    /\ pc[h] = "apply" /\ goto(h, "record")
    /\ plan' = plan_for_status(fetched[h])
    /\ sub' = IF plan' = "pro" THEN its(h) ELSE NoSub
    /\ moved' = IF user' = user THEN moved
                ELSE moved \cup {g \in Handler \ {h} : pc[g] \in {"user", "apply"}}
    /\ UNCHANGED <<stripe, events, recorded, event, fetched, failures>>

idle(h) ==
    /\ goto(h, "idle")
    /\ event' = [event EXCEPT ![h] = 0]
    /\ fetched' = [fetched EXCEPT ![h] = "none"]
    /\ moved' = moved \ {h}

record_stripe_event(h) ==
    /\ pc[h] = "record" /\ idle(h)
    /\ recorded' = recorded \cup {event[h]}
    /\ UNCHANGED <<stripe, events, user, failures>>

\* Mutant of fail: a failed event is recorded all the same.
fail_recorded(h) ==
    /\ pc[h] # "idle" /\ idle(h)
    /\ failures < MaxFailures /\ failures' = failures + 1
    /\ recorded' = recorded \cup {event[h]}
    /\ UNCHANGED <<stripe, events, user>>

\* A call raises or the process stops: Stripe delivers the event again.
fail(h) ==
    /\ pc[h] # "idle" /\ idle(h)
    /\ failures < MaxFailures /\ failures' = failures + 1
    /\ UNCHANGED <<stripe, events, user, recorded>>

handle_event(h) ==
    \/ \E e \in 1..Len(events) : stripe_webhook(h, e)
    \/ fetch_subscription(h) \/ sync_subscription(h)
    \/ apply_subscription_state(h) \/ record_stripe_event(h)

Next ==
    \/ \E s \in Sub : checkout(s) \/ activate(s) \/ cancel(s)
    \/ \E h \in Handler : handle_event(h) \/ fail(h)

Spec == Init /\ [][Next]_vars

\* Stripe goes on delivering what was not answered, and requests are served.
FairSpec == Spec /\ \A h \in Handler : WF_vars(handle_event(h))

-----------------------------------------------------------------------------
(***************************************************************************)
(* Properties                                                              *)
(***************************************************************************)

Paying == \E s \in Sub : stripe[s] = "active"

\* "Duplicate and out-of-order deliveries are harmless": the user's plan ends
\* up as Stripe's current state says.
PlanConverges == <>[](plan = "pro" <=> Paying)

\* Pro is lost only by the end of the subscription that carries it, never by a
\* late event of an earlier one, in whatever order the requests of a user are
\* interleaved, unless another one changed the user between a handler's fetch and
\* its write.
ProLostOnlyByEnd ==
    [][plan = "pro" /\ plan' = "free" =>
          \/ stripe[sub] = "canceled"
          \/ \E h \in moved : pc[h] = "apply" /\ pc'[h] = "record"]_vars
=============================================================================
