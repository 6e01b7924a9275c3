--------------------------- MODULE RequestsProofs ---------------------------
(***************************************************************************)
(* Theorems about the components that serve a user's requests:             *)
(* ChatAdmission, which MC_Requests extends, and Billing (Plan),           *)
(* DiveAdmission (Dive), AgentLoop (Loop) and Positions (Book), its        *)
(* instances.  Each is proved of the component's own specification; the    *)
(* last section carries them over to SumSpec, whose steps either           *)
(* are steps of the component or leave its variables alone.                *)
(***************************************************************************)
EXTENDS MC_Requests, Sequences, FiniteSetTheorems, TLAPS

\* ---- ChatAdmission: enforce_usage_limits, the active set and the run's row.

\* The variables of ChatAdmission keep their types.
THEOREM TypeCorrect == Spec => []TypeOK
<1>1. Init => TypeOK
  BY DEF Init, TypeOK, Pc
<1>2. TypeOK /\ [Next]_vars => TypeOK'
  <2> SUFFICES ASSUME TypeOK, [Next]_vars PROVE TypeOK'
    OBVIOUS
  <2> USE DEF TypeOK, Pc
  <2>1. ASSUME NEW r \in Req, NEW u \in User, chat(r, u) PROVE TypeOK'
    BY <2>1 DEF chat, goto
  <2>2. ASSUME NEW r \in Req, enforce_usage_limits(r) PROVE TypeOK'
    BY <2>2 DEF enforce_usage_limits, goto, discard
  <2>3. ASSUME NEW r \in Req, create_run(r) PROVE TypeOK'
    BY <2>3 DEF create_run, goto
  <2>4. ASSUME NEW r \in Req, finalize_run(r) PROVE TypeOK'
    BY <2>4 DEF finalize_run, goto
  <2>5. ASSUME NEW r \in Req, finish(r) PROVE TypeOK'
    BY <2>5 DEF finish, goto, discard
  <2>6. ASSUME NEW r \in Req, fail(r) PROVE TypeOK'
    BY <2>6 DEF fail, goto, discard
  <2>7. ASSUME NEW u \in User, slide(u) PROVE TypeOK'
    BY <2>7 DEF slide
  <2>8. CASE UNCHANGED vars
    BY <2>8 DEF vars
  <2> QED BY <2>1, <2>2, <2>3, <2>4, <2>5, <2>6, <2>7, <2>8 DEF Next, turn
<1> QED BY <1>1, <1>2, PTL DEF Spec

\* A request in flight belongs to a user.
ChatOwned == \A r \in Req : pc[r] \in InFlight => user[r] \in User

\* ChatOwned and SlotsMatch together are inductive.
LEMMA ChatSlots == Spec => [](ChatOwned /\ SlotsMatch)
<1> DEFINE Inv == TypeOK /\ ChatOwned /\ SlotsMatch
<1>1. Init => Inv
  BY DEF Init, TypeOK, ChatOwned, SlotsMatch, InFlight, Pc
<1>2. Inv /\ TypeOK' /\ [Next]_vars => Inv'
  <2> SUFFICES ASSUME Inv, TypeOK', [Next]_vars PROVE (ChatOwned /\ SlotsMatch)'
    OBVIOUS
  <2> USE DEF TypeOK, ChatOwned, InFlight
  <2>1. ASSUME NEW r \in Req, NEW u \in User, chat(r, u)
        PROVE (ChatOwned /\ SlotsMatch)'
    <3>1. CASE u \in active
      BY <2>1, <3>1 DEF chat, goto, SlotsMatch
    <3>2. CASE u \notin active
      BY <2>1, <3>2 DEF chat, goto, SlotsMatch
    <3> QED BY <3>1, <3>2
  <2>2. ASSUME NEW r \in Req, enforce_usage_limits(r) PROVE (ChatOwned /\ SlotsMatch)'
    BY <2>2 DEF enforce_usage_limits, goto, discard, SlotsMatch
  <2>3. ASSUME NEW r \in Req, create_run(r) PROVE (ChatOwned /\ SlotsMatch)'
    BY <2>3 DEF create_run, goto, SlotsMatch
  <2>4. ASSUME NEW r \in Req, finalize_run(r) PROVE (ChatOwned /\ SlotsMatch)'
    BY <2>4 DEF finalize_run, goto, SlotsMatch
  <2>5. ASSUME NEW r \in Req, finish(r) PROVE (ChatOwned /\ SlotsMatch)'
    BY <2>5 DEF finish, goto, discard, SlotsMatch
  <2>6. ASSUME NEW r \in Req, fail(r) PROVE (ChatOwned /\ SlotsMatch)'
    BY <2>6 DEF fail, goto, discard, SlotsMatch
  <2>7. ASSUME NEW u \in User, slide(u) PROVE (ChatOwned /\ SlotsMatch)'
    BY <2>7 DEF slide, SlotsMatch
  <2>8. CASE UNCHANGED vars
    BY <2>8 DEF vars, SlotsMatch
  <2> QED BY <2>1, <2>2, <2>3, <2>4, <2>5, <2>6, <2>7, <2>8 DEF Next, turn
<1> QED BY <1>1, <1>2, TypeCorrect, PTL DEF Spec

\* The slots are those of the requests in flight: the claim and its return are
\* on every path, the failures of each await included.
THEOREM OneSlot == Spec => []SlotsMatch
  BY ChatSlots, PTL

\* A window holds finitely many rows.
ChatFinite == \A u \in User : IsFiniteSet(counted[u])

\* The place a prepared request was promised is still free: only another request
\* of the same user could have taken it, and there is none in flight.
ChatReserved ==
    \A r \in Req : pc[r] = "prepared" /\ user[r] # Owner =>
       Cardinality(counted[user[r]]) < Limit

\* What is inductive about the quota, next to what is known below.
ChatQuota == ChatFinite /\ ChatReserved /\ QuotaHeld

\* What was proved above.
ChatKnown == TypeOK /\ ChatOwned /\ SlotsMatch

\* A set that loses elements, or keeps them, does not grow.
LEMMA FewerRows ==
    ASSUME NEW S, NEW T, IsFiniteSet(S), T \subseteq S
    PROVE  /\ IsFiniteSet(T) /\ Cardinality(T) \in Nat /\ Cardinality(S) \in Nat
           /\ Cardinality(T) <= Cardinality(S)
  BY FS_Subset, FS_CardinalityType

\* Whatever takes rows from the windows and prepares no request keeps ChatQuota.
LEMMA ChatShrinking ==
    ASSUME ChatKnown, ChatQuota, TypeOK',
           \A u \in User : counted'[u] \subseteq counted[u],
           \A r \in Req : pc'[r] = "prepared" =>
              user'[r] = user[r] /\ user[r] \in User
              /\ (pc[r] = "prepared" \/ HasRoom(user[r]))
    PROVE  ChatQuota'
<1>1. \A u \in User : /\ IsFiniteSet(counted'[u])
                       /\ Cardinality(counted'[u]) \in Nat
                       /\ Cardinality(counted[u]) \in Nat
                       /\ Cardinality(counted'[u]) <= Cardinality(counted[u])
  BY FewerRows DEF ChatQuota, ChatFinite
<1>2. ChatFinite'
  BY <1>1 DEF ChatFinite
<1>3. QuotaHeld'
  BY <1>1, AdmissionAssumption DEF ChatQuota, QuotaHeld
<1>4. ChatReserved'
  <2> SUFFICES ASSUME NEW r \in Req, pc'[r] = "prepared", user'[r] # Owner
               PROVE  Cardinality(counted'[user'[r]]) < Limit
    BY DEF ChatReserved
  <2>1. user'[r] = user[r] /\ user[r] \in User
    OBVIOUS
  <2>2. Cardinality(counted[user[r]]) < Limit
    BY <2>1 DEF ChatQuota, ChatReserved, HasRoom
  <2> QED BY <2>1, <2>2, <1>1, AdmissionAssumption
<1> QED BY <1>2, <1>3, <1>4 DEF ChatQuota

\* The row a prepared request writes takes the place it was promised.
LEMMA ChatWriting ==
    ASSUME ChatKnown, ChatQuota, TypeOK', NEW r \in Req, create_run(r)
    PROVE  ChatQuota'
<1> DEFINE u == user[r]
<1>0. u \in User /\ pc[r] = "prepared"
  BY DEF ChatKnown, ChatOwned, InFlight, create_run
<1>1. /\ counted'[u] = counted[u] \cup {r}
      /\ \A v \in User \ {u} : counted'[v] = counted[v]
      /\ user' = user
  BY <1>0 DEF create_run, ChatKnown, TypeOK
<1>2. /\ IsFiniteSet(counted'[u]) /\ Cardinality(counted[u]) \in Nat
      /\ Cardinality(counted'[u]) <= Cardinality(counted[u]) + 1
  <2>1. IsFiniteSet(counted[u])
    BY <1>0 DEF ChatQuota, ChatFinite
  <2>2. /\ IsFiniteSet(counted[u] \cup {r})
        /\ Cardinality(counted[u] \cup {r}) =
             IF r \in counted[u] THEN Cardinality(counted[u])
             ELSE Cardinality(counted[u]) + 1
    BY <2>1, FS_AddElement
  <2>3. Cardinality(counted[u]) \in Nat
    BY <2>1, FS_CardinalityType
  <2> QED BY <1>1, <2>2, <2>3
<1>3. ChatFinite'
  BY <1>0, <1>1, <1>2 DEF ChatQuota, ChatFinite
<1>4. QuotaHeld'
  <2> SUFFICES ASSUME NEW v \in User \ {Owner} PROVE Cardinality(counted'[v]) <= Limit
    BY DEF QuotaHeld
  <2>1. CASE v = u
    <3>1. Cardinality(counted[u]) < Limit
      BY <1>0, <2>1 DEF ChatQuota, ChatReserved
    <3>2. Cardinality(counted'[u]) \in Nat
      BY <1>2, FS_CardinalityType
    <3> QED BY <2>1, <3>1, <3>2, <1>2, AdmissionAssumption
  <2>2. CASE v # u
    BY <2>2, <1>1 DEF ChatQuota, QuotaHeld
  <2> QED BY <2>1, <2>2
<1>5. ChatReserved'
  <2> SUFFICES ASSUME NEW q \in Req, pc'[q] = "prepared", user[q] # Owner
               PROVE  Cardinality(counted'[user[q]]) < Limit
    BY <1>1 DEF ChatReserved
  <2>1. q # r /\ pc[q] = "prepared"
    BY DEF create_run, goto, ChatKnown, TypeOK
  <2>2. user[q] # u /\ user[q] \in User
    BY <1>0, <2>1 DEF ChatKnown, SlotsMatch, ChatOwned, InFlight
  <2> QED BY <1>1, <2>1, <2>2 DEF ChatQuota, ChatReserved
<1> QED BY <1>3, <1>4, <1>5 DEF ChatQuota

\* The three claims of ChatQuota hold in every state.
LEMMA ChatPlaces == Spec => []ChatQuota
<1>1. Init => ChatQuota
  BY FS_EmptySet, AdmissionAssumption
     DEF Init, ChatQuota, ChatFinite, ChatReserved, QuotaHeld
<1>2. ChatKnown /\ ChatQuota /\ TypeOK' /\ [Next]_vars => ChatQuota'
  <2> SUFFICES ASSUME ChatKnown, ChatQuota, TypeOK', [Next]_vars PROVE ChatQuota'
    OBVIOUS
  <2> USE DEF ChatKnown, TypeOK, ChatOwned, InFlight
  <2>1. ASSUME NEW r \in Req, NEW u \in User, chat(r, u) PROVE ChatQuota'
    BY <2>1, ChatShrinking DEF chat, goto
  <2>2. ASSUME NEW r \in Req, enforce_usage_limits(r) PROVE ChatQuota'
    BY <2>2, ChatShrinking DEF enforce_usage_limits, goto
  <2>3. ASSUME NEW r \in Req, create_run(r) PROVE ChatQuota'
    BY <2>3, ChatWriting
  <2>4. ASSUME NEW r \in Req, finalize_run(r) PROVE ChatQuota'
    BY <2>4, ChatShrinking DEF finalize_run, goto
  <2>5. ASSUME NEW r \in Req, finish(r) PROVE ChatQuota'
    BY <2>5, ChatShrinking DEF finish, goto
  <2>6. ASSUME NEW r \in Req, fail(r) PROVE ChatQuota'
    BY <2>6, ChatShrinking DEF fail, goto
  <2>7. ASSUME NEW u \in User, slide(u) PROVE ChatQuota'
    BY <2>7, ChatShrinking DEF slide
  <2>8. CASE UNCHANGED vars
    BY <2>8, ChatShrinking DEF vars
  <2> QED BY <2>1, <2>2, <2>3, <2>4, <2>5, <2>6, <2>7, <2>8 DEF Next, turn
<1> QED BY <1>1, <1>2, TypeCorrect, ChatSlots, PTL DEF Spec, ChatKnown

\* No user but the owner ever has more counted rows than the quota allows,
\* although the row is written awaits after the quota was read.
THEOREM Quota == Spec => []QuotaHeld
<1>1. ChatQuota => QuotaHeld
  BY DEF ChatQuota
<1> QED BY <1>1, ChatPlaces, PTL

\* The users with a run between its row and its final status.
chat_busy == {user[r] : r \in {q \in Req : pc[q] = "running"}}

\* The gate's Cardinality is ours.
LEMMA SameCardinality == \A S : Gate!Cardinality(S) = Cardinality(S)
  BY DEF Gate!Cardinality, Cardinality, Gate!IsFiniteSet, IsFiniteSet

\* A step that neither starts nor ends a run nor touches a window is no step of
\* the gate.
LEMMA ChatQuiet ==
    ASSUME TypeOK, TypeOK', counted' = counted, chat_busy' = chat_busy
    PROVE  UNCHANGED Gate!gate
  BY DEF Gate!gate, chat_busy

\* A run that ends frees its user, who has no other.
LEMMA ChatEnding ==
    ASSUME ChatKnown, TypeOK', NEW r \in Req, pc[r] = "running",
           pc' = [pc EXCEPT ![r] = "finalized"] \/ pc' = [pc EXCEPT ![r] = "done"],
           user' = user,
           \/ counted' = counted
           \/ counted' = [counted EXCEPT ![user[r]] = @ \ {r}]
    PROVE  [Gate!GateNext]_(Gate!gate)
<1>0. PICK u \in User : u = user[r]
  BY DEF ChatKnown, ChatOwned, InFlight
<1>1. u \in chat_busy
  BY <1>0 DEF chat_busy
<1>2. chat_busy' = chat_busy \ {u}
  <2>1. \A q \in Req : q # r /\ pc[q] = "running" => user[q] # u
    BY <1>0 DEF ChatKnown, SlotsMatch, InFlight
  <2>2. \A q \in Req : pc'[q] = "running" <=> q # r /\ pc[q] = "running"
    BY DEF ChatKnown, TypeOK
  <2> QED BY <1>0, <2>1, <2>2 DEF chat_busy
<1>3. counted' = counted \/ \E q \in counted[u] :
                              counted' = [counted EXCEPT ![u] = @ \ {q}]
  <2>1. CASE r \in counted[u]
    BY <1>0, <2>1
  <2>2. CASE r \notin counted[u]
    BY <1>0, <2>2 DEF ChatKnown, TypeOK
  <2> QED BY <2>1, <2>2
<1>4. Gate!End(u)
  BY <1>1, <1>2, <1>3 DEF Gate!End, chat_busy
<1> QED BY <1>4 DEF Gate!GateNext

\* Admission to chat implements the gate, with a user busy from the run's row to
\* its final status: every step is a start, an end or a slide of the gate, or none.
THEOREM Refinement == Spec => ImplementsGate
<1>1. Init => Gate!GateInit
  BY DEF Init, Gate!GateInit
<1>2. ChatKnown /\ ChatQuota /\ TypeOK' /\ [Next]_vars => [Gate!GateNext]_(Gate!gate)
  <2> SUFFICES ASSUME ChatKnown, ChatQuota, TypeOK', [Next]_vars
               PROVE  [Gate!GateNext]_(Gate!gate)
    OBVIOUS
  <2>1. ASSUME NEW r \in Req, NEW u \in User, chat(r, u)
        PROVE  UNCHANGED Gate!gate
    <3>1. chat_busy' = chat_busy
      BY <2>1 DEF chat, goto, chat_busy, ChatKnown, TypeOK
    <3> QED BY <2>1, <3>1, ChatQuiet DEF chat, ChatKnown
  <2>2. ASSUME NEW r \in Req, enforce_usage_limits(r)
        PROVE  UNCHANGED Gate!gate
    <3>1. chat_busy' = chat_busy
      BY <2>2 DEF enforce_usage_limits, goto, chat_busy, ChatKnown, TypeOK
    <3> QED BY <2>2, <3>1, ChatQuiet DEF enforce_usage_limits, ChatKnown
  <2>3. ASSUME NEW r \in Req, create_run(r)
        PROVE  [Gate!GateNext]_(Gate!gate)
    <3> DEFINE u == user[r]
    <3>1. u \in User /\ pc[r] = "prepared"
      BY <2>3 DEF create_run, ChatKnown, ChatOwned, InFlight
    <3>2. u \notin chat_busy
      BY <3>1 DEF chat_busy, ChatKnown, SlotsMatch, InFlight
    <3>3. Gate!HasRoom(u)
      BY <3>1, SameCardinality DEF Gate!HasRoom, ChatQuota, ChatReserved
    <3>4. chat_busy' = chat_busy \cup {u}
      BY <2>3, <3>1 DEF create_run, goto, chat_busy, ChatKnown, TypeOK
    <3>5. Gate!Start(u, r)
      BY <2>3, <3>2, <3>3, <3>4 DEF Gate!Start, create_run, chat_busy
    <3> QED BY <3>1, <3>5 DEF Gate!GateNext
  <2>4. ASSUME NEW r \in Req, finalize_run(r)
        PROVE  [Gate!GateNext]_(Gate!gate)
    BY <2>4, ChatEnding DEF finalize_run, goto
  <2>5. ASSUME NEW r \in Req, finish(r) PROVE UNCHANGED Gate!gate
    <3>1. chat_busy' = chat_busy
      BY <2>5 DEF finish, goto, chat_busy, ChatKnown, TypeOK
    <3> QED BY <2>5, <3>1, ChatQuiet DEF finish, ChatKnown
  <2>6. ASSUME NEW r \in Req, fail(r) PROVE [Gate!GateNext]_(Gate!gate)
    <3>1. CASE pc[r] = "running"
      BY <2>6, <3>1, ChatEnding DEF fail, goto
    <3>2. CASE pc[r] # "running"
      <4>1. chat_busy' = chat_busy
        BY <2>6, <3>2 DEF fail, goto, chat_busy, ChatKnown, TypeOK
      <4> QED BY <2>6, <4>1, ChatQuiet DEF fail, ChatKnown
    <3> QED BY <3>1, <3>2
  <2>7. ASSUME NEW u \in User, slide(u) PROVE [Gate!GateNext]_(Gate!gate)
    <3>1. Gate!Slide(u)
      BY <2>7 DEF slide, Gate!Slide
    <3> QED BY <3>1 DEF Gate!GateNext
  <2>8. CASE UNCHANGED vars
    BY <2>8 DEF vars, Gate!gate
  <2> QED BY <2>1, <2>2, <2>3, <2>4, <2>5, <2>6, <2>7, <2>8 DEF Next, turn
<1> QED BY <1>1, <1>2, TypeCorrect, ChatSlots, ChatPlaces, PTL
        DEF Spec, ChatKnown, ImplementsGate, Gate!GateSpec

\* ---- Billing: sync_subscription and apply_subscription_state.

\* The variables keep their types, and a busy handler has an event.
PlanTyped == Plan!TypeOK /\ \A h \in Handler : billing_pc[h] # "idle" => event[h] \in DOMAIN events

\* An event keeps its place.
LEMMA PlanLater ==
  ASSUME NEW e \in Seq(Sub), NEW s \in Sub
  PROVE  /\ Append(e, s) \in Seq(Sub) /\ Len(Append(e, s)) = Len(e) + 1
         /\ DOMAIN e \subseteq DOMAIN Append(e, s)
         /\ \A i \in DOMAIN e : Append(e, s)[i] = e[i]
OBVIOUS

\* The type invariant of the webhook handlers and of the subscriptions at Stripe.
LEMMA PlanTypes == ASSUME Plan!BillingAssumption PROVE Plan!Spec => []PlanTyped
<1> USE DEF Plan!BillingAssumption
<1>1. Plan!Init => PlanTyped
  BY DEF Plan!Init, PlanTyped, Plan!TypeOK, Plan!StripeStatus
<1>2. PlanTyped /\ [Plan!Next]_(Plan!vars) => PlanTyped'
  <2> SUFFICES ASSUME PlanTyped, [Plan!Next]_(Plan!vars) PROVE PlanTyped'
    OBVIOUS
  <2> USE DEF PlanTyped, Plan!TypeOK, Plan!StripeStatus, Plan!goto, Plan!idle, Plan!its, Plan!user, Plan!handler
  <2>1. ASSUME NEW s \in Sub, NEW to \in Plan!StripeStatus, Plan!change(s, to) PROVE PlanTyped'
    <3>1. events' \in Seq(Sub) /\ Len(events') <= MaxChanges /\ DOMAIN events \subseteq DOMAIN events'
      BY <2>1, PlanLater DEF Plan!change
    <3> QED BY <2>1, <3>1 DEF Plan!change
  <2>2. ASSUME NEW h \in Handler, NEW e \in 1..Len(events), Plan!stripe_webhook(h, e) PROVE PlanTyped'
    BY <2>2 DEF Plan!stripe_webhook
  <2>3. ASSUME NEW h \in Handler, Plan!fetch_subscription(h) PROVE PlanTyped'
    <3>1. Plan!its(h) \in Sub
      BY <2>3 DEF Plan!fetch_subscription
    <3> QED BY <2>3, <3>1 DEF Plan!fetch_subscription
  <2>4. ASSUME NEW h \in Handler, Plan!sync_subscription(h) PROVE PlanTyped'
    BY <2>4 DEF Plan!sync_subscription
  <2>5. ASSUME NEW h \in Handler, Plan!apply_subscription_state(h) PROVE PlanTyped'
    <3>1. Plan!its(h) \in Sub
      BY <2>5 DEF Plan!apply_subscription_state
    <3> QED BY <2>5, <3>1 DEF Plan!apply_subscription_state, Plan!plan_for_status
  <2>6. ASSUME NEW h \in Handler, Plan!record_stripe_event(h) PROVE PlanTyped'
    <3>1. event[h] \in DOMAIN events /\ DOMAIN events = 1..Len(events)
      BY <2>6 DEF Plan!record_stripe_event
    <3>2. event[h] \in 1..MaxChanges
      BY <3>1
    <3>3. recorded' \subseteq 1..MaxChanges
      BY <2>6, <3>2 DEF Plan!record_stripe_event
    <3>4. /\ billing_pc' = [billing_pc EXCEPT ![h] = "idle"] /\ event' = [event EXCEPT ![h] = 0]
          /\ fetched' = [fetched EXCEPT ![h] = "none"]
          /\ UNCHANGED <<stripe, events, plan, sub, failures>> /\ moved' = moved \ {h}
      BY <2>6 DEF Plan!record_stripe_event
    <3>5. (\A g \in Handler : billing_pc[g] # "idle" => event[g] \in DOMAIN events)'
      BY <3>4
    <3> QED BY <3>3, <3>4, <3>5
  <2>7. ASSUME NEW h \in Handler, Plan!fail(h) PROVE PlanTyped'
    BY <2>7 DEF Plan!fail
  <2>8. CASE UNCHANGED Plan!vars
    BY <2>8 DEF Plan!vars
  <2> QED BY <2>1, <2>2, <2>3, <2>4, <2>5, <2>6, <2>7, <2>8
          DEF Plan!Next, Plan!checkout, Plan!activate, Plan!cancel, Plan!handle_event
<1> QED BY <1>1, <1>2, PTL DEF Plan!Spec

-----------------------------------------------------------------------------
\* What was active once is active or canceled.
PlanWasActive(s) == stripe[s] \in {"active", "canceled"}

\* Pro names a subscription that was active; what a handler fetched has been so since; and
\* one that is about to end Pro of the user it found when it fetched has fetched the end of
\* the subscription that carries it.
PlanCarried == (plan = "pro") => sub \in Sub /\ PlanWasActive(sub)
PlanFree == (plan = "free") => sub = NoSub
PlanFetched(h) ==
    billing_pc[h] \in {"user", "apply"} =>
       /\ fetched[h] = "active" => PlanWasActive(Plan!its(h))
       /\ fetched[h] = "canceled" => stripe[Plan!its(h)] = "canceled"
PlanEnds(h) ==
    plan = "pro" /\ fetched[h] # "active" /\ h \notin moved =>
       /\ billing_pc[h] = "user" /\ sub = Plan!its(h) => fetched[h] = "canceled"
       /\ billing_pc[h] = "apply" => sub = Plan!its(h) /\ fetched[h] = "canceled"

PlanInv == PlanCarried /\ PlanFree /\ \A h \in Handler : PlanFetched(h) /\ PlanEnds(h)

\* PlanInv holds in every reachable state, however the requests of a user interleave.
LEMMA PlanInvariance == ASSUME Plan!BillingAssumption PROVE Plan!Spec => []PlanInv
<1> USE DEF Plan!BillingAssumption
<1>1. Plan!Init => PlanInv
  BY DEF Plan!Init, PlanInv, PlanCarried, PlanFree, PlanFetched, PlanEnds
<1>2. PlanTyped /\ PlanInv /\ [Plan!Next]_(Plan!vars) => PlanInv'
  <2> SUFFICES ASSUME PlanTyped, PlanInv, [Plan!Next]_(Plan!vars) PROVE PlanInv'
    OBVIOUS
  <2> USE DEF PlanTyped, Plan!TypeOK, Plan!StripeStatus, Plan!goto, Plan!idle, Plan!its, Plan!user, Plan!handler,
              PlanInv, PlanCarried, PlanFree, PlanWasActive
  <2>1. ASSUME NEW s \in Sub, NEW to \in {"incomplete", "active", "canceled"},
               stripe[s] = "none" \/ (stripe[s] = "incomplete" /\ to = "active")
                                  \/ to = "canceled",
               Plan!change(s, to)
        PROVE PlanInv'
    <3>1. \A h \in Handler : billing_pc[h] # "idle" => Plan!its(h) \in Sub /\ Plan!its(h)' = Plan!its(h)
      BY <2>1, PlanLater DEF Plan!change
    <3>2. \A t \in Sub : /\ PlanWasActive(t) => PlanWasActive(t)'
                         /\ stripe[t] = "canceled" => stripe'[t] = "canceled"
      BY <2>1 DEF Plan!change
    <3>3. PlanCarried' /\ PlanFree'
      BY <2>1, <3>2 DEF Plan!change
    <3>4. ASSUME NEW h \in Handler PROVE PlanFetched(h)'
      BY <2>1, <3>1, <3>2 DEF Plan!change, PlanFetched
    <3>5. ASSUME NEW h \in Handler PROVE PlanEnds(h)'
      BY <2>1, <3>1 DEF Plan!change, PlanEnds
    <3> QED BY <3>3, <3>4, <3>5
  <2>2. ASSUME NEW h \in Handler, NEW e \in 1..Len(events), Plan!stripe_webhook(h, e) PROVE PlanInv'
    BY <2>2 DEF Plan!stripe_webhook, PlanFetched, PlanEnds
  <2>3. ASSUME NEW h \in Handler, Plan!fetch_subscription(h) PROVE PlanInv'
    BY <2>3 DEF Plan!fetch_subscription, PlanFetched, PlanEnds
  <2>4. ASSUME NEW h \in Handler, Plan!sync_subscription(h) PROVE PlanInv'
    BY <2>4 DEF Plan!sync_subscription, PlanFetched, PlanEnds, Plan!plan_for_status
  <2>5. ASSUME NEW h \in Handler, Plan!apply_subscription_state(h) PROVE PlanInv'
    <3>1. Plan!its(h) \in Sub
      BY <2>5 DEF Plan!apply_subscription_state
    <3>2. /\ billing_pc[h] = "apply" /\ billing_pc' = [billing_pc EXCEPT ![h] = "record"]
          /\ UNCHANGED <<stripe, events, recorded, event, fetched, failures>>
          /\ \/ plan' = plan /\ sub' = sub /\ moved' = moved
             \/ \A g \in Handler \ {h} : billing_pc[g] \in {"user", "apply"} => g \in moved'
      BY <2>5 DEF Plan!apply_subscription_state
    <3>3. PlanCarried' /\ PlanFree'
      BY <2>5, <3>1 DEF Plan!apply_subscription_state, Plan!plan_for_status, PlanFetched
    <3>4. ASSUME NEW g \in Handler PROVE PlanFetched(g)'
      BY <3>2 DEF PlanFetched
    <3>5. ASSUME NEW g \in Handler PROVE PlanEnds(g)'
      <4>1. CASE g = h
        BY <3>2, <4>1 DEF PlanEnds
      <4>2. CASE g # h
        BY <3>2, <4>2 DEF PlanEnds
      <4> QED BY <4>1, <4>2
    <3>6. \A g \in Handler : PlanFetched(g)' /\ PlanEnds(g)'
      BY <3>4, <3>5
    <3> QED BY <3>3, <3>6 DEF PlanInv
  <2>6. ASSUME NEW h \in Handler, Plan!record_stripe_event(h) PROVE PlanInv'
    BY <2>6 DEF Plan!record_stripe_event, PlanFetched, PlanEnds
  <2>7. ASSUME NEW h \in Handler, Plan!fail(h) PROVE PlanInv'
    BY <2>7 DEF Plan!fail, PlanFetched, PlanEnds
  <2>8. CASE UNCHANGED Plan!vars
    BY <2>8 DEF Plan!vars, PlanFetched, PlanEnds
  <2> QED BY <2>1, <2>2, <2>3, <2>4, <2>5, <2>6, <2>7, <2>8
          DEF Plan!Next, Plan!checkout, Plan!activate, Plan!cancel, Plan!Live, Plan!handle_event
<1> QED BY <1>1, <1>2, PlanTypes, PTL DEF Plan!Spec

-----------------------------------------------------------------------------
\* Pro ends with the subscription that carries it, or by a handler that fetched before
\* another one changed the user.
LEMMA PlanProKept == ASSUME Plan!BillingAssumption PROVE Plan!Spec => Plan!ProLostOnlyByEnd
<1> DEFINE Excused == \E h \in moved : billing_pc[h] = "apply" /\ billing_pc'[h] = "record"
<1>1. PlanTyped /\ PlanInv /\ [Plan!Next]_(Plan!vars)
        => [plan = "pro" /\ plan' = "free" => stripe[sub] = "canceled" \/ Excused]_(Plan!vars)
  <2> SUFFICES ASSUME PlanTyped, PlanInv, Plan!Next, plan = "pro", plan' = "free", ~Excused
               PROVE stripe[sub] = "canceled"
    OBVIOUS
  <2>1. PICK h \in Handler : Plan!apply_subscription_state(h)
    BY DEF Plan!Next, Plan!checkout, Plan!activate, Plan!cancel, Plan!change,
       Plan!handle_event, Plan!stripe_webhook,
           Plan!fetch_subscription, Plan!sync_subscription, Plan!record_stripe_event, Plan!fail, Plan!user
  <2>2. fetched[h] # "active" /\ billing_pc[h] = "apply"
    BY <2>1 DEF Plan!apply_subscription_state, Plan!plan_for_status
  <2>3. billing_pc'[h] = "record"
    BY <2>1 DEF Plan!apply_subscription_state, Plan!goto, PlanTyped, Plan!TypeOK
  <2>4. h \notin moved
    BY <2>2, <2>3
  <2> QED BY <2>2, <2>4 DEF PlanInv, PlanEnds, PlanFetched
<1> QED BY <1>1, PlanTypes, PlanInvariance, PTL DEF Plan!Spec, Plan!ProLostOnlyByEnd

-----------------------------------------------------------------------------
\* ---- DiveAdmission: the weekly limit, the slot and the fan-out.

\* The variables keep their types; a request that was made has a user, and a week's rows
\* are finitely many.
DiveTyped ==
    /\ Dive!TypeOK
    /\ \A r \in DiveReq : dive_pc[r] # "new" => dive_user[r] \in User
    /\ \A u \in User : IsFiniteSet(dive_counted[u])

\* The type invariant of the admissions.
LEMMA DiveTypes == ASSUME Dive!DiveAdmissionAssumption PROVE Dive!Spec => []DiveTyped
<1>1. Dive!Init => DiveTyped
  BY FS_EmptySet DEF Dive!Init, DiveTyped, Dive!TypeOK, Dive!Pc
<1>2. DiveTyped /\ [Dive!Next]_(Dive!vars) => DiveTyped'
  <2> SUFFICES ASSUME DiveTyped, [Dive!Next]_(Dive!vars) PROVE DiveTyped'
    OBVIOUS
  <2> USE DEF DiveTyped, Dive!TypeOK, Dive!Pc, Dive!goto
  <2>1. ASSUME NEW r \in DiveReq, NEW u \in User, Dive!start_deep_dive(r, u) PROVE DiveTyped'
    BY <2>1 DEF Dive!start_deep_dive, Dive!note_race
  <2>2. ASSUME NEW r \in DiveReq, Dive!deep_dive_usage(r) PROVE DiveTyped'
    BY <2>2 DEF Dive!deep_dive_usage
  <2>3. ASSUME NEW r \in DiveReq, Dive!claim(r) PROVE DiveTyped'
    BY <2>3 DEF Dive!claim
  <2>4. ASSUME NEW r \in DiveReq, Dive!create_deep_dive_report(r) PROVE DiveTyped'
    <3>1. IsFiniteSet(dive_counted[dive_user[r]] \cup {r})
      BY <2>4, FS_AddElement DEF Dive!create_deep_dive_report
    <3> QED BY <2>4, <3>1 DEF Dive!create_deep_dive_report
  <2>5. ASSUME NEW r \in DiveReq, Dive!finish(r) PROVE DiveTyped'
    BY <2>5 DEF Dive!finish
  <2>6. ASSUME NEW r \in DiveReq, NEW u \in User, Dive!fan_out(r, u) PROVE DiveTyped'
    BY <2>6 DEF Dive!fan_out, Dive!note_race
  <2>7. ASSUME NEW r \in DiveReq, Dive!fan_usage(r) PROVE DiveTyped'
    BY <2>7 DEF Dive!fan_usage
  <2>8. ASSUME NEW r \in DiveReq, Dive!fan_create(r) PROVE DiveTyped'
    <3>1. IsFiniteSet(dive_counted[dive_user[r]] \cup {r})
      BY <2>8, FS_AddElement DEF Dive!fan_create
    <3>2. dive_pc' \in [DiveReq -> Dive!Pc] /\ dive_pc'[r] # "new"
      BY <2>8 DEF Dive!fan_create
    <3>3. UNCHANGED <<dive_active, dive_user, raced>> /\ dive_user[r] \in User
      BY <2>8 DEF Dive!fan_create
    <3>4. dive_counted' \in {dive_counted,
             [dive_counted EXCEPT ![dive_user[r]] = dive_counted[dive_user[r]] \cup {r}]}
      BY <2>8 DEF Dive!fan_create
    <3>5. \A q \in DiveReq : dive_pc'[q] # "new" => dive_user'[q] \in User
      BY <2>8, <3>3 DEF Dive!fan_create
    <3>6. dive_counted' \in [User -> SUBSET DiveReq]
      BY <3>3, <3>4
    <3>7. ASSUME NEW u \in User PROVE IsFiniteSet(dive_counted'[u])
      BY <3>1, <3>3, <3>4
    <3>8. /\ UNCHANGED <<dive_active, dive_user, raced>>
          /\ dive_pc' \in [DiveReq -> Dive!Pc]
      BY <3>2, <3>3
    <3> QED BY <3>5, <3>6, <3>7, <3>8
  <2>9. ASSUME NEW r \in DiveReq, Dive!fan_finish(r) PROVE DiveTyped'
    BY <2>9 DEF Dive!fan_finish
  <2>10. ASSUME NEW u \in User, Dive!slide(u) PROVE DiveTyped'
    <3>1. \A r \in DiveReq : IsFiniteSet(dive_counted[u] \ {r})
      BY FS_RemoveElement
    <3> QED BY <2>10, <3>1 DEF Dive!slide
  <2>11. CASE UNCHANGED Dive!vars
    BY <2>11 DEF Dive!vars
  <2> QED BY <2>1, <2>2, <2>3, <2>4, <2>5, <2>6, <2>7, <2>8, <2>9, <2>10, <2>11 DEF Dive!Next
<1> QED BY <1>1, <1>2, PTL DEF Dive!Spec

-----------------------------------------------------------------------------
\* What holds of a user whose admissions never overlapped: one is admitted at a time; what
\* it was admitted by still holds; and a manual dive has the slot to itself.
DiveOneAdmitted(u) ==
    \A r, q \in DiveReq :
       dive_user[r] = u /\ dive_user[q] = u /\ dive_pc[r] \in Dive!Admitting /\ dive_pc[q] \in Dive!Admitting => r = q
DiveRoom(u) ==
    \A r \in DiveReq :
       /\ dive_user[r] = u /\ dive_pc[r] \in {"positions", "claimed"}
             => u = Owner \/ Cardinality(dive_counted[u]) < Limit
       /\ dive_user[r] = u /\ dive_pc[r] = "fan_create" => dive_counted[u] = {}
DiveSlot(u) ==
    \A r \in DiveReq : dive_user[r] = u /\ dive_pc[r] \in {"claimed", "running"} =>
       /\ u \in dive_active
       /\ \A q \in DiveReq :
             dive_user[q] = u /\ dive_pc[q] \in {"check", "positions", "claimed", "running"} => q = r
DiveWithin(u) == u # Owner /\ Limit > 0 => Cardinality(dive_counted[u]) <= Limit

DiveAlone(u) == DiveOneAdmitted(u) /\ DiveRoom(u) /\ DiveSlot(u) /\ DiveWithin(u)
DiveInv == \A u \in User \ raced : DiveAlone(u)

\* The instance counts as FiniteSets does.
LEMMA DiveCardinality == \A S : Dive!Cardinality(S) = Cardinality(S)
BY DEF Dive!Cardinality, Cardinality

\* The cardinalities that the steps need.
LEMMA DiveCounts ==
  ASSUME NEW S, IsFiniteSet(S), NEW r
  PROVE  /\ Cardinality(S) \in Nat
         /\ IsFiniteSet(S \cup {r}) /\ Cardinality(S \cup {r}) \in Nat
         /\ Cardinality(S \cup {r}) <= Cardinality(S) + 1
         /\ Cardinality(S \ {r}) \in Nat /\ Cardinality(S \ {r}) <= Cardinality(S)
         /\ S = {} => Cardinality(S) = 0
<1>1. Cardinality(S) \in Nat
  BY FS_CardinalityType
<1>2. /\ IsFiniteSet(S \cup {r})
      /\ Cardinality(S \cup {r}) = IF r \in S THEN Cardinality(S) ELSE Cardinality(S) + 1
  BY FS_AddElement
<1>3. Cardinality(S \ {r}) = IF r \in S THEN Cardinality(S) - 1 ELSE Cardinality(S)
  BY FS_RemoveElement
<1>4. IsFiniteSet(S \ {r}) /\ Cardinality(S \ {r}) \in Nat
  BY FS_RemoveElement, FS_CardinalityType
<1>5. S = {} => Cardinality(S) = 0
  BY FS_EmptySet
<1> QED BY <1>1, <1>2, <1>3, <1>4, <1>5

\* DiveInv holds in every reachable state.
LEMMA DiveInvariance == ASSUME Dive!DiveAdmissionAssumption PROVE Dive!Spec => []DiveInv
<1>1. Dive!Init => DiveInv
  <2> SUFFICES ASSUME Dive!Init, NEW u \in User PROVE DiveAlone(u)
    BY DEF DiveInv
  <2>1. Cardinality(dive_counted[u]) = 0
    BY FS_EmptySet DEF Dive!Init
  <2> QED BY <2>1 DEF Dive!Init, DiveAlone, DiveOneAdmitted, DiveRoom, DiveSlot, DiveWithin,
        Dive!Admitting,
                      Dive!DiveAdmissionAssumption
<1>2. DiveTyped /\ DiveInv /\ [Dive!Next]_(Dive!vars) => DiveInv'
  <2> SUFFICES ASSUME DiveTyped, DiveInv, [Dive!Next]_(Dive!vars), NEW v \in User, v \notin raced'
               PROVE DiveAlone(v)'
    BY DEF DiveInv
  <2>a. v \notin raced
    BY DEF Dive!Next, Dive!vars, Dive!start_deep_dive, Dive!note_race, Dive!deep_dive_usage,
       Dive!claim,
           Dive!create_deep_dive_report, Dive!finish, Dive!fan_out, Dive!fan_usage, Dive!fan_create, Dive!fan_finish, Dive!slide
  <2>b. DiveAlone(v)
    BY <2>a DEF DiveInv
  <2>c. Limit \in Nat /\ Cardinality(dive_counted[v]) \in Nat
    BY DiveCounts DEF Dive!DiveAdmissionAssumption, DiveTyped
  <2> USE <2>a, <2>b, <2>c
          DEF DiveTyped, Dive!TypeOK, Dive!goto, DiveAlone, DiveOneAdmitted, DiveRoom, DiveSlot, DiveWithin, Dive!Admitting
  <2>1. ASSUME NEW r \in DiveReq, NEW u \in User, Dive!start_deep_dive(r, u) PROVE DiveAlone(v)'
    BY <2>1 DEF Dive!start_deep_dive, Dive!note_race, Dive!Of
  <2>2. ASSUME NEW r \in DiveReq, Dive!deep_dive_usage(r) PROVE DiveAlone(v)'
    <3>1. UNCHANGED <<dive_active, dive_user, dive_counted>>
      BY <2>2 DEF Dive!deep_dive_usage
    <3>2. dive_pc[r] = "check"
      BY <2>2 DEF Dive!deep_dive_usage
    <3>3. CASE dive_pc' = [dive_pc EXCEPT ![r] = "rejected"]
      BY <3>1, <3>2, <3>3
    <3>4. CASE dive_pc' = [dive_pc EXCEPT ![r] = "positions"] /\ Dive!HasRoom(dive_user[r])
      <4>1. dive_user[r] = Owner \/ Cardinality(dive_counted[dive_user[r]]) < Limit
        BY <3>4, DiveCardinality DEF Dive!HasRoom
      <4> QED BY <3>1, <3>2, <3>4, <4>1
    <3> QED BY <2>2, <3>3, <3>4 DEF Dive!deep_dive_usage
  <2>3. ASSUME NEW r \in DiveReq, Dive!claim(r) PROVE DiveAlone(v)'
    BY <2>3 DEF Dive!claim
  <2>4. ASSUME NEW r \in DiveReq, Dive!create_deep_dive_report(r) PROVE DiveAlone(v)'
    <3>1. CASE dive_user[r] = v
      <4>1. dive_counted'[v] = dive_counted[v] \cup {r}
        BY <2>4, <3>1 DEF Dive!create_deep_dive_report
      <4>2. Cardinality(dive_counted'[v]) <= Cardinality(dive_counted[v]) + 1
            /\ Cardinality(dive_counted'[v]) \in Nat
        BY <4>1, DiveCounts
      <4> QED BY <2>4, <3>1, <4>2 DEF Dive!create_deep_dive_report
    <3>2. CASE dive_user[r] # v
      BY <2>4, <3>2 DEF Dive!create_deep_dive_report
    <3> QED BY <3>1, <3>2
  <2>5. ASSUME NEW r \in DiveReq, Dive!finish(r) PROVE DiveAlone(v)'
    BY <2>5 DEF Dive!finish
  <2>6. ASSUME NEW r \in DiveReq, NEW u \in User, Dive!fan_out(r, u) PROVE DiveAlone(v)'
    BY <2>6 DEF Dive!fan_out, Dive!note_race, Dive!Of
  <2>7. ASSUME NEW r \in DiveReq, Dive!fan_usage(r) PROVE DiveAlone(v)'
    BY <2>7 DEF Dive!fan_usage
  <2>8. ASSUME NEW r \in DiveReq, Dive!fan_create(r) PROVE DiveAlone(v)'
    <3>1. CASE dive_user[r] = v /\ dive_counted' # dive_counted
      <4>1. dive_counted'[v] = dive_counted[v] \cup {r} /\ dive_counted[v] = {}
        BY <2>8, <3>1 DEF Dive!fan_create
      <4>2. Cardinality(dive_counted'[v]) <= 1 /\ Cardinality(dive_counted'[v]) \in Nat
        <5>1. Cardinality(dive_counted[v]) = 0
          BY <4>1, DiveCounts
        <5>2. /\ Cardinality(dive_counted[v] \cup {r}) <= Cardinality(dive_counted[v]) + 1
              /\ Cardinality(dive_counted[v] \cup {r}) \in Nat
          BY DiveCounts
        <5> QED BY <4>1, <5>1, <5>2
      <4> QED BY <2>8, <3>1, <4>2 DEF Dive!fan_create
    <3>2. CASE dive_user[r] # v \/ dive_counted' = dive_counted
      BY <2>8, <3>2 DEF Dive!fan_create
    <3> QED BY <3>1, <3>2
  <2>9. ASSUME NEW r \in DiveReq, Dive!fan_finish(r) PROVE DiveAlone(v)'
    BY <2>9 DEF Dive!fan_finish
  <2>10. ASSUME NEW u \in User, Dive!slide(u) PROVE DiveAlone(v)'
    <3>1. CASE u = v
      <4>1. PICK r \in dive_counted[v] : dive_counted' = [dive_counted EXCEPT ![v] = @ \ {r}]
        BY <2>10, <3>1 DEF Dive!slide
      <4>2. dive_counted'[v] = dive_counted[v] \ {r}
        BY <4>1
      <4>3. Cardinality(dive_counted'[v]) <= Cardinality(dive_counted[v])
            /\ Cardinality(dive_counted'[v]) \in Nat
        BY <4>2, DiveCounts
      <4> QED BY <2>10, <4>2, <4>3 DEF Dive!slide
    <3>2. CASE u # v
      BY <2>10, <3>2 DEF Dive!slide
    <3> QED BY <3>1, <3>2
  <2>11. CASE UNCHANGED Dive!vars
    BY <2>11 DEF Dive!vars
  <2> QED BY <2>1, <2>2, <2>3, <2>4, <2>5, <2>6, <2>7, <2>8, <2>9, <2>10, <2>11 DEF Dive!Next
<1> QED BY <1>1, <1>2, DiveTypes, PTL DEF Dive!Spec

-----------------------------------------------------------------------------
\* A user none of whose admissions overlapped never passes the weekly limit, never has two
\* manual dives, and gets a dive of the fan-out only in a week without one (start_deep_dive
\* and run_deep_dives_for_all, which share a quota and not the slot).
THEOREM DiveLimited == ASSUME Dive!DiveAdmissionAssumption PROVE Dive!Spec => Dive!DivesLimited
<1>1. DiveTyped /\ DiveInv => Dive!LimitsUnlessRaced
  <2> SUFFICES ASSUME DiveTyped, DiveInv, NEW u \in User \ raced
               PROVE DiveWithin(u) /\ Cardinality(Dive!Of(u, {"claimed", "running"})) <= 1
    BY DiveCardinality DEF Dive!LimitsUnlessRaced, DiveWithin
  <2>1. DiveWithin(u) /\ DiveSlot(u)
    BY DEF DiveInv, DiveAlone
  <2>2. CASE Dive!Of(u, {"claimed", "running"}) = {}
    BY <2>1, <2>2, FS_EmptySet
  <2>3. CASE Dive!Of(u, {"claimed", "running"}) # {}
    <3>1. PICK r : r \in Dive!Of(u, {"claimed", "running"})
      BY <2>3
    <3>2. Dive!Of(u, {"claimed", "running"}) = {r}
      BY <3>1, <2>1 DEF Dive!Of, DiveSlot
    <3>3. Cardinality({r}) = 1
      BY FS_Singleton
    <3> QED BY <3>2, <3>3, <2>1
  <2> QED BY <2>2, <2>3
<1>2. DiveTyped /\ DiveInv => \A r \in DiveReq :
         (dive_pc[r] = "fan_create" /\ dive_pc'[r] = "fan_running" /\ dive_user[r] \notin raced)
            => dive_counted[dive_user[r]] = {}
  BY DEF DiveTyped, DiveInv, DiveAlone, DiveRoom
<1> QED BY <1>1, <1>2, DiveTypes, DiveInvariance, PTL DEF Dive!Spec, Dive!DivesLimited,
      Dive!FanOutOncePerWeek

-----------------------------------------------------------------------------
\* ---- AgentLoop: run_agent and its log row.

\* A message appended leaves the others where they are.
LEMMA LoopAppended ==
  ASSUME NEW s \in Seq(Loop!Message), NEW m \in Loop!Message, Len(s) > 0
  PROVE  /\ Append(s, m) \in Seq(Loop!Message) /\ Len(Append(s, m)) = Len(s) + 1
         /\ Append(s, m)[Len(s) + 1] = m
         /\ \A i \in 1..Len(s) : Append(s, m)[i] = s[i] /\ s[i] \in Loop!Message
OBVIOUS

\* The messages that the loop appends are messages.
LEMMA LoopMessages ==
  ASSUME Loop!BudgetAssumption
  PROVE  /\ 0 \in 0..MaxTools
         /\ \A n \in 0..MaxTools : Loop!user(n) \in Loop!Message
         /\ \A n \in 0..MaxTools : \A reason \in {"tool_use", "pause_turn", "other"} :
               Loop!assistant(n, reason) \in Loop!Message
         /\ Loop!user(0) \in Loop!Message /\ Loop!assistant(0, "other") \in Loop!Message
BY DEF Loop!user, Loop!assistant, Loop!Message, Loop!BudgetAssumption

\* A pause, and an answer that asks for tools.
LoopPause(m) == m.role = "assistant" /\ m.stop = "pause_turn" /\ m.blocks = 0
LoopAsks(m) == m.role = "assistant" /\ m.stop = "tool_use"

\* The end of the conversation at each place of the loop.
LoopEnding ==
    /\ loop_pc \in {"iterate", "call"} => Loop!Last.role = "user" \/ LoopPause(Loop!Last)
    /\ loop_pc = "log" =>
          Loop!Last.role = "assistant" /\ (Loop!Last.stop = "pause_turn" => Loop!Last.blocks = 0)
    /\ loop_pc \in {"tools", "tool", "log_tool", "decide"} => LoopAsks(Loop!Last)
    /\ loop_pc \in {"tool", "log_tool"} => tools > 0
    /\ loop_pc \in {"summary", "log_summary"} => Loop!Last.role = "user"
    /\ loop_pc = "finalize" => Loop!Last.role = "assistant" /\ Loop!Last.stop = "other"

\* The pairing within the conversation: the first part of ToolUsesAnswered.
LoopPairs ==
    \A i \in 1..(Len(messages) - 1) :
       messages[i].role = "assistant" =>
          \/ messages[i].stop = "tool_use" /\ messages[i + 1] = Loop!user(messages[i].blocks)
          \/ messages[i].stop = "pause_turn" /\ messages[i].blocks = 0

LoopTyped == Loop!TypeOK /\ Len(messages) > 0

\* A step that appends an answer to the last message keeps the pairing.
LEMMA LoopPaired ==
  ASSUME Loop!BudgetAssumption, LoopTyped, LoopPairs, NEW m \in Loop!Message,
         messages' = Append(messages, m),
         \/ Loop!Last.role = "user" \/ LoopPause(Loop!Last)
         \/ LoopAsks(Loop!Last) /\ m = Loop!user(Loop!Last.blocks)
  PROVE  LoopPairs' /\ messages' \in Seq(Loop!Message) /\ Len(messages') > 0 /\ Loop!Last' = m
<1> DEFINE n == Len(messages)
<1>1. messages \in Seq(Loop!Message) /\ n \in Nat /\ n > 0
  BY DEF LoopTyped, Loop!TypeOK
<1>2. /\ Len(messages') = n + 1 /\ messages'[n + 1] = m
      /\ \A i \in 1..n : messages'[i] = messages[i]
  BY <1>1, LoopAppended
<1>3. Loop!Last' = m
  BY <1>2 DEF Loop!Last
<1>4. ASSUME NEW i \in 1..n
      PROVE  messages'[i].role = "assistant" =>
                \/ messages'[i].stop = "tool_use" /\ messages'[i + 1] = Loop!user(messages'[i].blocks)
                \/ messages'[i].stop = "pause_turn" /\ messages'[i].blocks = 0
  <2>1. CASE i = n
    <3>1. messages'[i] = Loop!Last /\ messages'[i + 1] = m
      BY <2>1, <1>1, <1>2 DEF Loop!Last
    <3>2. messages'[i].role = "user" => messages'[i].role # "assistant"
      OBVIOUS
    <3> QED BY <3>1, <3>2 DEF LoopPause, LoopAsks
  <2>2. CASE i # n
    <3>1. i \in 1..(n - 1) /\ i + 1 \in 1..n
      BY <2>2, <1>1
    <3>2. messages'[i] = messages[i] /\ messages'[i + 1] = messages[i + 1]
      BY <3>1, <1>2
    <3> QED BY <3>1, <3>2 DEF LoopPairs
  <2> QED BY <2>1, <2>2
<1>5. 1..(Len(messages') - 1) = 1..n
  BY <1>1, <1>2
<1>6. LoopPairs'
  BY <1>4, <1>5 DEF LoopPairs
<1> QED BY <1>1, <1>2, <1>3, <1>6

\* Once the cost cap is reached only a pause leads to another call, and a late one is one of
\* those; the cap on iterations is looked at whenever there was no pause.
LoopCapped ==
    /\ late > 0 => Loop!cost_exceeded
    /\ loop_pc \in {"summary", "log_summary", "finalize", "except", "done", "dead"} => late <= 1 + pauses
    /\ loop_pc \in {"call", "log", "tools", "tool", "log_tool", "decide"} => late <= pauses
    /\ loop_pc = "iterate" \/ (loop_pc = "log" /\ Loop!Last.stop = "pause_turn") =>
          /\ Loop!cost_exceeded => late < pauses
          /\ iterations < max_iterations + pauses
    /\ iterations <= max_iterations + pauses

\* The status that will be written is true already, and every call but the last is logged.
LoopHonest ==
    /\ loop_pc # "done" => row = "running"
    /\ status = "budget_exceeded" => Loop!cost_exceeded
    /\ status = "max_iterations" => Loop!iterations_exhausted
    /\ loop_pc \in {"log", "log_summary"} => calls = logged + 1
    /\ loop_pc \notin {"log", "log_summary", "except", "done", "dead"} => calls = logged
    /\ loop_pc \in {"summary", "log_summary", "finalize"} => status # "running"

LoopInv ==
    /\ LoopTyped /\ LoopPairs /\ LoopEnding /\ LoopCapped /\ LoopHonest
    /\ Loop!CapsHoldUpToPauses /\ Loop!RowIsHonest

\* LoopInv says all that RunIsSound does.
LEMMA LoopSoundHere == LoopInv => Loop!RunIsSound
BY DEF LoopInv, LoopPairs, LoopEnding, LoopPause, Loop!RunIsSound, Loop!ToolUsesAnswered

\* The steps that append nothing leave the conversation as it is.
LEMMA LoopSame ==
  ASSUME messages' = messages, LoopPairs
  PROVE  LoopPairs' /\ Loop!Last' = Loop!Last /\ Len(messages') = Len(messages)
BY DEF LoopPairs, Loop!Last

\* Whatever its pauses, failures and caps, a run keeps the pairing of tool calls and results
\* that the API demands, stays within its caps but for its pauses, and ends with a row that
\* says why it ended (run_agent with its budget and finalize_run).
THEOREM LoopSoundness == ASSUME Loop!BudgetAssumption PROVE Loop!Spec => []Loop!RunIsSound
<1> USE DEF Loop!BudgetAssumption
<1>1. Loop!Init => LoopInv
  <2> SUFFICES ASSUME Loop!Init PROVE LoopInv
    OBVIOUS
  <2>1. messages \in Seq(Loop!Message) /\ Len(messages) = 1 /\ Loop!Last = Loop!user(0)
    <3>1. Loop!user(0) \in Loop!Message /\ messages = <<Loop!user(0)>>
      BY LoopMessages DEF Loop!Init
    <3> QED BY <3>1 DEF Loop!Last
  <2>2. LoopPairs
    BY <2>1 DEF LoopPairs
  <2> QED BY <2>1, <2>2 DEF Loop!Init, LoopInv, LoopTyped, Loop!TypeOK, LoopEnding, LoopCapped,
        LoopHonest, LoopPairs, LoopPause, LoopAsks, Loop!user,
       Loop!CapsHoldUpToPauses, Loop!RowIsHonest, Loop!cost_exceeded, Loop!iterations_exhausted, Loop!Pc, Loop!RunStatus
<1>2. LoopInv /\ [Loop!Next]_(Loop!vars) => LoopInv'
  <2> SUFFICES ASSUME LoopInv, [Loop!Next]_(Loop!vars) PROVE LoopInv'
    OBVIOUS
  <2>a. Loop!Last \in Loop!Message /\ messages \in Seq(Loop!Message) /\ Len(messages) > 0
    BY DEF LoopInv, LoopTyped, Loop!TypeOK, Loop!Last
  <2>b. LoopPairs /\ LoopTyped
    BY DEF LoopInv
  <2>c. /\ max_iterations \in Nat /\ max_cost \in Nat
        /\ tools \in 0..MaxTools /\ iterations \in Nat /\ cost \in Nat /\ pauses \in 0..MaxPauses
        /\ calls \in Nat /\ logged \in Nat /\ late \in Nat
    BY DEF LoopInv, LoopTyped, Loop!TypeOK
  <2>d. LoopEnding /\ LoopCapped /\ Loop!CapsHoldUpToPauses
    BY DEF LoopInv
  <2>e. LoopHonest /\ Loop!RowIsHonest
    BY DEF LoopInv
  <2> USE DEF Loop!history, Loop!budget
  <2>1. CASE Loop!start_iteration
    <3>1. LoopPairs' /\ Loop!Last' = Loop!Last /\ Len(messages') = Len(messages)
      BY <2>1, <2>b, LoopSame DEF Loop!start_iteration
    <3>t. LoopTyped'
      BY <2>b, <2>d, <2>1, <3>1 DEF LoopTyped, Loop!TypeOK, LoopEnding, Loop!Pc,
         Loop!RunStatus, Loop!start_iteration
    <3>u. LoopEnding'
      BY <2>c, <2>d, <2>1, <3>1 DEF LoopEnding, Loop!start_iteration
    <3>v. LoopCapped' /\ Loop!CapsHoldUpToPauses'
      BY <2>c, <2>d, <2>1, <3>1 DEF LoopCapped, Loop!CapsHoldUpToPauses, Loop!cost_exceeded,
         Loop!iterations_exhausted, Loop!start_iteration
    <3>w. LoopHonest' /\ Loop!RowIsHonest'
      BY <2>c, <2>d, <2>e, <2>1, <3>1 DEF LoopHonest, Loop!RowIsHonest, LoopEnding,
         Loop!cost_exceeded, Loop!iterations_exhausted, Loop!start_iteration
    <3> QED BY <2>1, <3>1, <3>t, <3>u, <3>v, <3>w DEF LoopInv
  <2>2. CASE Loop!call_model
    <3>1. PICK m \in Loop!Answers : /\ messages' = Append(messages, m)
                                    /\ pauses' = IF m.stop = "pause_turn" THEN pauses + 1 ELSE pauses
      BY <2>2 DEF Loop!call_model
    <3>2. /\ m \in Loop!Message /\ m.role = "assistant" /\ (m.stop = "pause_turn" => m.blocks = 0)
          /\ pauses' \in 0..MaxPauses
      <4>1. PICK n \in 0..MaxTools, reason \in {"tool_use", "pause_turn", "other"} :
               /\ m = Loop!assistant(n, reason)
               /\ reason = "pause_turn" => n = 0 /\ pauses < MaxPauses
        BY <3>1 DEF Loop!Answers
      <4>2. pauses \in 0..MaxPauses /\ MaxPauses \in Nat
        BY <2>c DEF Loop!BudgetAssumption
      <4>3. m \in Loop!Message
        BY <4>1, LoopMessages
      <4>4. m.role = "assistant" /\ m.stop = reason /\ m.blocks = n
        BY <4>1 DEF Loop!assistant
      <4>5. pauses' \in 0..MaxPauses
        BY <3>1, <4>1, <4>2, <4>4
      <4> QED BY <4>1, <4>3, <4>4, <4>5
    <3>3. loop_pc = "call" /\ Loop!answer("log")
      BY <2>2 DEF Loop!call_model
    <3>4. LoopPairs' /\ messages' \in Seq(Loop!Message) /\ Len(messages') > 0 /\ Loop!Last' = m
      BY <3>1, <3>2, <3>3, LoopPaired, <2>b, <2>d DEF LoopEnding
    <3>t. LoopTyped'
      BY <2>b, <2>d, <3>1, <3>2, <3>3, <3>4 DEF LoopTyped, Loop!TypeOK, LoopEnding, Loop!Pc,
         Loop!RunStatus, Loop!answer
    <3>u. LoopEnding'
      BY <2>c, <2>d, <3>1, <3>2, <3>3, <3>4 DEF LoopEnding, Loop!answer
    <3>v. LoopCapped' /\ Loop!CapsHoldUpToPauses'
      BY <2>c, <2>d, <3>1, <3>2, <3>3, <3>4 DEF LoopCapped, Loop!CapsHoldUpToPauses,
         Loop!cost_exceeded, Loop!iterations_exhausted, Loop!answer
    <3>w. LoopHonest' /\ Loop!RowIsHonest'
      BY <2>c, <2>d, <2>e, <3>1, <3>2, <3>3, <3>4 DEF LoopHonest, Loop!RowIsHonest, LoopEnding,
         Loop!cost_exceeded, Loop!iterations_exhausted, Loop!answer
    <3> QED BY <3>1, <3>2, <3>3, <3>4, <3>t, <3>u, <3>v, <3>w DEF LoopInv
  <2>3. CASE Loop!log_model_call
    <3>1. LoopPairs' /\ Loop!Last' = Loop!Last /\ Len(messages') = Len(messages)
      BY <2>3, <2>b, LoopSame DEF Loop!log_model_call
    <3>3. Loop!Last.blocks \in 0..MaxTools
      BY <2>a DEF Loop!Message
    <3>t. LoopTyped'
      BY <2>b, <2>d, <2>3, <3>1, <3>3 DEF LoopTyped, Loop!TypeOK, LoopEnding, Loop!Pc,
         Loop!RunStatus, Loop!log_model_call
    <3>u. LoopEnding'
      <4>1. loop_pc = "log" /\ Loop!Last.role = "assistant" /\ (Loop!Last.stop = "pause_turn" => Loop!Last.blocks = 0)
        BY <2>3, <2>d DEF LoopEnding, Loop!log_model_call
      <4>2. \/ Loop!Last.stop = "pause_turn" /\ loop_pc' = "iterate"
            \/ Loop!Last.stop = "other" /\ loop_pc' = "finalize"
            \/ Loop!Last.stop = "tool_use" /\ loop_pc' = "tools"
        BY <2>3 DEF Loop!log_model_call
      <4> QED BY <3>1, <4>1, <4>2 DEF LoopEnding, LoopPause, LoopAsks
    <3>v. LoopCapped' /\ Loop!CapsHoldUpToPauses'
      BY <2>c, <2>d, <2>3, <3>1, <3>3 DEF LoopCapped, Loop!CapsHoldUpToPauses,
         Loop!cost_exceeded, Loop!iterations_exhausted, Loop!log_model_call
    <3>w. LoopHonest' /\ Loop!RowIsHonest'
      BY <2>c, <2>d, <2>e, <2>3, <3>1, <3>3 DEF LoopHonest, Loop!RowIsHonest, LoopEnding,
         Loop!cost_exceeded, Loop!iterations_exhausted, Loop!log_model_call
    <3> QED BY <2>3, <3>1, <3>3, <3>t, <3>u, <3>v, <3>w DEF LoopInv
  <2>4. CASE Loop!next_tool
    <3>1. LoopPairs' /\ Loop!Last' = Loop!Last /\ Len(messages') = Len(messages)
      BY <2>4, <2>b, LoopSame DEF Loop!next_tool
    <3>t. LoopTyped'
      BY <2>b, <2>d, <2>4, <3>1 DEF LoopTyped, Loop!TypeOK, LoopEnding, Loop!Pc,
         Loop!RunStatus, Loop!next_tool
    <3>u. LoopEnding'
      <4>1. \/ loop_pc' = "decide"
            \/ loop_pc' = "tool" /\ tools # 0
        BY <2>4 DEF Loop!next_tool
      <4>2. loop_pc = "tools" /\ tools' = tools /\ tools \in Nat
        BY <2>4, <2>c DEF Loop!next_tool
      <4>3. LoopAsks(Loop!Last')
        BY <2>d, <3>1, <4>2 DEF LoopEnding
      <4>4. loop_pc' \in {"tool", "log_tool"} => tools' > 0
        BY <4>1, <4>2
      <4>5. loop_pc' \notin {"iterate", "call", "log", "summary", "log_summary", "finalize"}
        BY <4>1
      <4> QED BY <4>3, <4>4, <4>5 DEF LoopEnding
    <3>v. LoopCapped' /\ Loop!CapsHoldUpToPauses'
      BY <2>c, <2>d, <2>4, <3>1 DEF LoopCapped, Loop!CapsHoldUpToPauses, Loop!cost_exceeded,
         Loop!iterations_exhausted, Loop!next_tool
    <3>w. LoopHonest' /\ Loop!RowIsHonest'
      BY <2>c, <2>d, <2>e, <2>4, <3>1 DEF LoopHonest, Loop!RowIsHonest, LoopEnding,
         Loop!cost_exceeded, Loop!iterations_exhausted, Loop!next_tool
    <3> QED BY <2>4, <3>1, <3>t, <3>u, <3>v, <3>w DEF LoopInv
  <2>5. CASE Loop!safe_dispatch
    <3>1. LoopPairs' /\ Loop!Last' = Loop!Last /\ Len(messages') = Len(messages)
      BY <2>5, <2>b, LoopSame DEF Loop!safe_dispatch
    <3>t. LoopTyped'
      BY <2>b, <2>d, <2>5, <3>1 DEF LoopTyped, Loop!TypeOK, LoopEnding, Loop!Pc,
         Loop!RunStatus, Loop!safe_dispatch
    <3>u. LoopEnding'
      BY <2>c, <2>d, <2>5, <3>1 DEF LoopEnding, Loop!safe_dispatch
    <3>v. LoopCapped' /\ Loop!CapsHoldUpToPauses'
      BY <2>c, <2>d, <2>5, <3>1 DEF LoopCapped, Loop!CapsHoldUpToPauses, Loop!cost_exceeded,
         Loop!iterations_exhausted, Loop!safe_dispatch
    <3>w. LoopHonest' /\ Loop!RowIsHonest'
      BY <2>c, <2>d, <2>e, <2>5, <3>1 DEF LoopHonest, Loop!RowIsHonest, LoopEnding,
         Loop!cost_exceeded, Loop!iterations_exhausted, Loop!safe_dispatch
    <3> QED BY <2>5, <3>1, <3>t, <3>u, <3>v, <3>w DEF LoopInv
  <2>6. CASE Loop!log_tool_call
    <3>1. LoopPairs' /\ Loop!Last' = Loop!Last /\ Len(messages') = Len(messages)
      BY <2>6, <2>b, LoopSame DEF Loop!log_tool_call
    <3>t. LoopTyped'
      BY <2>b, <2>d, <2>6, <3>1 DEF LoopTyped, Loop!TypeOK, LoopEnding, Loop!Pc,
         Loop!RunStatus, Loop!log_tool_call
    <3>u. LoopEnding'
      BY <2>c, <2>d, <2>6, <3>1 DEF LoopEnding, Loop!log_tool_call
    <3>v. LoopCapped' /\ Loop!CapsHoldUpToPauses'
      BY <2>c, <2>d, <2>6, <3>1 DEF LoopCapped, Loop!CapsHoldUpToPauses, Loop!cost_exceeded,
         Loop!iterations_exhausted, Loop!log_tool_call
    <3>w. LoopHonest' /\ Loop!RowIsHonest'
      BY <2>c, <2>d, <2>e, <2>6, <3>1 DEF LoopHonest, Loop!RowIsHonest, LoopEnding,
         Loop!cost_exceeded, Loop!iterations_exhausted, Loop!log_tool_call
    <3> QED BY <2>6, <3>1, <3>t, <3>u, <3>v, <3>w DEF LoopInv
  <2>7. CASE Loop!decide
    <3>1. Loop!user(Loop!Last.blocks) \in Loop!Message /\ Loop!user(Loop!Last.blocks).role = "user"
      BY <2>a, LoopMessages DEF Loop!Message, Loop!user
    <3>2. loop_pc = "decide" /\ messages' = Append(messages, Loop!user(Loop!Last.blocks))
      BY <2>7 DEF Loop!decide
    <3>3. /\ LoopPairs' /\ messages' \in Seq(Loop!Message) /\ Len(messages') > 0
          /\ Loop!Last' = Loop!user(Loop!Last.blocks)
      BY <3>1, <3>2, LoopPaired, <2>b, <2>d DEF LoopEnding
    <3>t. LoopTyped'
      BY <2>b, <2>d, <2>7, <3>1, <3>3 DEF LoopTyped, Loop!TypeOK, LoopEnding, Loop!Pc,
         Loop!RunStatus, Loop!decide, Loop!exceeded
    <3>u. LoopEnding'
      BY <2>c, <2>d, <2>7, <3>1, <3>3 DEF LoopEnding, Loop!decide, Loop!exceeded
    <3>v. LoopCapped' /\ Loop!CapsHoldUpToPauses'
      BY <2>c, <2>d, <2>7, <3>1, <3>3 DEF LoopCapped, Loop!CapsHoldUpToPauses,
         Loop!cost_exceeded, Loop!iterations_exhausted, Loop!decide, Loop!exceeded
    <3>w. LoopHonest' /\ Loop!RowIsHonest'
      BY <2>c, <2>d, <2>e, <2>7, <3>1, <3>3 DEF LoopHonest, Loop!RowIsHonest, LoopEnding,
         Loop!cost_exceeded, Loop!iterations_exhausted, Loop!decide, Loop!exceeded
    <3> QED BY <2>7, <3>1, <3>3, <3>t, <3>u, <3>v, <3>w DEF LoopInv
  <2>8. CASE Loop!summary_call
    <3>1. LoopPairs' /\ Loop!Last' = Loop!Last /\ Len(messages') = Len(messages)
      BY <2>8, <2>b, LoopSame DEF Loop!summary_call
    <3>t. LoopTyped'
      BY <2>b, <2>d, <2>8, <3>1 DEF LoopTyped, Loop!TypeOK, LoopEnding, Loop!Pc,
         Loop!RunStatus, Loop!summary_call, Loop!answer
    <3>u. LoopEnding'
      BY <2>c, <2>d, <2>8, <3>1 DEF LoopEnding, Loop!summary_call, Loop!answer
    <3>v. LoopCapped' /\ Loop!CapsHoldUpToPauses'
      BY <2>c, <2>d, <2>8, <3>1 DEF LoopCapped, Loop!CapsHoldUpToPauses, Loop!cost_exceeded,
         Loop!iterations_exhausted, Loop!summary_call, Loop!answer
    <3>w. LoopHonest' /\ Loop!RowIsHonest'
      BY <2>c, <2>d, <2>e, <2>8, <3>1 DEF LoopHonest, Loop!RowIsHonest, LoopEnding,
         Loop!cost_exceeded, Loop!iterations_exhausted, Loop!summary_call, Loop!answer
    <3> QED BY <2>8, <3>1, <3>t, <3>u, <3>v, <3>w DEF LoopInv
  <2>9. CASE Loop!log_summary
    <3>1. Loop!assistant(0, "other") \in Loop!Message
      BY LoopMessages
    <3>2. loop_pc = "log_summary" /\ messages' = Append(messages, Loop!assistant(0, "other"))
      BY <2>9 DEF Loop!log_summary
    <3>3. /\ LoopPairs' /\ messages' \in Seq(Loop!Message) /\ Len(messages') > 0
          /\ Loop!Last' = Loop!assistant(0, "other")
      BY <3>1, <3>2, LoopPaired, <2>b, <2>d DEF LoopEnding
    <3>4. /\ logged' = logged + 1 /\ loop_pc' = "finalize" /\ UNCHANGED <<iterations, cost>>
          /\ UNCHANGED <<tools, attempts, status, row, pauses, calls, late>>
      BY <2>9 DEF Loop!log_summary
    <3>t. LoopTyped'
      <4>1. logged' \in Nat /\ loop_pc' \in Loop!Pc
        BY <2>c, <3>4 DEF Loop!Pc
      <4> QED BY <2>b, <3>3, <3>4, <4>1 DEF LoopTyped, Loop!TypeOK
    <3>u. LoopEnding'
      BY <3>3, <3>4 DEF LoopEnding, Loop!assistant
    <3>v. LoopCapped' /\ Loop!CapsHoldUpToPauses'
      BY <2>c, <2>d, <3>2, <3>3, <3>4 DEF LoopCapped, Loop!CapsHoldUpToPauses,
         Loop!cost_exceeded, Loop!iterations_exhausted
    <3>w. LoopHonest' /\ Loop!RowIsHonest'
      BY <2>c, <2>d, <2>e, <3>2, <3>3, <3>4 DEF LoopHonest, Loop!RowIsHonest, LoopEnding,
         Loop!cost_exceeded, Loop!iterations_exhausted
    <3> QED BY <3>2, <3>3, <3>4, <3>t, <3>u, <3>v, <3>w DEF LoopInv
  <2>10. CASE Loop!finalize_run \/ Loop!raise \/ Loop!finalize_error \/ Loop!die
    <3>1. LoopPairs' /\ Loop!Last' = Loop!Last /\ Len(messages') = Len(messages)
      BY <2>10, <2>b, LoopSame DEF Loop!finalize_run, Loop!raise, Loop!finalize_error, Loop!die
    <3>t. LoopTyped'
      BY <2>b, <2>d, <2>10, <3>1 DEF LoopTyped, Loop!TypeOK, LoopEnding, Loop!Pc,
         Loop!RunStatus, Loop!finalize_run, Loop!raise, Loop!finalize_error, Loop!die
    <3>u. LoopEnding'
      BY <2>c, <2>d, <2>10, <3>1 DEF LoopEnding, Loop!finalize_run, Loop!raise,
         Loop!finalize_error, Loop!die
    <3>v. LoopCapped' /\ Loop!CapsHoldUpToPauses'
      BY <2>c, <2>d, <2>10, <3>1 DEF LoopCapped, Loop!CapsHoldUpToPauses, Loop!cost_exceeded,
         Loop!iterations_exhausted, Loop!finalize_run, Loop!raise, Loop!finalize_error, Loop!die
    <3>w. LoopHonest' /\ Loop!RowIsHonest'
      BY <2>c, <2>d, <2>e, <2>10, <3>1 DEF LoopHonest, Loop!RowIsHonest, LoopEnding,
         Loop!cost_exceeded, Loop!iterations_exhausted, Loop!finalize_run, Loop!raise,
         Loop!finalize_error, Loop!die
    <3> QED BY <2>10, <3>1, <3>t, <3>u, <3>v, <3>w DEF LoopInv
  <2>11. CASE UNCHANGED Loop!vars
    <3>1. LoopPairs' /\ Loop!Last' = Loop!Last /\ Len(messages') = Len(messages)
      BY <2>11, <2>b, LoopSame DEF Loop!vars
    <3>t. LoopTyped'
      BY <2>b, <2>d, <2>11, <3>1 DEF LoopTyped, Loop!TypeOK, LoopEnding, Loop!Pc,
         Loop!RunStatus, Loop!vars
    <3>u. LoopEnding'
      BY <2>c, <2>d, <2>11, <3>1 DEF LoopEnding, Loop!vars
    <3>v. LoopCapped' /\ Loop!CapsHoldUpToPauses'
      BY <2>c, <2>d, <2>11, <3>1 DEF LoopCapped, Loop!CapsHoldUpToPauses, Loop!cost_exceeded,
         Loop!iterations_exhausted, Loop!vars
    <3>w. LoopHonest' /\ Loop!RowIsHonest'
      BY <2>c, <2>d, <2>e, <2>11, <3>1 DEF LoopHonest, Loop!RowIsHonest, LoopEnding,
         Loop!cost_exceeded, Loop!iterations_exhausted, Loop!vars
    <3> QED BY <2>11, <3>1, <3>t, <3>u, <3>v, <3>w DEF LoopInv
  <2> QED BY <2>1, <2>2, <2>3, <2>4, <2>5, <2>6, <2>7, <2>8, <2>9, <2>10, <2>11
          DEF Loop!Next, Loop!run_agent, Loop!over
<1> QED BY <1>1, <1>2, LoopSoundHere, PTL DEF Loop!Spec

-----------------------------------------------------------------------------
\* ---- Positions: the two brokerages and the manual list.

\* A writer that no other one has overlapped is the only one under way.
BookLone == \A w \in alone : \A v \in Writer \ {w} : book_pc[v] = "idle"

\* What such a writer finds and leaves at each of its places: between its steps the table
\* differs from the expected one by what it has written itself.
BookMidway(w) ==
    /\ book_pc[w] = "prune" => rows[w] \subseteq positions
    /\ solid /\ book_pc[w] \in {"idle", "fetch", "upsert", "m_upsert"} => positions = expected
    /\ book_pc[w] \in {"m_upsert", "m_list"} => rows[w] \subseteq Manual
    /\ solid /\ book_pc[w] = "m_list" => positions = expected \cup rows[w]
    /\ solid /\ book_pc[w] = "m_prune" =>
          /\ positions = expected \cup (rows[w] \cap Manual)
          /\ rows[w] \ Manual = positions \ Manual

BookInv ==
    /\ Book!TypeOK /\ BookLone
    /\ \A w \in alone : BookMidway(w)
    /\ Book!BookIsLastWrite

\* Writers that ran one after the other leave the positions that their handlers promise
\* (sync_brokerage_positions and set_manual_portfolio, each an upsert and then a prune).
THEOREM BookOrdered == ASSUME Book!PositionsAssumption PROVE Book!Spec => []Book!BookIsLastWrite
<1>1. Book!Init => BookInv
  BY DEF Book!Init, BookInv, Book!TypeOK, BookLone, BookMidway, Book!BookIsLastWrite,
     Book!Place, Book!Key
<1>2. BookInv /\ [Book!Next]_(Book!vars) => BookInv'
  <2> SUFFICES ASSUME BookInv, [Book!Next]_(Book!vars) PROVE BookInv'
    OBVIOUS
  <2> USE DEF BookInv, Book!TypeOK, BookLone, BookMidway, Book!BookIsLastWrite, Book!Place, Book!Key, Book!goto, Book!begin
  <2>1. CASE Book!trade
    BY <2>1 DEF Book!trade
  <2>2. ASSUME NEW w \in Writer, Book!sync_begins(w) PROVE BookInv'
    BY <2>2 DEF Book!sync_begins
  <2>3. ASSUME NEW w \in Writer, Book!fetch(w) PROVE BookInv'
    BY <2>3 DEF Book!fetch
  <2>4. ASSUME NEW w \in Writer, Book!upsert_positions(w, "upsert", "prune") PROVE BookInv'
    BY <2>4 DEF Book!upsert_positions
  <2>5. ASSUME NEW w \in Writer, Book!prune_positions_except(w, "prune") PROVE BookInv'
    <3>1. Book!TypeOK' /\ BookLone'
      BY <2>5 DEF Book!prune_positions_except
    <3>2. solid' => positions' = expected'
      BY <2>5 DEF Book!prune_positions_except
    <3>3. \A v \in alone : book_pc'[v] = "idle"
      BY <2>5 DEF Book!prune_positions_except
    <3> QED BY <2>5, <3>1, <3>2, <3>3 DEF Book!prune_positions_except
  <2>6. ASSUME NEW w \in Writer, Book!manual_begins(w) PROVE BookInv'
    BY <2>6 DEF Book!manual_begins
  <2>7. ASSUME NEW w \in Writer, Book!upsert_positions(w, "m_upsert", "m_list") PROVE BookInv'
    BY <2>7 DEF Book!upsert_positions
  <2>8. ASSUME NEW w \in Writer, Book!list_positions(w) PROVE BookInv'
    BY <2>8 DEF Book!list_positions
  <2>9. ASSUME NEW w \in Writer, Book!prune_positions_except(w, "m_prune") PROVE BookInv'
    <3>1. Book!TypeOK' /\ BookLone'
      BY <2>9 DEF Book!prune_positions_except
    <3>2. solid' => positions' = expected'
      <4>1. solid' => solid /\ w \in alone
        BY <2>9 DEF Book!prune_positions_except
      <4>2. /\ positions' = positions \cap rows[w]
            /\ expected' = (expected \ Manual) \cup (rows[w] \cap Manual)
        BY <2>9 DEF Book!prune_positions_except
      <4>3. solid /\ w \in alone => /\ positions = expected \cup (rows[w] \cap Manual)
                                    /\ rows[w] \ Manual = positions \ Manual
        BY <2>9 DEF Book!prune_positions_except
      <4> QED BY <4>1, <4>2, <4>3
    <3>3. \A v \in alone : book_pc'[v] = "idle"
      BY <2>9 DEF Book!prune_positions_except
    <3> QED BY <2>9, <3>1, <3>2, <3>3 DEF Book!prune_positions_except
  <2>10. ASSUME NEW w \in Writer, Book!fail(w) PROVE BookInv'
    BY <2>10 DEF Book!fail
  <2>11. CASE UNCHANGED Book!vars
    BY <2>11 DEF Book!vars
  <2> QED BY <2>1, <2>2, <2>3, <2>4, <2>5, <2>6, <2>7, <2>8, <2>9, <2>10, <2>11
          DEF Book!Next, Book!sync_brokerage_positions, Book!set_manual_portfolio
<1> QED BY <1>1, <1>2, PTL DEF Book!Spec, BookInv

-----------------------------------------------------------------------------
(***************************************************************************)
(* The components side by side                                             *)
(***************************************************************************)

\* Every behaviour of the run is one of the agent loop, of the dive admissions, of the
\* webhook and of the positions, up to steps that change nothing of theirs.
LEMMA SumImplements ==
  SumSpec => Spec /\ Loop!Spec /\ Dive!Spec /\ Plan!Spec /\ Book!Spec
<1>1. SumInit => Init /\ Loop!Init /\ Dive!Init /\ Plan!Init /\ Book!Init
  BY DEF SumInit
<1>2. [SumNext]_all => [Loop!Next]_(Loop!vars)
  BY DEF SumNext, all, loop_vars, dive_vars, billing_vars, link_vars, book_vars, Loop!vars
<1>3. [SumNext]_all => [Dive!Next]_(Dive!vars)
  BY DEF SumNext, all, loop_vars, dive_vars, billing_vars, link_vars, book_vars, Dive!vars
<1>4. [SumNext]_all => [Book!Next]_(Book!vars)
  BY DEF SumNext, all, loop_vars, dive_vars, billing_vars, link_vars, book_vars, Book!vars
<1>5. [SumNext]_all => [Next]_vars
  BY DEF SumNext, all
<1>6. [SumNext]_all => [Plan!Next]_(Plan!vars)
  BY DEF SumNext, all, loop_vars, dive_vars, billing_vars, link_vars, book_vars, Plan!vars,
         Plan!user, Plan!handler
<1> QED BY <1>1, <1>2, <1>3, <1>4, <1>5, <1>6, PTL
        DEF SumSpec, Spec, Loop!Spec, Dive!Spec, Plan!Spec, Book!Spec

\* In the behaviours the run checks as well, a user has one turn in flight, the quota holds,
\* and every step of chat, chat_stream and chat_start is one of the gate.
THEOREM ChatHolds == SumSpec => [](SlotsMatch /\ QuotaHeld) /\ ImplementsGate
BY SumImplements, OneSlot, Quota, Refinement, PTL

\* Whatever the model answers, and wherever a run is cut off, its messages pair every
\* tool call with one result, its caps hold, and its row says what happened (run_agent).
THEOREM SoundRuns == SumSpec => []RunIsSound
BY SumImplements, LoopSoundness, PartsAssumption, PTL DEF RunIsSound

\* The weekly limit, the single slot and the fan-out's "a manual dive counts" hold of every
\* user none of whose admissions overlapped (start_deep_dive, run_deep_dives_for_all).
THEOREM LimitedDives == SumSpec => DivesLimited
BY SumImplements, DiveLimited, PartsAssumption, PTL DEF DivesLimited

\* Pro is lost only by the end of the subscription that carries it, or by a handler that
\* fetched before another one changed the user: through redeliveries, failures and events
\* out of order, with any number of requests under way at a time and of live subscriptions
\* (sync_subscription, apply_subscription_state).
THEOREM ProKept == SumSpec => ProLostOnlyByEnd
BY SumImplements, PlanProKept, PartsAssumption, PTL DEF ProLostOnlyByEnd

\* Writers that ran one after the other leave the positions their handlers promise
\* (import_positions, remove_manual_position, sync_positions).
THEOREM LastWrite == SumSpec => []BookIsLastWrite
BY SumImplements, BookOrdered, PartsAssumption, PTL DEF BookIsLastWrite
=============================================================================
