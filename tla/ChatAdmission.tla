--------------------------- MODULE ChatAdmission ---------------------------
(***************************************************************************)
(* Admission to a chat turn, the same for POST /chat, /chat/stream and     *)
(* /chat/start: the slot in active_chats is claimed before the first await,*)
(* then the rolling quota is read, and the agent_runs row that counts      *)
(* against it is written some awaits later.                                *)
(***************************************************************************)
EXTENDS Integers, FiniteSets

CONSTANTS
    User,
    Owner,     \* the owner's account, exempt from quotas
    Req,       \* chat requests
    NoUser,
    Limit      \* _chat_limit of the plan

ASSUME AdmissionAssumption == Limit \in Nat /\ NoUser \notin User

VARIABLES
    active,    \* active_chats
    pc,        \* pc[r]: where the request, or the task it started, is
    user,      \* user[r]
    counted    \* counted[u]: requests whose agent_runs row chat_usage_since counts

vars == <<active, pc, user, counted>>

Pc == {"new", "claimed", "prepared", "running", "finalized", "done", "rejected"}
InFlight == {"claimed", "prepared", "running", "finalized"}

TypeOK ==
    /\ active \subseteq User
    /\ pc \in [Req -> Pc]
    /\ user \in [Req -> User \cup {NoUser}]
    /\ counted \in [User -> SUBSET Req]

Init ==
    /\ active = {}
    /\ pc = [r \in Req |-> "new"]
    /\ user = [r \in Req |-> NoUser]
    /\ counted = [u \in User |-> {}]

goto(r, where) == pc' = [pc EXCEPT ![r] = where]

\* Mutant of chat: the slot is looked at and not claimed.
chat_unclaimed(r, u) ==
    /\ pc[r] = "new" /\ user' = [user EXCEPT ![r] = u]
    /\ goto(r, IF u \in active THEN "rejected" ELSE "claimed")
    /\ UNCHANGED <<active, counted>>

\* The request up to its first await.
chat(r, u) ==
    /\ pc[r] = "new"
    /\ user' = [user EXCEPT ![r] = u]
    /\ \/ u \in active /\ goto(r, "rejected") /\ UNCHANGED active
       \/ u \notin active /\ goto(r, "claimed") /\ active' = active \cup {u}
    /\ UNCHANGED counted

discard(r) == active' = active \ {user[r]}

\* Mutant of HasRoom: off by one.
HasRoom_late(u) == u = Owner \/ Cardinality(counted[u]) <= Limit

\* _enforce_usage_limits, with chat_usage_since.
HasRoom(u) == u = Owner \/ Cardinality(counted[u]) < Limit

\* Mutant of enforce_usage_limits: the quota is not read.
enforce_nothing(r) ==
    /\ pc[r] = "claimed" /\ goto(r, "prepared")
    /\ UNCHANGED <<active, user, counted>>

\* Over the quota, or over the month's compute cap, which is not modelled: a
\* user with room may be refused too.
enforce_usage_limits(r) ==
    /\ pc[r] = "claimed"
    /\ \/ HasRoom(user[r]) /\ goto(r, "prepared") /\ UNCHANGED active
       \/ user[r] # Owner /\ goto(r, "rejected") /\ discard(r)
    /\ UNCHANGED <<user, counted>>

\* create_run, by /chat/start or by run_agent.
create_run(r) ==
    /\ pc[r] = "prepared" /\ goto(r, "running")
    /\ counted' = [counted EXCEPT ![user[r]] = @ \cup {r}]
    /\ UNCHANGED <<active, user>>

\* finalize_run: a row with status "error" does not count.
finalize_run(r) ==
    /\ pc[r] = "running" /\ goto(r, "finalized")
    /\ \/ UNCHANGED counted
       \/ counted' = [counted EXCEPT ![user[r]] = @ \ {r}]
    /\ UNCHANGED <<active, user>>

\* The rest of the turn, up to the finally block.
finish(r) ==
    /\ pc[r] = "finalized" /\ goto(r, "done") /\ discard(r)
    /\ UNCHANGED <<user, counted>>

\* Mutant of fail: the slot is kept.
fail_keeping(r) ==
    /\ pc[r] \in InFlight /\ goto(r, "done")
    /\ UNCHANGED <<active, user, counted>>

\* An exception or a cancellation: a row left "running" goes on counting.
fail(r) ==
    /\ pc[r] \in InFlight /\ goto(r, "done") /\ discard(r)
    /\ UNCHANGED <<user, counted>>

\* A row leaves the rolling window.  (Rows leave oldest first; any order is
\* allowed here.)
slide(u) ==
    /\ \E r \in counted[u] : counted' = [counted EXCEPT ![u] = @ \ {r}]
    /\ UNCHANGED <<active, pc, user>>

turn(r) == enforce_usage_limits(r) \/ create_run(r) \/ finalize_run(r) \/ finish(r)

Next ==
    \/ \E r \in Req : (\E u \in User : chat(r, u)) \/ turn(r) \/ fail(r)
    \/ \E u \in User : slide(u)

Spec == Init /\ [][Next]_vars

\* The event loop resumes every request whose await is over.
FairSpec == Spec /\ \A r \in Req : WF_vars(turn(r))

-----------------------------------------------------------------------------
(***************************************************************************)
(* Properties                                                              *)
(***************************************************************************)

\* The slots of active_chats are those of the requests in flight, and no user
\* has two: "a real invariant of the three chat endpoints".
SlotsMatch ==
    /\ active = {user[r] : r \in {q \in Req : pc[q] \in InFlight}}
    /\ \A q, r \in Req :
          pc[q] \in InFlight /\ pc[r] \in InFlight /\ user[q] = user[r] => q = r

\* The quota is never exceeded, although it is read awaits before the row that
\* uses it up is written ("blow past the Free caps").
QuotaHeld == \A u \in User \ {Owner} : Cardinality(counted[u]) <= Limit

\* Admission to chat implements the gate: one turn at a time, within the quota.
Gate == INSTANCE QuotaGate WITH
    busy <- {user[r] : r \in {q \in Req : pc[q] = "running"}}

ImplementsGate == Gate!GateSpec

\* A user is never locked out by a slot that nobody gives back.
SlotFreed == \A u \in User : u \in active ~> u \notin active
=============================================================================
