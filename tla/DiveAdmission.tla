--------------------------- MODULE DiveAdmission ---------------------------
(***************************************************************************)
(* Admission to a deep dive: POST /deep-dive looks at active_deep_dives,   *)
(* reads the quota and the positions in further awaits, and only then      *)
(* claims the slot; the weekly fan-out (run_deep_dives_for_all) reads the  *)
(* report rows only.                                                       *)
(***************************************************************************)
EXTENDS Integers, FiniteSets

CONSTANTS
    User,
    Owner,     \* the owner's account, exempt from the limits of POST /deep-dive
    Req,       \* requests, and users' turns in a fan-out
    NoUser,
    Limit      \* deep_dive_weekly_limit

DiveAdmissionAssumption == Limit \in Nat /\ NoUser \notin User

VARIABLES
    active,    \* active_deep_dives
    pc,        \* pc[r]: where the request, or the task it started, is
    user,      \* user[r]
    counted,   \* counted[u]: requests whose report row is in the rolling week
    raced      \* users two of whose requests were being admitted at once (history)

vars == <<active, pc, user, counted, raced>>

Pc == {"new", "check", "positions", "claimed", "running",      \* POST /deep-dive
       "fan_check", "fan_create", "fan_running", "done", "rejected"}
Admitting == {"check", "positions", "claimed", "fan_check", "fan_create"}
Running == {"running", "fan_running"}

TypeOK ==
    /\ active \subseteq User
    /\ pc \in [Req -> Pc]
    /\ user \in [Req -> User \cup {NoUser}]
    /\ counted \in [User -> SUBSET Req]
    /\ raced \subseteq User

Init ==
    /\ active = {}
    /\ pc = [r \in Req |-> "new"]
    /\ user = [r \in Req |-> NoUser]
    /\ counted = [u \in User |-> {}]
    /\ raced = {}

goto(r, where) == pc' = [pc EXCEPT ![r] = where]

Of(u, places) == {r \in Req : user[r] = u /\ pc[r] \in places}

\* Another request of u is already being admitted.
note_race(u) == raced' = IF Of(u, Admitting) # {} THEN raced \cup {u} ELSE raced

-----------------------------------------------------------------------------
\* start_deep_dive after get_user: the slot is looked at, not claimed.
start_deep_dive(r, u) ==
    /\ pc[r] = "new"
    /\ user' = [user EXCEPT ![r] = u]
    /\ \/ u \in active /\ goto(r, "rejected") /\ UNCHANGED raced
       \/ u \notin active /\ goto(r, "check") /\ note_race(u)
    /\ UNCHANGED <<active, counted>>

HasRoom(u) == u = Owner \/ Cardinality(counted[u]) < Limit

\* The quota, and the month's compute cap, which may refuse a user with room.
deep_dive_usage(r) ==
    /\ pc[r] = "check"
    /\ \/ HasRoom(user[r]) /\ goto(r, "positions")
       \/ user[r] # Owner /\ goto(r, "rejected")
    /\ UNCHANGED <<active, user, counted, raced>>

\* list_positions, then the slot: the set does not tell one claim from two.
claim(r) ==
    /\ pc[r] = "positions"
    /\ \/ goto(r, "rejected") /\ UNCHANGED active      \* no positions
       \/ goto(r, "claimed") /\ active' = active \cup {user[r]}
    /\ UNCHANGED <<user, counted, raced>>

create_deep_dive_report(r) ==
    /\ pc[r] = "claimed" /\ goto(r, "running")
    /\ counted' = [counted EXCEPT ![user[r]] = @ \cup {r}]
    /\ UNCHANGED <<active, user, raced>>

\* The task ends, or creating the rows failed: the user's slot is discarded.
\* A report row counts whatever its status.
finish(r) ==
    /\ pc[r] \in {"claimed", "running"} /\ goto(r, "done")
    /\ active' = active \ {user[r]}
    /\ UNCHANGED <<user, counted, raced>>

-----------------------------------------------------------------------------
\* run_deep_dives_for_all, at one user: "a manual dive counts".  Users are
\* handled one after the other.
fan_out(r, u) ==
    /\ pc[r] = "new"
    /\ \A q \in Req : pc[q] \notin {"fan_check", "fan_create", "fan_running"}
    /\ user' = [user EXCEPT ![r] = u]
    /\ goto(r, "fan_check") /\ note_race(u)
    /\ UNCHANGED <<active, counted>>

\* Mutant of fan_usage: the manual limit instead of one a week.
fan_usage_limit(r) ==
    /\ pc[r] = "fan_check"
    /\ goto(r, IF Cardinality(counted[user[r]]) < Limit THEN "fan_create" ELSE "rejected")
    /\ UNCHANGED <<active, user, counted, raced>>

\* No dive this week; the plan and the compute cap may exclude the user too.
fan_usage(r) ==
    /\ pc[r] = "fan_check"
    /\ \/ counted[user[r]] = {} /\ goto(r, "fan_create")
       \/ goto(r, "rejected")
    /\ UNCHANGED <<active, user, counted, raced>>

fan_create(r) ==
    /\ pc[r] = "fan_create"
    /\ \/ /\ goto(r, "fan_running")
          /\ counted' = [counted EXCEPT ![user[r]] = @ \cup {r}]
       \/ goto(r, "done") /\ UNCHANGED counted
    /\ UNCHANGED <<active, user, raced>>

fan_finish(r) ==
    /\ pc[r] = "fan_running" /\ goto(r, "done")
    /\ UNCHANGED <<active, user, counted, raced>>

\* A row is more than a week old; its dive is over by then.
slide(u) ==
    /\ \E r \in counted[u] :
          /\ pc[r] \notin Running
          /\ counted' = [counted EXCEPT ![u] = @ \ {r}]
    /\ UNCHANGED <<active, pc, user, raced>>

Next ==
    \/ \E r \in Req :
          \/ \E u \in User : start_deep_dive(r, u) \/ fan_out(r, u)
          \/ deep_dive_usage(r) \/ claim(r) \/ create_deep_dive_report(r) \/ finish(r)
          \/ fan_usage(r) \/ fan_create(r) \/ fan_finish(r)
    \/ \E u \in User : slide(u)

Spec == Init /\ [][Next]_vars

-----------------------------------------------------------------------------
(***************************************************************************)
(* Properties                                                              *)
(***************************************************************************)

\* A user passes the weekly limit, or has two manual dives running, only if two
\* of the user's admissions overlapped: the fan-out and the requests share one
\* quota, and a slot is given back by its own dive only.
LimitsUnlessRaced ==
    \A u \in User \ raced :
       /\ u # Owner /\ Limit > 0 => Cardinality(counted[u]) <= Limit
       /\ Cardinality(Of(u, {"claimed", "running"})) <= 1

\* "A manual dive counts": unless it raced with a request, the fan-out never
\* starts a dive for a user who had one this week.
FanOutOncePerWeek ==
    [][\A r \in Req :
          (pc[r] = "fan_create" /\ pc'[r] = "fan_running" /\ user[r] \notin raced)
             => counted[user[r]] = {}]_vars

\* The weekly limit, the slot and the fan-out keep to their promises together.
DivesLimited == []LimitsUnlessRaced /\ FanOutOncePerWeek

\* "One dive in flight per user", of the dives POST /deep-dive starts, which are the
\* ones active_deep_dives is about.
OneInFlight == \A u \in User : Cardinality(Of(u, {"running"})) <= 1
=============================================================================
