----------------------------- MODULE QuotaGate -----------------------------
(***************************************************************************)
(* What admission to a metered job promises each user: one job at a time,  *)
(* and never more than Limit jobs that count in the rolling window.  The   *)
(* owner has no limit.                                                     *)
(***************************************************************************)
EXTENDS Integers, FiniteSets

CONSTANTS User, Owner, Req, Limit

VARIABLES
    busy,     \* users with a job going on
    counted   \* counted[u]: jobs of u that count in the window now

gate == <<busy, counted>>

HasRoom(u) == u = Owner \/ Cardinality(counted[u]) < Limit

GateInit == busy = {} /\ counted = [u \in User |-> {}]

Start(u, r) ==
    /\ u \notin busy /\ HasRoom(u)
    /\ busy' = busy \cup {u}
    /\ counted' = [counted EXCEPT ![u] = @ \cup {r}]

\* The job is over; an error gives its place back.
End(u) ==
    /\ u \in busy
    /\ busy' = busy \ {u}
    /\ \/ UNCHANGED counted
       \/ \E r \in counted[u] : counted' = [counted EXCEPT ![u] = @ \ {r}]

\* A job is old enough to leave the window.
Slide(u) ==
    /\ \E r \in counted[u] : counted' = [counted EXCEPT ![u] = @ \ {r}]
    /\ UNCHANGED busy

GateNext == \E u \in User : (\E r \in Req : Start(u, r)) \/ End(u) \/ Slide(u)

GateSpec == GateInit /\ [][GateNext]_gate
=============================================================================
