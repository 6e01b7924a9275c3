-------------------------- MODULE MC_Requests --------------------------
\* The components that serve a user's requests, in one run.  They share no variable: a
\* behaviour is of one of them, named by part, and the others stay in their initial
\* state.  ChatAdmission is extended, the others are instances.
EXTENDS ChatAdmission, Sequences

CONSTANTS
    max_iterations, max_cost, MaxCallCost, MaxTools, MaxPauses, DiveReq, Sub, NoSub,
    Handler, MaxChanges, MaxFailures, OneLive, Request, MaxSecret, None, Brokerage,
    Manual, Writer,
    Solo,               \* the handler of a behaviour whose webhook requests come one by one
    OverlapChanges,     \* bounds of a behaviour whose requests overlap
    OverlapFailures

VARIABLES
    part,        \* the component this behaviour is of
    loop_pc, messages, tools, attempts, iterations, cost, status, row, pauses, calls,
    logged, late,
    dive_active, dive_pc, dive_user, dive_counted, raced,
    stripe, events, plan, sub, recorded, billing_pc, event, fetched, failures, moved,
    remote, dying, issued, stored, link_pc, secret, tries,
    book_remote, positions, book_pc, rows, expected, alone, solid

Loop == INSTANCE AgentLoop WITH
    pc <- loop_pc
Dive == INSTANCE DiveAdmission WITH
    Req <- DiveReq, active <- dive_active, pc <- dive_pc, user <- dive_user,
    counted <- dive_counted
Plan == INSTANCE Billing WITH
    pc <- billing_pc
Link == INSTANCE Brokerage WITH
    pc <- link_pc
Book == INSTANCE Positions WITH
    remote <- book_remote, book <- positions, pc <- book_pc

ASSUME PartsAssumption ==
    /\ Loop!BudgetAssumption
    /\ Dive!DiveAdmissionAssumption
    /\ Plan!BillingAssumption /\ Solo \in Handler
    /\ Book!PositionsAssumption

Parts == {"chat", "loop", "dive", "billing", "overlap", "link", "book"}

loop_vars ==
    <<loop_pc, messages, tools, attempts, iterations, cost, status, row, pauses, calls,
      logged, late>>
dive_vars ==
    <<dive_active, dive_pc, dive_user, dive_counted, raced>>
billing_vars ==
    <<stripe, events, plan, sub, recorded, billing_pc, event, fetched, failures,
      moved>>
link_vars ==
    <<remote, dying, issued, stored, link_pc, secret, tries>>
book_vars ==
    <<book_remote, positions, book_pc, rows, expected, alone, solid>>

SumInit ==
    /\ part \in Parts
    /\ Init
    /\ Loop!Init
    /\ Dive!Init
    /\ Plan!Init
    /\ Link!Init
    /\ Book!Init
    /\ part # "book" => book_remote = {}

\* "billing" and "overlap" are behaviours of the webhook: in the first the events of a user
\* come one after the other, of one subscription at a time.
InTurn ==
    /\ \A h \in Handler \ {Solo} : billing_pc[h] = "idle"
    /\ \A s, t \in Sub : Plan!Live(s) /\ Plan!Live(t) => s = t

OverlapBounds == Len(events) <= OverlapChanges /\ failures <= OverlapFailures

SumNext ==
    /\ UNCHANGED part
    /\ \/ /\ part = "chat" /\ Next
          /\ UNCHANGED <<loop_vars, dive_vars, billing_vars, link_vars, book_vars>>
       \/ /\ part = "loop" /\ Loop!Next
          /\ UNCHANGED <<vars, dive_vars, billing_vars, link_vars, book_vars>>
       \/ /\ part = "dive" /\ Dive!Next
          /\ UNCHANGED <<vars, loop_vars, billing_vars, link_vars, book_vars>>
       \/ /\ \/ part = "billing" /\ Plan!Next /\ InTurn'
             \/ part = "overlap" /\ Plan!Next /\ OverlapBounds'
          /\ UNCHANGED <<vars, loop_vars, dive_vars, link_vars, book_vars>>
       \/ /\ part = "link" /\ Link!Next
          /\ UNCHANGED <<vars, loop_vars, dive_vars, billing_vars, book_vars>>
       \/ /\ part = "book" /\ Book!Next
          /\ UNCHANGED <<vars, loop_vars, dive_vars, billing_vars, link_vars>>

all == <<part, vars, loop_vars, dive_vars, billing_vars, link_vars, book_vars>>

SumSpec == SumInit /\ [][SumNext]_all

\* The fairness of each component, for the behaviours that are its own.
FairSumSpec ==
    /\ SumSpec
    /\ \A r \in Req : WF_vars(part = "chat" /\ turn(r))
    /\ WF_loop_vars(part = "loop" /\ Loop!run_agent)
    /\ WF_billing_vars(part = "billing" /\ Plan!handle_event(Solo))
    /\ \A r \in Request :
        WF_link_vars(part = "link" /\ (Link!register_user(r) \/ Link!delete_user(r)
            \/ Link!register_again(r) \/ Link!save_snaptrade_credentials(r)
            \/ Link!query(r) \/ Link!drop(r) \/ Link!disconnect(r)))
    /\ WF_link_vars(part = "link" /\ Link!deleted)
    /\ SF_link_vars(part = "link" /\ \E r \in Request : Link!portfolio_status(r))
    /\ SF_link_vars(part = "link" /\ \E r \in Request : Link!query(r) /\ link_pc'[r] = "drop")
    /\ SF_link_vars(part = "link" /\ \E r \in Request : Link!drop(r))


-----------------------------------------------------------------------------
(***************************************************************************)
(* Properties of the instances; those of ChatAdmission keep their names    *)
(***************************************************************************)

\* A run keeps the pairing of tool calls and results, its caps, and an honest row.
RunIsSound == Loop!RunIsSound

\* Every run of the agent loop ends with a final status, unless it is cut off.
RunEnds == part = "loop" => Loop!RunEnds

\* The weekly limit and the single slot of deep dives hold unless admissions raced, and
\* the weekly fan-out leaves out a user who had a dive this week.
DivesLimited == Dive!DivesLimited

\* The plan ends up as Stripe's current state says, whatever the order of the events that
\* are handled one by one.
PlanConverges == part = "billing" => Plan!PlanConverges

\* Pro is lost only by the end of the subscription that carries it, or by a handler whose
\* user another one changed after its fetch.
ProLostOnlyByEnd == Plan!ProLostOnlyByEnd

\* A secret that SnapTrade does not know is not stored for ever.
DeadSecretDropped == part = "link" => Link!DeadSecretDropped

\* Writers that ran one after the other leave the positions their handlers promise.
BookIsLastWrite == Book!BookIsLastWrite
=============================================================================
