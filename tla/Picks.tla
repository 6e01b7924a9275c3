-------------------------------- MODULE Picks --------------------------------
(***************************************************************************)
(* One run of the daily picks pipeline: the screen, the analysts under one *)
(* budget, the critic, and the run's row.  Runs share nothing but the      *)
(* table their rows are in.  A candidate is its rank in the screen, and    *)
(* money is counted in units.                                              *)
(***************************************************************************)
EXTENDS Integers, Sequences, FiniteSets

CONSTANTS
    Candidates,         \* picks_top_candidates
    FinalCount,         \* picks_final_count
    Concurrency,        \* ANALYST_CONCURRENCY
    AdmissionCap,       \* BUDGET_ADMISSION_CUTOFF of picks_max_cost_usd
    AnalystCost, MoversCost, CriticCost, OverviewCost,  \* the most each of them spends
    None

PicksAssumption ==
    /\ {Candidates, FinalCount, Concurrency, AdmissionCap} \subseteq Nat \ {0}
    /\ {AnalystCost, MoversCost, CriticCost, OverviewCost} \subseteq Nat

VARIABLES
    stage,      \* where the run is
    spent,      \* the budget's cost
    queue,      \* the ranks that wait for the semaphore: it is first come, first served
    active,     \* the ranks whose analyst runs
    analysis,   \* analysis[c]: what became of a candidate
    checks,     \* the ranks the critic challenged twice; None if it did not run
    status,     \* the stock_picks_runs row
    payload,    \* its picks, in order
    entries     \* its track-record rows are in

vars == <<stage, spent, queue, active, analysis, checks, status, payload, entries>>
local == <<queue, active, analysis, checks>>
row == <<status, payload, entries>>

Rank == 1 .. Candidates
Ranks == [i \in Rank |-> i]
MostSpent == AdmissionCap + Concurrency * AnalystCost + MoversCost + CriticCost + OverviewCost

TypeOK ==
    /\ stage \in {"new", "screen", "analysts", "movers", "critic", "overview", "entries",
                  "update", "finish", "failed", "gone"}
    /\ spent \in 0 .. MostSpent
    /\ active \in SUBSET Rank
    /\ \E n \in 0 .. Candidates : queue = SubSeq(Ranks, n + 1, Candidates)
    /\ analysis \in [Rank -> {"none", "ok", "unavailable"}]
    /\ checks \in SUBSET Rank \cup {None}
    /\ status \in {"none", "running", "completed", "partial", "error"}
    /\ payload = None \/ \E n \in Rank : payload \in [1 .. n -> Rank]
    /\ entries \in BOOLEAN

Init ==
    /\ stage = "new" /\ spent = 0
    /\ queue = <<>> /\ active = {} /\ analysis = [c \in Rank |-> "none"] /\ checks = None
    /\ status = "none" /\ payload = None /\ entries = FALSE

\* What a call costs is spent whether or not its answer is usable.
spend(most) == \E usd \in 0 .. most : spent' = spent + usd

\* create_run and create_picks_run.
create_picks_run ==
    /\ stage = "new" /\ stage' = "screen" /\ status' = "running"
    /\ UNCHANGED <<spent, local, payload, entries>>

\* score_universe; a store too stale to rank ends the run.
score_universe ==
    /\ stage = "screen"
    /\ \/ stage' = "analysts" /\ queue' = Ranks
       \/ stage' = "failed" /\ UNCHANGED queue
    /\ UNCHANGED <<spent, active, analysis, checks, row>>

\* Mutant of admits: the cost is looked at before the wait for a slot, at nothing spent.
admits_early == TRUE

admits == spent < AdmissionCap

\* analyze, with a slot of the semaphore: the budget decides whether an analyst starts.
analyze ==
    /\ stage = "analysts" /\ queue # <<>> /\ Cardinality(active) < Concurrency
    /\ queue' = Tail(queue)
    /\ IF admits
       THEN active' = active \cup {Head(queue)} /\ UNCHANGED analysis
       ELSE analysis' = [analysis EXCEPT ![Head(queue)] = "unavailable"] /\ UNCHANGED active
    /\ UNCHANGED <<stage, spent, checks, row>>

\* _run_analyst ends: an answer, or a failure or a timeout that leaves the scores alone.
run_analyst(c) ==
    /\ stage = "analysts" /\ c \in active /\ active' = active \ {c}
    /\ \E a \in {"ok", "unavailable"} : analysis' = [analysis EXCEPT ![c] = a]
    /\ spend(AnalystCost)
    /\ UNCHANGED <<stage, queue, checks, row>>

gather ==
    /\ stage = "analysts" /\ queue = <<>> /\ active = {} /\ stage' = "movers"
    /\ UNCHANGED <<spent, local, row>>

\* _explain_mover, once for each mover.
explain_movers ==
    /\ stage = "movers" /\ stage' = "critic" /\ spend(MoversCost)
    /\ UNCHANGED <<local, row>>

\* _run_critic over the candidates with an analysis, if the budget still admits it.
run_critic ==
    /\ stage = "critic" /\ stage' = "overview"
    /\ \/ /\ spent < AdmissionCap /\ spend(CriticCost)
          /\ checks' \in SUBSET {c \in Rank : analysis[c] = "ok"} \cup {None}
       \/ spent >= AdmissionCap /\ UNCHANGED <<spent, checks>>
    /\ UNCHANGED <<queue, active, analysis, row>>

\* _synthesize_overview, without which the picks stand.
synthesize_overview ==
    /\ stage = "overview" /\ stage' = "entries" /\ spend(OverviewCost)
    /\ UNCHANGED <<local, row>>

\* insert_pick_entries: never fatal.
insert_pick_entries ==
    /\ stage = "entries" /\ stage' = "update" /\ entries' \in BOOLEAN
    /\ UNCHANGED <<spent, local, status, payload>>

demoted == IF checks = None THEN {} ELSE checks

\* The key of the sort: the demoted below the clean, by rank among themselves.
above(c, d) == IF c \in demoted <=> d \in demoted THEN c < d ELSE d \in demoted

\* picks.sort.
sorted == CHOOSE order \in [Rank -> Rank] :
    \A i, j \in Rank : i < j => above(order[i], order[j])

\* The sorted candidates, cut to the final count.
picks == [i \in 1 .. (IF FinalCount < Candidates THEN FinalCount ELSE Candidates) |-> sorted[i]]

degraded == checks = None \/ \E c \in Rank : analysis[c] # "ok"

\* finalize: update_picks_run, then finalize_run.
update_picks_run ==
    /\ stage = "update" /\ stage' = "finish"
    /\ status' = IF degraded THEN "partial" ELSE "completed"
    /\ payload' = picks
    /\ UNCHANGED <<spent, local, entries>>

\* The agent_runs row, which no property is about.
finalize_run ==
    /\ stage = "finish" /\ stage' = "gone"
    /\ UNCHANGED <<spent, local, row>>

\* An exception outside the guarded calls, finalize's own included.
fail ==
    /\ stage \in {"screen", "critic", "update", "finish"} /\ status # "error"
    /\ stage' = "failed"
    /\ UNCHANGED <<spent, local, row>>

\* finalize("error"): the payload of the row, if it has one, stays.
finalize_error ==
    /\ stage = "failed" /\ stage' = "finish" /\ status' = "error"
    /\ UNCHANGED <<spent, local, payload, entries>>

\* The process goes away, or finalize raises a second time.
stop ==
    /\ stage \notin {"new", "gone"} /\ stage' = "gone"
    /\ UNCHANGED <<spent, local, row>>

Next ==
    \/ create_picks_run \/ score_universe \/ analyze \/ \E c \in Rank : run_analyst(c)
    \/ gather \/ explain_movers \/ run_critic \/ synthesize_overview
    \/ insert_pick_entries \/ update_picks_run \/ finalize_run
    \/ fail \/ finalize_error \/ stop

Spec == Init /\ [][Next]_vars

-----------------------------------------------------------------------------
(***************************************************************************)
(* Properties                                                              *)
(***************************************************************************)

\* However the analysts interleave, a run overshoots the admission cap by the calls that
\* were admitted below it and no more: a full set of analysts and the movers, or the
\* critic, and the overview after them.
SpendHeld ==
    LET analysts == Concurrency * AnalystCost + MoversCost
    IN spent <= AdmissionCap - 1 + OverviewCost
                   + (IF analysts > CriticCost THEN analysts ELSE CriticCost)

\* A run that says "completed" has an analysis for every candidate and a critic that
\* looked at them; one that left something out says "partial".
CompletedIsWhole == status = "completed" =>
    checks # None /\ \A c \in Rank : analysis[c] = "ok"

\* A demoted pick never stands above a clean one of the same run, nor in its place.
CleanFirst == payload # None =>
    \A c \in Rank \ demoted, i \in DOMAIN payload : payload[i] \in demoted =>
        \E j \in 1 .. i - 1 : payload[j] = c

\* What a run shows and spends is what its rules allow.
PicksHonest == SpendHeld /\ CompletedIsWhole /\ CleanFirst
=============================================================================
