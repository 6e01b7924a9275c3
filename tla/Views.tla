-------------------------------- MODULE Views --------------------------------
(***************************************************************************)
(* Two views of the web pages that ask again whenever their input changes: *)
(* the search box of every page, which numbers its requests, and the chart *)
(* of a stock, which compares ranges.                                      *)
(***************************************************************************)
EXTENDS Naturals

CONSTANTS
    Value,       \* the queries or ranges a user may choose
    Default,     \* the range a chart starts with
    MaxChanges,  \* bound: changes of an input
    MaxFaults    \* bound: requests that fail

ViewsAssumption == Default \in Value /\ {MaxChanges, MaxFaults} \subseteq Nat

VARIABLES
    view,      \* which of the two views this behaviour is of
    chosen,    \* what its input says; "short" is a query of one character
    focused,   \* the search box has the focus
    seq,       \* the search's counter: requests made so far
    typing,    \* the search's debounce timer is set
    asked,     \* requests under way: their number and their value
    shown,     \* the value whose data the view shows; "nothing" and "error" are others
    changes,
    faults,
    late       \* a failure left something older than the choice (history)

vars == <<view, chosen, focused, seq, typing, asked, shown, changes, faults, late>>

MaxSeq == MaxChanges + 1

TypeOK ==
    /\ view \in {"search", "chart"} /\ chosen \in Value \cup {"short"}
    /\ seq \in 0..MaxSeq /\ {focused, typing, late} \subseteq BOOLEAN
    /\ asked \subseteq [n : 1..MaxSeq, of : Value]
    /\ shown \in Value \cup {"nothing", "error"}
    /\ changes \in 0..MaxChanges /\ faults \in 0..MaxFaults

\* The chart asks for its first range when the page opens; the search waits for the user.
Init ==
    /\ view \in {"search", "chart"} /\ chosen = Default /\ focused = FALSE
    /\ seq = (IF view = "chart" THEN 1 ELSE 0)
    /\ typing = FALSE
    /\ asked = (IF view = "chart" THEN {[n |-> 1, of |-> Default]} ELSE {})
    /\ shown = "nothing" /\ changes = 0 /\ faults = 0 /\ late = FALSE

ask(v) ==
    /\ seq' = seq + 1
    /\ asked' = asked \cup {[n |-> seq + 1, of |-> v]}

choose(v) == changes < MaxChanges /\ changes' = changes + 1 /\ chosen' = v

\* The search: typing sets a timer, which more typing clears; a query of one character
\* closes the box instead, and so do Escape and blur.
input(v) ==
    /\ view = "search" /\ choose(v) /\ focused' = TRUE
    /\ typing' = TRUE
    /\ UNCHANGED <<view, shown, seq, asked, faults, late>>

input_short ==
    /\ view = "search" /\ choose("short") /\ focused' = TRUE
    /\ typing' = FALSE /\ shown' = "nothing"
    /\ UNCHANGED <<view, seq, asked, faults, late>>

blur ==
    /\ view = "search" /\ focused /\ focused' = FALSE /\ shown' = "nothing"
    /\ UNCHANGED <<view, chosen, seq, typing, asked, changes, faults, late>>

search ==
    /\ view = "search" /\ typing /\ typing' = FALSE /\ ask(chosen)
    /\ UNCHANGED <<view, chosen, focused, shown, changes, faults, late>>

\* A range of the chart is chosen.
loadChart(v) ==
    /\ view = "chart" /\ choose(v) /\ ask(v)
    /\ UNCHANGED <<view, focused, typing, shown, faults, late>>

\* What an answer has to be to be rendered.
is_latest(r) == r.n = seq /\ focused
is_wanted(r) == r.of = chosen

\* Mutant of renders: the range is not compared.
renders_any(r) == view = "search" => is_latest(r)

renders(r) ==
    (view = "search" => is_latest(r)) /\ (view = "chart" => is_wanted(r))

answer(r) ==
    /\ r \in asked /\ asked' = asked \ {r}
    /\ shown' = IF renders(r) THEN r.of ELSE shown
    /\ UNCHANGED <<view, chosen, focused, seq, typing, changes, faults, late>>

\* A request fails: the search stays as it is, the chart says so, whatever was chosen in
\* the meantime.
fails(r) ==
    /\ r \in asked /\ asked' = asked \ {r}
    /\ faults < MaxFaults /\ faults' = faults + 1
    /\ shown' = IF view = "search" THEN shown ELSE "error"
    /\ late' = (late \/ r.n # seq \/ view = "search")
    /\ UNCHANGED <<view, chosen, focused, seq, typing, changes>>

Next ==
    \/ \E v \in Value : input(v) \/ loadChart(v)
    \/ input_short \/ blur \/ search
    \/ \E r \in asked : answer(r) \/ fails(r)

Spec == Init /\ [][Next]_vars

-----------------------------------------------------------------------------
\* When nothing is under way a search box and a chart show what was chosen last, in
\* whatever order the answers came.  Left out are three cases: a query cut down to one
\* character does not stop the search under way, whose results open the box again; a
\* search that fails leaves the results of the one before; and a chart shows the failure
\* of a request that was superseded.
LatestShown ==
    (asked = {} /\ ~typing /\ ~late /\ chosen # "short") =>
        shown \in {chosen, "nothing", "error"}
=============================================================================
