------------------------------ MODULE Positions ------------------------------
(***************************************************************************)
(* One user's positions and their writers: the brokerage sync (POST        *)
(* /portfolio/sync and the refresh job) and the typed-in portfolio.  Every *)
(* await is a step; a position is its (ticker, account) key.               *)
(***************************************************************************)
EXTENDS Naturals, FiniteSets

CONSTANTS
    Brokerage,   \* keys of the synced accounts
    Manual,      \* keys of the "Manual" account
    Writer       \* syncs and manual writes under way: a bound on their number

PositionsAssumption == Brokerage \cap Manual = {}

VARIABLES
    remote,      \* the holdings SnapTrade reports
    book,        \* the positions table
    pc, rows,    \* per writer: its place, and the keys it writes, later those it keeps
    expected,    \* what writers running one after the other would have left (history)
    alone,       \* writers that no other one has overlapped (history)
    solid        \* expected is known: no overlap or failure since (history)

vars == <<remote, book, pc, rows, expected, alone, solid>>

Key == Brokerage \cup Manual
Place == {"idle", "fetch", "upsert", "prune", "m_upsert", "m_list", "m_prune"}

TypeOK ==
    /\ remote \subseteq Brokerage /\ book \subseteq Key
    /\ pc \in [Writer -> Place] /\ rows \in [Writer -> SUBSET Key]
    /\ expected \subseteq Key /\ alone \subseteq Writer /\ solid \in BOOLEAN

Init ==
    /\ remote \in SUBSET Brokerage /\ book = {}
    /\ pc = [w \in Writer |-> "idle"] /\ rows = [w \in Writer |-> {}]
    /\ expected = {} /\ alone = {} /\ solid = TRUE

goto(w, where) == pc' = [pc EXCEPT ![w] = where]

\* A writer begins: it overlaps those that have begun.
begin(w) == alone' = IF \E v \in Writer : pc[v] # "idle" THEN {} ELSE {w}

trade ==
    /\ remote' \in SUBSET Brokerage
    /\ UNCHANGED <<book, pc, rows, expected, alone, solid>>

-----------------------------------------------------------------------------
(***************************************************************************)
(* Brokerage sync                                                          *)
(***************************************************************************)

sync_begins(w) ==
    /\ pc[w] = "idle" /\ goto(w, "fetch") /\ begin(w)
    /\ UNCHANGED <<remote, book, rows, expected, solid>>

\* list_accounts and get_account_positions; rows of the same (ticker, account) are merged.
fetch(w) ==
    /\ pc[w] = "fetch" /\ goto(w, "upsert")
    /\ rows' = [rows EXCEPT ![w] = remote]
    /\ UNCHANGED <<remote, book, expected, alone, solid>>

upsert_positions(w, from, to) ==
    /\ pc[w] = from /\ goto(w, to)
    /\ book' = book \cup rows[w]
    /\ UNCHANGED <<remote, rows, expected, alone, solid>>

\* The rows that are not kept go; an empty set clears the book.
prune_positions_except(w, from) ==
    /\ pc[w] = from /\ goto(w, "idle")
    /\ rows' = [rows EXCEPT ![w] = {}]
    /\ book' = book \cap rows[w]
    /\ expected' = IF from = "prune" THEN rows[w] ELSE (expected \ Manual) \cup (rows[w] \cap Manual)
    /\ solid' = (w \in alone /\ (from = "prune" \/ solid))
    /\ UNCHANGED <<remote, alone>>

sync_brokerage_positions(w) ==
    \/ sync_begins(w) \/ fetch(w)
    \/ upsert_positions(w, "upsert", "prune")
    \/ prune_positions_except(w, "prune")

-----------------------------------------------------------------------------
(***************************************************************************)
(* Typed-in holdings                                                       *)
(***************************************************************************)

\* The request's rows, merged by ticker; each has a quote.
manual_begins(w) ==
    /\ pc[w] = "idle" /\ goto(w, "m_upsert") /\ begin(w)
    /\ \E s \in SUBSET Manual \ {{}} : rows' = [rows EXCEPT ![w] = s]
    /\ UNCHANGED <<remote, book, expected, solid>>

\* Mutant of list_positions: only the manual rows are kept.
list_none(w) ==
    /\ pc[w] = "m_list" /\ goto(w, "m_prune")
    /\ UNCHANGED <<remote, book, rows, expected, alone, solid>>

\* "Drop manual rows not re-submitted; never touch brokerage accounts."
list_positions(w) ==
    /\ pc[w] = "m_list" /\ goto(w, "m_prune")
    /\ rows' = [rows EXCEPT ![w] = @ \cup (book \ Manual)]
    /\ UNCHANGED <<remote, book, expected, alone, solid>>

set_manual_portfolio(w) ==
    \/ manual_begins(w)
    \/ upsert_positions(w, "m_upsert", "m_list")
    \/ list_positions(w)
    \/ prune_positions_except(w, "m_prune")

\* A call raises or the process stops: the writer ends where it is.
fail(w) ==
    /\ pc[w] # "idle" /\ goto(w, "idle")
    /\ rows' = [rows EXCEPT ![w] = {}]
    /\ solid' = FALSE
    /\ UNCHANGED <<remote, book, expected, alone>>

Next == trade \/ \E w \in Writer :
    sync_brokerage_positions(w) \/ set_manual_portfolio(w) \/ fail(w)

Spec == Init /\ [][Next]_vars

-----------------------------------------------------------------------------
(***************************************************************************)
(* Properties                                                              *)
(***************************************************************************)

\* Writers that ran one after the other leave what their handlers promise: after a
\* sync "positions no longer reported by SnapTrade are pruned", and a manual write
\* "replaces the user's Manual account wholesale" and leaves the rest.
BookIsLastWrite ==
    solid /\ (\A w \in Writer : pc[w] = "idle") => book = expected

=============================================================================
