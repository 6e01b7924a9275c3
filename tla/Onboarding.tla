----------------------------- MODULE Onboarding -----------------------------
(***************************************************************************)
(* The setup page (webapp.py, _ONBOARDING_JS): seven panels, and the       *)
(* requests and timers that move the user between them on their own: the   *)
(* status poll, the "I've connected" click and the check at load, each of  *)
(* which may start a sync, the sync's retries, and the projections, which  *)
(* are fetched once and awaited by the risk picker.                        *)
(***************************************************************************)
EXTENDS Naturals, FiniteSets

CONSTANTS
    Attempts,   \* retries of a sync while the brokerage imports (8 in the code)
    Sync,       \* syncs under way at a time (bound)
    Chain,      \* chains of status polls (bound)
    MaxAsked,   \* bound: other requests of the page under way at a time
    None

OnboardingAssumption == {Attempts, MaxAsked} \subseteq Nat /\ None \notin Chain

VARIABLES
    personalize,   \* the page is opened to repeat the profile only
    connected,     \* the server: a brokerage is linked
    imported,      \* its accounts have been imported
    positions,     \* the account has positions
    panel,         \* the panel that is shown; "left" when the page is
    poll,          \* poll[c]: "none", "timer", "asked" or "sync" (it awaits a runSync)
    pollTimer,     \* the chain whose timer is kept, or None
    asked,         \* requests of the page under way, by what they are for
    opened,        \* the connection link was opened: "I've connected" is shown
    sync,          \* sync[s]: at, attempt, and the chain that awaits its first attempt
    sync_line,     \* panel-sync shows "spinner" or "retry"
    projections,   \* projectionsPromise: "none", "pending", "ok" or "failed"
    awaited,       \* showRiskPicker awaits it
    postures       \* panel-risk-picker shows "spinner", "retry" or "cards"

server_vars == <<connected, imported, positions>>
poll_vars == <<poll, pollTimer>>
risk_vars == <<projections, awaited, postures>>
vars == <<personalize, server_vars, panel, poll_vars, asked, opened, sync, sync_line, risk_vars>>

Panel == {"profile", "connect", "sync", "risk", "watchlist", "prefs", "delivery", "left"}
Asked == {"load", "fresh", "profile", "link", "manual", "continue", "watchlist", "prefs", "finish"}
Rest == [at |-> "none", attempt |-> 0, by |-> None]

TypeOK ==
    /\ {personalize, connected, imported, positions, opened, awaited} \subseteq BOOLEAN
    /\ panel \in Panel /\ asked \subseteq Asked
    /\ poll \in [Chain -> {"none", "timer", "asked", "sync"}] /\ pollTimer \in Chain \cup {None}
    /\ sync \in [Sync -> [at : {"none", "posted", "timer"}, attempt : 0..Attempts,
                          by : Chain \cup {None}]]
    /\ sync_line \in {"spinner", "retry"}
    /\ projections \in {"none", "pending", "ok", "failed"}
    /\ postures \in {"spinner", "retry", "cards"}

\* The check at load is on its way, and with it, when only the profile is repeated, the
\* prewarm of the projections.
Init ==
    /\ personalize \in BOOLEAN /\ connected \in BOOLEAN /\ imported = FALSE
    /\ positions \in BOOLEAN
    /\ panel = "profile" /\ poll = [c \in Chain |-> "none"] /\ pollTimer = None
    /\ asked = {"load"} /\ opened = FALSE
    /\ sync = [s \in Sync |-> Rest] /\ sync_line = "spinner"
    /\ projections = "none" /\ awaited = FALSE /\ postures = "spinner"

here == panel # "left"
asks(what) == Cardinality(asked) < MaxAsked /\ asked' = asked \cup {what}
showPanel(p) == panel' = p

\* The brokerage is linked in the other tab, and its accounts are imported.
link ==
    /\ ~connected /\ opened /\ connected' = TRUE
    /\ UNCHANGED <<personalize, imported, positions, panel, poll_vars, asked, opened, sync,
                   sync_line, risk_vars>>

import ==
    /\ connected /\ ~imported /\ imported' = TRUE
    /\ UNCHANGED <<personalize, connected, positions, panel, poll_vars, asked, opened, sync,
                   sync_line, risk_vars>>

-----------------------------------------------------------------------------
(***************************************************************************)
(* The sync                                                                *)
(***************************************************************************)

FreeSync == {s \in Sync : sync[s] = Rest}

\* runSync: the panel is shown, as it was before any failure, and POST /portfolio/sync.
runSync(s, attempt, by) ==
    /\ showPanel("sync") /\ sync_line' = "spinner"
    /\ sync' = [sync EXCEPT ![s] = [at |-> "posted", attempt |-> attempt, by |-> by]]

\* A chain that awaited the attempt goes on, if polling was started again in between.
resumes(c) ==
    IF c = None THEN UNCHANGED poll_vars
    ELSE /\ poll' = [poll EXCEPT ![c] = IF pollTimer = None THEN "none" ELSE "timer"]
         /\ pollTimer' = IF pollTimer = None THEN None ELSE c

startProjections == IF projections = "none" THEN "pending" ELSE projections

\* showRiskPicker, which awaits the promise that is there, an older one too.
showRiskPicker(promise) ==
    /\ showPanel("risk") /\ projections' = promise
    /\ awaited' = (promise = "pending")
    /\ postures' = CASE promise = "ok" -> "cards"
                     [] promise = "failed" -> "retry"
                     [] OTHER -> "spinner"

\* Mutant of next_attempt: the attempts are not counted.
next_attempt_not_counted(n) == n

next_attempt(n) == n + 1

\* The answer of the sync: the positions; no accounts yet, asked again 8 s later; or a
\* failure, with a button to try again.
synced(s) ==
    /\ here /\ sync[s].at = "posted" /\ connected /\ imported
    /\ positions' = TRUE
    /\ sync' = [sync EXCEPT ![s] = Rest]
    /\ resumes(sync[s].by)
    /\ showRiskPicker(startProjections)
    /\ UNCHANGED <<personalize, connected, imported, asked, opened, sync_line>>

no_accounts(s) ==
    /\ here /\ sync[s].at = "posted" /\ ~imported /\ sync[s].attempt < Attempts
    /\ sync' = [sync EXCEPT ![s].at = "timer", ![s].by = None]
    /\ resumes(sync[s].by)
    /\ UNCHANGED <<personalize, server_vars, panel, asked, opened, sync_line, risk_vars>>

sync_fails(s) ==
    /\ here /\ sync[s].at = "posted"
    /\ sync' = [sync EXCEPT ![s] = Rest] /\ sync_line' = "retry"
    /\ resumes(sync[s].by)
    /\ UNCHANGED <<personalize, server_vars, panel, asked, opened, risk_vars>>

sync_again(s) ==
    /\ here /\ sync[s].at = "timer"
    /\ runSync(s, next_attempt(sync[s].attempt), None)
    /\ UNCHANGED <<personalize, server_vars, poll_vars, asked, opened, risk_vars>>

sync_retry(s) ==
    /\ panel = "sync" /\ sync_line = "retry" /\ s \in FreeSync
    /\ runSync(s, 0, None)
    /\ UNCHANGED <<personalize, server_vars, poll_vars, asked, opened, risk_vars>>

-----------------------------------------------------------------------------
(***************************************************************************)
(* The connection and its status                                           *)
(***************************************************************************)

\* connect-btn, disabled while its two requests are under way.
connect ==
    /\ panel = "connect" /\ "link" \notin asked
    /\ asks("link")
    /\ UNCHANGED <<personalize, server_vars, panel, poll_vars, opened, sync, sync_line, risk_vars>>

\* The link is opened and the poll started, unless it runs.
startStatusPoll ==
    IF pollTimer # None THEN UNCHANGED poll_vars
    ELSE \E c \in Chain :
           /\ poll[c] = "none"
           /\ poll' = [poll EXCEPT ![c] = "timer"] /\ pollTimer' = c

connect_url ==
    /\ here /\ "link" \in asked /\ asked' = asked \ {"link"}
    /\ \/ opened' = TRUE /\ startStatusPoll
       \/ UNCHANGED <<opened, poll_vars>>
    /\ UNCHANGED <<personalize, server_vars, panel, sync, sync_line, risk_vars>>

\* Only the timer that is kept is cleared.
stopped ==
    [c \in Chain |-> IF c = pollTimer /\ poll[c] = "timer" THEN "none" ELSE poll[c]]

\* tick: the status is asked for.
tick(c) ==
    /\ here /\ poll[c] = "timer"
    /\ poll' = [poll EXCEPT ![c] = "asked"]
    /\ UNCHANGED <<personalize, server_vars, panel, pollTimer, asked, opened, sync, sync_line,
                   risk_vars>>

\* Not connected, as far as the server's cache knows, or no answer.
not_yet(c) ==
    /\ here /\ poll[c] = "asked"
    /\ resumes(c)
    /\ UNCHANGED <<personalize, server_vars, panel, asked, opened, sync, sync_line, risk_vars>>

pollStatus(c, s) ==
    /\ here /\ poll[c] = "asked" /\ connected /\ s \in FreeSync
    /\ poll' = [stopped EXCEPT ![c] = "sync"] /\ pollTimer' = None
    /\ runSync(s, 0, c)
    /\ UNCHANGED <<personalize, server_vars, asked, opened, risk_vars>>

\* connected-btn is not disabled: it may be clicked while the poll is asking.
connected_click ==
    /\ panel = "connect" /\ opened /\ "fresh" \notin asked
    /\ asks("fresh")
    /\ UNCHANGED <<personalize, server_vars, panel, poll_vars, opened, sync, sync_line, risk_vars>>

fresh_status ==
    /\ here /\ "fresh" \in asked /\ asked' = asked \ {"fresh"}
    /\ \/ /\ connected /\ poll' = stopped /\ pollTimer' = None
          /\ \E s \in FreeSync : runSync(s, 0, None)
       \/ UNCHANGED <<poll_vars, panel, sync, sync_line>>
    /\ UNCHANGED <<personalize, server_vars, opened, risk_vars>>

\* The check at load: a sync, or the prewarm of the projections.
load_status ==
    /\ here /\ "load" \in asked /\ asked' = asked \ {"load"}
    /\ \/ /\ ~personalize /\ connected
          /\ \E s \in FreeSync : runSync(s, 0, None)
          /\ UNCHANGED projections
       \/ /\ personalize /\ (connected \/ positions)
          /\ projections' = startProjections
          /\ UNCHANGED <<panel, sync, sync_line>>
       \/ UNCHANGED <<panel, sync, sync_line, projections>>
    /\ UNCHANGED <<personalize, server_vars, poll_vars, opened, awaited, postures>>

\* Holdings entered by hand: the poll stops, and the picker follows as after a sync.
manual_save ==
    /\ panel = "connect" /\ "manual" \notin asked
    /\ asks("manual")
    /\ UNCHANGED <<personalize, server_vars, panel, poll_vars, opened, sync, sync_line, risk_vars>>

manual_saved ==
    /\ here /\ "manual" \in asked /\ asked' = asked \ {"manual"}
    /\ \/ /\ positions' = TRUE
          /\ poll' = stopped /\ pollTimer' = None
          /\ showRiskPicker(startProjections)
       \/ UNCHANGED <<positions, poll_vars, panel, risk_vars>>
    /\ UNCHANGED <<personalize, connected, imported, opened, sync, sync_line>>

-----------------------------------------------------------------------------
(***************************************************************************)
(* The profile and the risk picker                                         *)
(***************************************************************************)

\* The last question is answered or skipped.
leaveProfilePanel ==
    /\ panel = "profile"
    /\ \/ ~personalize /\ showPanel("connect") /\ UNCHANGED asked
       \/ personalize /\ asks("profile") /\ UNCHANGED panel
    /\ UNCHANGED <<personalize, server_vars, poll_vars, opened, sync, sync_line, risk_vars>>

profile_status ==
    /\ here /\ "profile" \in asked /\ asked' = asked \ {"profile"}
    /\ \/ (connected \/ positions) /\ showRiskPicker(startProjections)
       \/ showPanel("connect") /\ UNCHANGED risk_vars
    /\ UNCHANGED <<personalize, server_vars, poll_vars, opened, sync, sync_line>>

projected ==
    /\ here /\ projections = "pending"
    /\ \/ projections' = "ok" /\ postures' = IF awaited THEN "cards" ELSE postures
       \/ projections' = "failed" /\ postures' = IF awaited THEN "retry" ELSE postures
    /\ awaited' = FALSE
    /\ UNCHANGED <<personalize, server_vars, panel, poll_vars, asked, opened, sync, sync_line>>

posture_retry ==
    /\ panel = "risk" /\ postures = "retry"
    /\ showRiskPicker("pending")
    /\ UNCHANGED <<personalize, server_vars, poll_vars, asked, opened, sync, sync_line>>

-----------------------------------------------------------------------------
(***************************************************************************)
(* The steps that follow                                                   *)
(***************************************************************************)

\* A click that starts a request: submitProfileAndContinue, from the cards or the link to
\* skip them; watchlist-btn; prefs-btn; finishOnboarding when a code was accepted.
ask(p, what) ==
    /\ panel = p /\ asks(what)
    /\ UNCHANGED <<personalize, server_vars, panel, poll_vars, opened, sync, sync_line, risk_vars>>

submit == \/ ask("risk", "continue") \/ ask("watchlist", "watchlist")
          \/ ask("prefs", "prefs") \/ ask("delivery", "finish")

\* afterSync, finishOnboarding and the redirect of a repeated profile go on whatever
\* their requests answer; the saves show an error and stay.
answered(what, panels) ==
    /\ here /\ what \in asked /\ asked' = asked \ {what}
    /\ panel' \in panels
    /\ UNCHANGED <<personalize, server_vars, poll_vars, opened, sync, sync_line, risk_vars>>

afterSync == answered("continue", IF personalize THEN {"left"} ELSE {"watchlist", "prefs"})
saved == answered("watchlist", {panel, "prefs"}) \/ answered("prefs", {panel, "delivery"})
finishOnboarding == answered("finish", {"left"})

Next ==
    \/ link \/ import
    \/ \E s \in Sync : synced(s) \/ no_accounts(s) \/ sync_fails(s) \/ sync_again(s)
                       \/ sync_retry(s) \/ \E c \in Chain : pollStatus(c, s)
    \/ connect \/ connect_url \/ connected_click \/ fresh_status \/ load_status
    \/ \E c \in Chain : tick(c) \/ not_yet(c)
    \/ manual_save \/ manual_saved \/ leaveProfilePanel \/ profile_status
    \/ projected \/ posture_retry
    \/ submit \/ afterSync \/ saved \/ finishOnboarding

Spec == Init /\ [][Next]_vars

sync_step(s) == synced(s) \/ no_accounts(s) \/ sync_fails(s) \/ sync_again(s)

\* The sync and the projections are answered, or fail, and timers fire; nothing is
\* promised of the user, of the brokerage, or of the other requests.
FairSpec ==
    /\ Spec
    /\ \A s \in Sync : WF_vars(sync_step(s))
    /\ WF_vars(projected)

-----------------------------------------------------------------------------
\* A spinner without an exit does not stay: however the checks, clicks and retries that
\* start syncs overlap, and though the brokerage may never finish its import, the panel
\* goes on or offers to try again; and the risk picker shows its cards or a button.
SetupGoesOn ==
    []<>~(\/ panel = "sync" /\ sync_line = "spinner"
          \/ panel = "risk" /\ postures = "spinner")
=============================================================================
