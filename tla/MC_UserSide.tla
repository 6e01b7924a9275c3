-------------------------- MODULE MC_UserSide --------------------------
\* What reaches a user: the messages that the queue sends, and the pages that ask for
\* data.  They share no variable: a behaviour is of one of them, named by part, and the
\* others stay in their initial state.
EXTENDS MC_Outbox

CONSTANTS
    PageUser, Tab, Repolls, MaxSignIns, Value, Default, MaxChanges, MaxFaults, Polls,
    Attempts, Sync, Chain, MaxAsked, Question, Try

VARIABLES
    part,        \* the component this behaviour is of
    session, deleted, cache, tab, signins, switched,
    view, chosen, focused, seq, typing, asked, shown, changes, faults, late,
    stored, section, brief_boot, repolls, card, chain, own, polls, brief_faults,
    overtaken,
    personalize, connected, imported, positions, setup_panel, poll, pollTimer,
    setup_asked, opened, sync, sync_line, projections, awaited, postures,
    request, got, bubble, run, slot

Boot == INSTANCE BootCache WITH
    User <- PageUser
View == INSTANCE Views
Brief == INSTANCE Briefing WITH
    boot <- brief_boot, faults <- brief_faults
Setup == INSTANCE Onboarding WITH
    panel <- setup_panel, asked <- setup_asked
Panel == INSTANCE WebChat

ASSUME PartsAssumption ==
    /\ Boot!BootCacheAssumption
    /\ View!ViewsAssumption
    /\ Brief!BriefingAssumption
    /\ Setup!OnboardingAssumption
    /\ Panel!WebChatAssumption

Parts == {"outbox", "boot", "inputs", "brief", "setup", "panel"}

boot_vars ==
    <<session, deleted, cache, tab, signins, switched>>
inputs_vars ==
    <<view, chosen, focused, seq, typing, asked, shown, changes, faults, late>>
brief_vars ==
    <<stored, section, brief_boot, repolls, card, chain, own, polls, brief_faults,
      overtaken>>
setup_vars ==
    <<personalize, connected, imported, positions, setup_panel, poll, pollTimer,
      setup_asked, opened, sync, sync_line, projections, awaited, postures>>
panel_vars ==
    <<request, got, bubble, run, slot>>

SumInit ==
    /\ part \in Parts
    /\ Init
    /\ Boot!Init
    /\ View!Init
    /\ Brief!Init
    /\ Setup!Init
    /\ Panel!Init
    /\ part # "inputs" => view = "search"
    /\ part # "brief" => section = "missing"
    /\ part # "setup" => personalize = FALSE /\ connected = FALSE /\ positions = FALSE

SumNext ==
    /\ UNCHANGED part
    /\ \/ /\ part = "outbox" /\ Next
          /\ UNCHANGED <<boot_vars, inputs_vars, brief_vars, setup_vars, panel_vars>>
       \/ /\ part = "boot" /\ Boot!Next
          /\ UNCHANGED <<vars, inputs_vars, brief_vars, setup_vars, panel_vars>>
       \/ /\ part = "inputs" /\ View!Next
          /\ UNCHANGED <<vars, boot_vars, brief_vars, setup_vars, panel_vars>>
       \/ /\ part = "brief" /\ Brief!Next
          /\ UNCHANGED <<vars, boot_vars, inputs_vars, setup_vars, panel_vars>>
       \/ /\ part = "setup" /\ Setup!Next
          /\ UNCHANGED <<vars, boot_vars, inputs_vars, brief_vars, panel_vars>>
       \/ /\ part = "panel" /\ Panel!Next
          /\ UNCHANGED <<vars, boot_vars, inputs_vars, brief_vars, setup_vars>>
       \/ /\ part # "outbox"   \* pages may stop; the queue never does
          /\ UNCHANGED <<vars, boot_vars, inputs_vars, brief_vars, setup_vars, panel_vars>>

all == <<part, vars, boot_vars, inputs_vars, brief_vars, setup_vars, panel_vars>>

SumSpec == SumInit /\ [][SumNext]_all

\* The fairness of each component, for the behaviours that are its own.
FairSumSpec ==
    /\ SumSpec
    /\ WF_vars(part = "outbox" /\ elapse)
    /\ \A w \in Worker : WF_vars(part = "outbox" /\ tick(w))
    /\ WF_brief_vars(part = "brief" /\ Brief!booting)
    /\ \A c \in Brief!PollChain : WF_brief_vars(part = "brief" /\ Brief!poll(c))
    /\ \A s \in Sync : WF_setup_vars(part = "setup" /\ Setup!sync_step(s))
    /\ WF_setup_vars(part = "setup" /\ Setup!projected)

-----------------------------------------------------------------------------
(***************************************************************************)
(* Properties of the instances; those of Outbox keep their names           *)
(***************************************************************************)

\* A page shows, and a browser stores, the data of the page's own user only.
ShownIsOwn == Boot!ShownIsOwn

\* A search box and a chart end up with what was chosen last.
LatestShown == part = "inputs" => View!LatestShown

\* The first briefing is shown once it is stored, if the page has not stopped polling and
\* no request of loadDigest's own is overtaken by its polls.
BriefingShown == part = "brief" => Brief!BriefingShown

\* Setup does not leave the user with a spinner.
SetupGoesOn == part = "setup" => Setup!SetupGoesOn

\* A chat question is run twice only if nothing of its stream was seen.
AnsweredOnce == Panel!AnsweredOnce
=============================================================================
