------------------------------ MODULE Briefing ------------------------------
(***************************************************************************)
(* The first briefing on the dashboard (webapp.py): onboarding lands on    *)
(* /app/dashboard?welcome=1 while POST /digest/first runs on the server,   *)
(* and the page waits for the digest in three ways at once: each bootstrap *)
(* that brings none starts a chain of polls, one that cannot say makes     *)
(* loadDigest ask for the digest by itself, and bootstraps are asked for   *)
(* again while their sections are rebuilt.                                 *)
(***************************************************************************)
EXTENDS Naturals, FiniteSets

CONSTANTS
    Polls,       \* polls after which no further one is scheduled (24 in the code)
    Repolls,     \* bootstraps asked for again (3 in the code)
    MaxFaults    \* bound: requests that fail

BriefingAssumption == Polls \in Nat \ {0} /\ {Repolls, MaxFaults} \subseteq Nat

VARIABLES
    stored,    \* today's digest is in the database
    section,   \* the digest section of the user's snapshot: "missing", "null" or "digest"
    boot,      \* the boot sequence: what it waits for, or the answer that is on its way
    repolls,   \* bootRepolls
    card,      \* the digest card: TRUE when a digest is shown
    chain,     \* the chains of polls: what each is at
    own,       \* the request of loadDigest itself that was sent as the chain was started
    polls,     \* firstBriefingPolls, one counter for all chains
    faults,
    overtaken  \* such a request brought no digest once that chain had ended (history)

server_vars == <<stored, section>>
page == <<card, chain, own, overtaken>>
vars == <<server_vars, boot, page, repolls, polls, faults>>

\* Every bootstrap that is applied may start a chain: one from the cache, the first one,
\* and those asked for again.
PollChain == 1..(Repolls + 2)

\* What a bootstrap says of the digest: "unknown" if that section failed, and of one that
\* "failed" as a whole nothing is known.
Answer == {"digest", "none", "unknown", "failed"}

TypeOK ==
    /\ stored \in BOOLEAN /\ section \in {"missing", "null", "digest"}
    /\ boot \in [at : {"cached", "fetch", "answered", "timer", "over"}, answer : Answer]
    /\ repolls \in 0..Repolls /\ card \in BOOLEAN
    /\ chain \in [PollChain -> {"unused", "timer", "found", "missed", "ended"}]
    /\ own \in [PollChain -> {"unused", "asked", "digest", "none", "over"}]
    /\ overtaken \in BOOLEAN
    /\ polls \in 0..(Polls + Cardinality(PollChain)) /\ faults \in 0..MaxFaults

Init ==
    /\ stored = FALSE /\ section \in {"missing", "null"}
    /\ boot = [at |-> "cached", answer |-> "none"]
    /\ repolls = 0 /\ card = FALSE
    /\ chain = [c \in PollChain |-> "unused"] /\ own = chain /\ polls = 0 /\ faults = 0
    /\ overtaken = FALSE

-----------------------------------------------------------------------------
(***************************************************************************)
(* The server                                                              *)
(***************************************************************************)

\* The pipeline stores the digest; digest_first invalidates the section after it.
store_digest ==
    /\ ~stored /\ stored' = TRUE
    /\ UNCHANGED <<section, boot, page, repolls, polls, faults>>

invalidate ==
    /\ stored /\ section = "null" /\ section' = "missing"
    /\ UNCHANGED <<stored, boot, page, repolls, polls, faults>>

\* A rebuild in the background, of a section past its time.
rebuild ==
    /\ section # "missing" /\ section' = (IF stored THEN "digest" ELSE "null")
    /\ UNCHANGED <<stored, boot, page, repolls, polls, faults>>

\* GET /dashboard/bootstrap: a section that is there is served, one that is missing is
\* built, and may fail.
bootstrap ==
    LET built == IF stored THEN "digest" ELSE "null"
        of(s) == IF s = "digest" THEN "digest" ELSE "none" IN
    /\ boot.at = "fetch"
    /\ \/ /\ section # "missing"
          /\ boot' = [at |-> "answered", answer |-> of(section)] /\ UNCHANGED <<section, faults>>
       \/ /\ section = "missing" /\ section' = built
          /\ boot' = [at |-> "answered", answer |-> of(built)] /\ UNCHANGED faults
       \/ /\ faults < MaxFaults /\ faults' = faults + 1
          /\ \/ boot' = [at |-> "answered", answer |-> "failed"]
             \/ section = "missing" /\ boot' = [at |-> "answered", answer |-> "unknown"]
          /\ UNCHANGED section
    /\ UNCHANGED <<stored, page, repolls, polls>>

-----------------------------------------------------------------------------
(***************************************************************************)
(* The page                                                                *)
(***************************************************************************)

unused == CHOOSE c \in PollChain : chain[c] = "unused"

\* Mutant of applyBootstrap: only the first bootstrap without a digest starts a chain.
applyBootstrap_once(answer) ==
    /\ card' = IF answer = "unknown" THEN card ELSE answer = "digest"
    /\ IF answer = "digest" \/ \E c \in PollChain : chain[c] # "unused"
       THEN UNCHANGED <<chain, own>>
       ELSE /\ chain' = [chain EXCEPT ![unused] = "timer"]
            /\ own' = IF answer = "unknown" THEN [own EXCEPT ![unused] = "asked"] ELSE own

\* loadDigest(data), and a chain of polls when data is no digest; loadDigest without data
\* sends a request and leaves the card as it is.
applyBootstrap(answer) ==
    /\ card' = IF answer = "unknown" THEN card ELSE answer = "digest"
    /\ IF answer = "digest" THEN UNCHANGED <<chain, own>>
       ELSE /\ chain' = [chain EXCEPT ![unused] = "timer"]
            /\ own' = IF answer = "unknown" THEN [own EXCEPT ![unused] = "asked"] ELSE own

\* The payload of an earlier visit is painted first, when there is one.
cached ==
    /\ boot.at = "cached"
    /\ applyBootstrap("none") \/ applyBootstrap("unknown") \/ UNCHANGED <<card, chain, own>>
    /\ boot' = [boot EXCEPT !.at = "fetch"]
    /\ UNCHANGED <<server_vars, repolls, polls, faults, overtaken>>

\* fetchBootstrap: the answer is applied; while sections are refreshing it is asked for
\* again.  The first one that fails is applied as null, later ones are dropped.
fetchBootstrap ==
    /\ boot.at = "answered"
    /\ \/ boot.answer # "failed" /\ applyBootstrap(boot.answer)
       \/ boot.answer = "failed" /\ repolls = 0 /\ applyBootstrap("unknown")
       \/ boot.answer = "failed" /\ repolls > 0 /\ UNCHANGED <<card, chain, own>>
    /\ \/ boot.answer # "failed" /\ repolls < Repolls /\ repolls' = repolls + 1
          /\ boot' = [boot EXCEPT !.at = "timer"]
       \/ boot' = [boot EXCEPT !.at = "over"] /\ UNCHANGED repolls
    /\ UNCHANGED <<server_vars, polls, faults, overtaken>>

\* The server reads for loadDigest's own request, or the request fails.
digest_latest(c) ==
    /\ own[c] = "asked"
    /\ \/ own' = [own EXCEPT ![c] = IF stored THEN "digest" ELSE "none"] /\ UNCHANGED faults
       \/ /\ faults < MaxFaults /\ faults' = faults + 1
          /\ own' = [own EXCEPT ![c] = "none"]
    /\ UNCHANGED <<server_vars, boot, repolls, card, chain, polls, overtaken>>

\* Its answer arrives, however late; noDigest hides what another one has shown.
loadDigest(c) ==
    /\ own[c] \in {"digest", "none"} /\ own' = [own EXCEPT ![c] = "over"]
    /\ card' = (own[c] = "digest")
    /\ overtaken' = (overtaken \/ (own[c] = "none" /\ chain[c] = "ended"))
    /\ UNCHANGED <<server_vars, boot, repolls, chain, polls, faults>>

repoll ==
    /\ boot.at = "timer" /\ boot' = [boot EXCEPT !.at = "fetch"]
    /\ UNCHANGED <<server_vars, page, repolls, polls, faults>>

\* tick of pollFirstBriefing: GET /digest/latest, or a failure.
tick(c) ==
    /\ chain[c] = "timer" /\ polls' = polls + 1
    /\ \/ chain' = [chain EXCEPT ![c] = IF stored THEN "found" ELSE "missed"] /\ UNCHANGED faults
       \/ /\ faults < MaxFaults /\ faults' = faults + 1
          /\ chain' = [chain EXCEPT ![c] = "missed"]
    /\ UNCHANGED <<server_vars, boot, repolls, card, own, overtaken>>

found(c) ==
    /\ chain[c] = "found" /\ card' = TRUE
    /\ chain' = [chain EXCEPT ![c] = "ended"]
    /\ UNCHANGED <<server_vars, boot, repolls, own, polls, faults, overtaken>>

missed(c) ==
    /\ chain[c] = "missed"
    /\ chain' = [chain EXCEPT ![c] = IF polls < Polls THEN "timer" ELSE "ended"]
    /\ UNCHANGED <<server_vars, boot, repolls, card, own, polls, faults, overtaken>>

poll(c) == tick(c) \/ found(c) \/ missed(c)
booting == cached \/ bootstrap \/ fetchBootstrap \/ repoll

Next ==
    \/ store_digest \/ invalidate \/ rebuild \/ booting
    \/ \E c \in PollChain : poll(c) \/ digest_latest(c) \/ loadDigest(c)

Spec == Init /\ [][Next]_vars

\* Bootstraps and polls are answered or fail, and timers fire; a request of loadDigest may
\* stay without an answer.
FairSpec ==
    /\ Spec /\ WF_vars(booting)
    /\ \A c \in PollChain : WF_vars(poll(c))

-----------------------------------------------------------------------------
\* A digest that is stored while the page still polls is shown for good, although a
\* bootstrap that was answered before may hide it again; only a page that has used up
\* its polls waits in vain, or one on which loadDigest's own request, sent before the digest
\* was stored or failed, comes back after the chain that was started with it has ended.
BriefingShown ==
    []<>stored => <>[]card \/ <>(polls >= Polls) \/ <>overtaken
=============================================================================
