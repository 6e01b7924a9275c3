------------------------------ MODULE Brokerage ------------------------------
(***************************************************************************)
(* One user's SnapTrade identity: the remote user, whose secret is issued  *)
(* once, at its registration, and the row that stores the secret.          *)
(* Registration, the status poll with its self-heal, and disconnection run *)
(* concurrently; every remote call and every statement is a step.          *)
(***************************************************************************)
EXTENDS Naturals

CONSTANTS
    Request,      \* requests under way: a bound on their number
    MaxSecret,    \* registrations: a bound
    None

VARIABLES
    remote,       \* the secret of the remote user, or None
    dying,        \* its deletion is queued
    issued,       \* secrets issued
    stored,       \* the secret in snaptrade_credentials, or None
    pc, secret,   \* per request: its place, the secret it holds
    tries         \* registrations again after a deletion

vars == <<remote, dying, issued, stored, pc, secret, tries>>
local == <<pc, secret, tries>>

Secret == 1 .. MaxSecret
_REREGISTER_ATTEMPTS == 4
Place == {"idle", "register", "delete", "again", "save", "query", "drop", "remove", "clear"}

TypeOK ==
    /\ {remote, stored} \subseteq Secret \cup {None} /\ dying \in BOOLEAN
    /\ issued \in 0 .. MaxSecret
    /\ pc \in [Request -> Place] /\ secret \in [Request -> Secret \cup {None}]
    /\ tries \in [Request -> 0 .. _REREGISTER_ATTEMPTS]

Init ==
    /\ remote = None /\ dying = FALSE /\ issued = 0 /\ stored = None
    /\ pc = [r \in Request |-> "idle"] /\ secret = [r \in Request |-> None]
    /\ tries = [r \in Request |-> 0]

goto(r, where) == pc' = [pc EXCEPT ![r] = where]
finish(r) ==
    /\ goto(r, "idle") /\ secret' = [secret EXCEPT ![r] = None]
    /\ tries' = [tries EXCEPT ![r] = 0]
begin(r, where) ==
    /\ pc[r] = "idle" /\ goto(r, where)
    /\ UNCHANGED <<remote, dying, issued, stored, tries>>

-----------------------------------------------------------------------------
(***************************************************************************)
(* SnapTrade                                                               *)
(***************************************************************************)

\* The queued deletion is carried out.
deleted ==
    /\ dying /\ dying' = FALSE /\ remote' = None
    /\ UNCHANGED <<issued, stored, local>>

\* The keys are swapped, or the user is deleted in SnapTrade's own dashboard.
lost ==
    /\ remote # None /\ remote' = None /\ dying' = FALSE
    /\ UNCHANGED <<issued, stored, local>>

\* register_user: the answer may be lost, and with it the secret.
issue(r, where) ==
    /\ remote = None /\ issued < MaxSecret
    /\ issued' = issued + 1 /\ remote' = issued' /\ UNCHANGED <<dying, stored, tries>>
    /\ \/ goto(r, where) /\ secret' = [secret EXCEPT ![r] = issued']
       \/ goto(r, "idle") /\ UNCHANGED secret

\* delete_user: the call is signed with the consumer key, and queued.
enqueue_deletion == dying' = (remote # None)

-----------------------------------------------------------------------------
(***************************************************************************)
(* POST /portfolio/snaptrade/register                                      *)
(***************************************************************************)

\* resolve_credentials: nothing is done for a user who has a row.
register_snaptrade_user(r) ==
    /\ stored = None /\ begin(r, "register") /\ UNCHANGED secret

register_user(r) ==
    /\ pc[r] = "register"
    /\ \/ issue(r, "save")
       \/ /\ remote # None /\ goto(r, "delete")
          /\ UNCHANGED <<remote, dying, issued, stored, secret, tries>>

\* user_exists: an orphaned remote user.
delete_user(r) ==
    /\ pc[r] = "delete" /\ goto(r, "again") /\ enqueue_deletion
    /\ UNCHANGED <<remote, issued, stored, secret, tries>>

\* "Deletion is queued on SnapTrade's side; give it a moment": the last try raises.
register_again(r) ==
    /\ pc[r] = "again"
    /\ \/ issue(r, "save")
       \/ /\ remote # None /\ UNCHANGED <<remote, dying, issued, stored>>
          /\ IF tries[r] = _REREGISTER_ATTEMPTS - 1 THEN finish(r)
             ELSE tries' = [tries EXCEPT ![r] = @ + 1] /\ UNCHANGED <<pc, secret>>

\* The row is inserted, or takes the new secret.
save_snaptrade_credentials(r) ==
    /\ pc[r] = "save" /\ stored' = secret[r] /\ finish(r)
    /\ UNCHANGED <<remote, dying, issued>>

register(r) ==
    \/ register_snaptrade_user(r) \/ register_user(r) \/ delete_user(r)
    \/ register_again(r) \/ save_snaptrade_credentials(r)

-----------------------------------------------------------------------------
(***************************************************************************)
(* GET /portfolio/status                                                   *)
(***************************************************************************)
portfolio_status(r) ==
    /\ stored # None /\ begin(r, "query")
    /\ secret' = [secret EXCEPT ![r] = stored]

\* Both remote calls; another error leaves the row.
query(r) ==
    /\ pc[r] = "query"
    /\ \/ secret[r] # remote /\ goto(r, "drop") /\ UNCHANGED <<secret, tries>>
       \/ finish(r)
    /\ UNCHANGED <<remote, dying, issued, stored>>

\* Mutant of drop: the row stays.
drop_nothing(r) ==
    /\ pc[r] = "drop" /\ finish(r)
    /\ UNCHANGED <<remote, dying, issued, stored>>

\* stale_user: the row goes, whatever it holds by now.
drop(r) ==
    /\ pc[r] = "drop" /\ stored' = None /\ finish(r)
    /\ UNCHANGED <<remote, dying, issued>>

status(r) == portfolio_status(r) \/ query(r) \/ drop(r)

-----------------------------------------------------------------------------
(***************************************************************************)
(* DELETE /connection                                                      *)
(***************************************************************************)
disconnect_brokerage(r) ==
    /\ stored # None /\ begin(r, "remove") /\ UNCHANGED secret

\* delete_user; an error is reported in the answer.
remove(r) ==
    /\ pc[r] = "remove" /\ goto(r, "clear")
    /\ enqueue_deletion \/ UNCHANGED dying
    /\ UNCHANGED <<remote, issued, stored, secret, tries>>

delete_snaptrade_credentials(r) ==
    /\ pc[r] = "clear" /\ stored' = None /\ finish(r)
    /\ UNCHANGED <<remote, dying, issued>>

disconnect(r) == disconnect_brokerage(r) \/ remove(r) \/ delete_snaptrade_credentials(r)

\* Another error, or a restart, ends the request where it is.
fail(r) ==
    /\ pc[r] # "idle" /\ finish(r)
    /\ UNCHANGED <<remote, dying, issued, stored>>

Next == deleted \/ lost \/ \E r \in Request : register(r) \/ status(r) \/ disconnect(r) \/ fail(r)

Spec == Init /\ [][Next]_vars

\* The onboarding page polls the status; a call that is tried again and again is
\* answered, and its handler goes on.
FairSpec ==
    /\ Spec
    /\ \A r \in Request :
        WF_vars(register_user(r) \/ delete_user(r) \/ register_again(r)
                \/ save_snaptrade_credentials(r) \/ query(r) \/ drop(r) \/ disconnect(r))
    /\ WF_vars(deleted)
    /\ SF_vars(\E r \in Request : portfolio_status(r))
    /\ SF_vars(\E r \in Request : query(r) /\ pc'[r] = "drop")
    /\ SF_vars(\E r \in Request : drop(r))

-----------------------------------------------------------------------------
(***************************************************************************)
(* Properties                                                              *)
(***************************************************************************)

\* "Drop the dead row so the onboarding UI walks the user through register + connect
\* again": a secret that SnapTrade does not know is not stored for ever, whichever
\* registrations, polls and disconnections overlapped.
DeadSecretDropped == <>[](stored \in {None, remote})
=============================================================================
