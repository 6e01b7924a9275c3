------------------------------- MODULE Account -------------------------------
(***************************************************************************)
(* One person's account: provisioning at the first request of a token, the *)
(* in-process caches in front of it, DELETE /me and the tombstone that     *)
(* keeps a deleted account's tokens from bringing it back, and the         *)
(* subscription that has to die with the account.  Every await is a step.  *)
(***************************************************************************)
EXTENDS Naturals, FiniteSets

CONSTANTS
    Req,          \* concurrent requests
    MaxTime,      \* bound: seconds; a token is the second of its iat
    MaxUser       \* bound: accounts provisioned for the auth uid

ASSUME AccountAssumption == {MaxTime, MaxUser} \subseteq Nat

NoUser == 0       \* None, where a user id is meant
NoIat == 0        \* a token whose claims came from the cache has no iat
NoTime == 0

VARIABLES
    clock,
    account,      \* the users.id that carries the auth uid
    users,        \* ids given out: the last one is the account's, while there is one
    born,         \* the token that provisioned the account (history)
    blocking,     \* rows of the account's in a table that delete_user_data leaves out:
                  \* notable_investor_follows, forecasts
    tombstone,    \* deleted_auth_ids.deleted_at
    row_sub,      \* users.stripe_subscription_id is set
    stripe,       \* the subscription at Stripe
    payer,        \* the user id in the subscription's metadata
    verified,     \* authcache._verified_tokens
    user_ids,     \* authcache._user_ids at the auth uid
    pc, token, iat, uid,    \* per request: its place, credential and identity
    found,        \* found[r]: what DELETE /me read of the account's row
    deleted,      \* when the last account was deleted (history)
    unmarked,     \* that deletion has left no tombstone yet (history)
    returned,     \* the account was provisioned while unmarked (history)
    planted,      \* the cached id was put by a request older than the deletion (history)
    spoiled,      \* tokens whose iat was lost before they could provision (history)
    outlived      \* the deletion had not read the current subscription (history)

db == <<account, users, born, blocking, tombstone, row_sub>>
billing == <<stripe, payer>>
cache == <<verified, user_ids>>
request == <<pc, token, iat, uid, found>>
history == <<deleted, unmarked, returned, planted, spoiled, outlived>>
most_history == <<deleted, unmarked, returned, planted, outlived>>
vars == <<clock, db, billing, cache, request, history>>

Time == 1..MaxTime
UserId == 1..MaxUser
Pc == {"idle", "verify", "provision", "put_user_id", "bound", "checkout",
       "cancel", "delete", "tombstone", "evict"}

TypeOK ==
    /\ clock \in Time
    /\ account \in UserId \cup {NoUser}
    /\ users \in 0..MaxUser /\ born \in Time \cup {NoTime}
    /\ blocking \in BOOLEAN
    /\ tombstone \in Time \cup {NoTime}
    /\ row_sub \in BOOLEAN
    /\ stripe \in {"none", "open", "active", "canceled"}
    /\ payer \in UserId \cup {NoUser}
    /\ verified \subseteq Time
    /\ user_ids \in UserId \cup {NoUser}
    /\ pc \in [Req -> Pc]
    /\ token \in [Req -> Time \cup {NoTime}]
    /\ iat \in [Req -> Time \cup {NoIat}]
    /\ uid \in [Req -> UserId \cup {NoUser}]
    /\ found \in [Req -> {"nothing", "auth_id", "subscription"}]
    /\ deleted \in Time \cup {NoTime}
    /\ {unmarked, returned, planted, outlived} \subseteq BOOLEAN
    /\ spoiled \subseteq Time 

Init ==
    /\ clock = 1
    /\ account = NoUser
    /\ users = 0 /\ born = NoTime
    /\ blocking = FALSE /\ tombstone = NoTime /\ row_sub = FALSE
    /\ stripe = "none" /\ payer = NoUser
    /\ verified = {} /\ user_ids = NoUser
    /\ pc = [r \in Req |-> "idle"]
    /\ token = [r \in Req |-> NoTime]
    /\ iat = [r \in Req |-> NoIat]
    /\ uid = [r \in Req |-> NoUser]
    /\ found = [r \in Req |-> "nothing"]
    /\ deleted = NoTime
    /\ unmarked = FALSE /\ returned = FALSE /\ planted = FALSE /\ outlived = FALSE
    /\ spoiled = {}

goto(r, where) == pc' = [pc EXCEPT ![r] = where]

\* Only a token newer than the deletion can be one of a new sign-in.
spoil(t) == spoiled' = IF t > deleted /\ deleted # NoTime THEN spoiled \cup {t} ELSE spoiled

\* The request of r ends, whatever it answered.
answer(r) ==
    /\ goto(r, "idle")
    /\ token' = [token EXCEPT ![r] = NoTime]
    /\ iat' = [iat EXCEPT ![r] = NoIat]
    /\ uid' = [uid EXCEPT ![r] = NoUser]
    /\ found' = [found EXCEPT ![r] = "nothing"]

-----------------------------------------------------------------------------
(***************************************************************************)
(* require_auth                                                            *)
(***************************************************************************)

\* _bind_user with a cached id, else the way to the database.
get_user_id(r, t) ==
    /\ uid' = [uid EXCEPT ![r] = user_ids]
    /\ IF user_ids \notin {NoUser, account} THEN spoil(t) ELSE UNCHANGED spoiled
    /\ goto(r, IF user_ids # NoUser THEN "bound" ELSE "provision")

\* A request with an unexpired token; a cached verification gives no iat.
require_auth(r, t) ==
    /\ pc[r] = "idle" /\ t <= clock
    /\ token' = [token EXCEPT ![r] = t]
    /\ IF t \in verified THEN get_user_id(r, t)
                        ELSE goto(r, "verify") /\ UNCHANGED <<uid, spoiled>>
    /\ UNCHANGED <<clock, db, billing, cache, iat, found, most_history>>

\* Mutant of put_verified: the iat is lost.
put_verified_undated(r) ==
    /\ pc[r] = "verify"
    /\ verified' = verified \cup {token[r]}
    /\ get_user_id(r, token[r])
    /\ UNCHANGED <<clock, db, billing, user_ids, token, iat, found, most_history>>

\* verify_supabase_jwt ran off-loop: its claims enter the cache.
put_verified(r) ==
    /\ pc[r] = "verify"
    /\ iat' = [iat EXCEPT ![r] = token[r]]
    /\ verified' = verified \cup {token[r]}
    /\ get_user_id(r, token[r])
    /\ UNCHANGED <<clock, db, billing, user_ids, token, found, most_history>>

\* DeletedAccountError: "a token we cannot date is not evidence of a new sign-in".
Refused(r) == tombstone # NoTime /\ (iat[r] = NoIat \/ iat[r] <= tombstone)

\* get_or_create_user, one transaction; the database may also fail it.
get_or_create_user(r) ==
    /\ pc[r] = "provision"
    /\ \/ /\ account # NoUser
          /\ uid' = [uid EXCEPT ![r] = account] /\ goto(r, "put_user_id")
          /\ UNCHANGED <<db, token, iat, found, returned, spoiled>>
       \/ /\ account = NoUser /\ ~Refused(r)
          /\ users < MaxUser /\ users' = users + 1 /\ account' = users'
          /\ born' = token[r] /\ uid' = [uid EXCEPT ![r] = account']
          /\ tombstone' = NoTime /\ blocking' = FALSE /\ row_sub' = FALSE
          /\ returned' = unmarked
          /\ goto(r, "put_user_id") /\ UNCHANGED <<token, iat, found, spoiled>>
       \/ account = NoUser /\ Refused(r) /\ answer(r) /\ UNCHANGED <<db, returned, spoiled>>
       \/ answer(r) /\ spoil(token[r]) /\ UNCHANGED <<db, returned>>
    /\ UNCHANGED <<clock, billing, cache, deleted, unmarked, planted, outlived>>

put_user_id(r) ==
    /\ pc[r] = "put_user_id" /\ goto(r, "bound")
    /\ user_ids' = uid[r]
    /\ planted' = (uid[r] # account)
    /\ UNCHANGED <<clock, db, billing, verified, token, iat, uid, found,
                   deleted, unmarked, returned, spoiled, outlived>>

-----------------------------------------------------------------------------
(***************************************************************************)
(* What a bound request and the jobs do with the account.  A statement for *)
(* an id that is gone changes nothing: no row is found, or its foreign key *)
(* refuses the insert.                                                     *)
(***************************************************************************)
finish(r) ==
    /\ pc[r] = "bound" /\ answer(r)
    /\ UNCHANGED <<clock, db, billing, cache, history>>

\* POST and DELETE /notable-trades/follows.
follow(r) ==
    /\ pc[r] = "bound" /\ answer(r)
    /\ uid[r] = account
    /\ \/ account # NoUser /\ blocking' = TRUE
       \/ blocking' \in {blocking, FALSE}          \* other rows may be left
    /\ UNCHANGED <<clock, account, users, born, tombstone, row_sub, billing, cache, history>>

\* The nightly ledger files a claim under a run of the user's.
insert_forecasts ==
    /\ account # NoUser
    /\ blocking' = TRUE
    /\ UNCHANGED <<clock, account, users, born, tombstone, row_sub, billing, cache, request, history>>

\* billing_checkout looks at the row, then opens a session at Stripe.
billing_checkout(r) ==
    /\ pc[r] = "bound" /\ uid[r] = account /\ account # NoUser /\ ~row_sub
    /\ goto(r, "checkout")
    /\ UNCHANGED <<clock, db, billing, cache, token, iat, uid, found, history>>

create_checkout_session(r) ==
    /\ pc[r] = "checkout" /\ goto(r, "idle")
    /\ token' = [token EXCEPT ![r] = NoTime]
    /\ iat' = [iat EXCEPT ![r] = NoIat]
    /\ uid' = [uid EXCEPT ![r] = NoUser]
    /\ found' = [q \in Req |-> IF found[q] = "subscription" THEN "auth_id" ELSE found[q]]
    /\ stripe \in {"none", "canceled"}
    /\ stripe' = "open" /\ payer' = uid[r]
    /\ outlived' = (uid[r] # account)
    /\ UNCHANGED <<clock, db, cache, deleted, unmarked, returned, planted, spoiled>>

\* The user completes the session.
pay ==
    /\ stripe = "open" /\ stripe' = "active"
    /\ UNCHANGED <<clock, db, payer, cache, request, history>>

\* The webhook: the row follows the subscription; an unknown customer is ignored.
sync_subscription ==
    /\ stripe \in {"active", "canceled"}
    /\ payer = account /\ account # NoUser
    /\ row_sub' = (stripe = "active")
    /\ UNCHANGED <<clock, account, users, born, blocking, tombstone, billing, cache, request, history>>

-----------------------------------------------------------------------------
(***************************************************************************)
(* DELETE /me                                                              *)
(***************************************************************************)

\* delete_me up to its decision: get_user of an id that is gone finds nothing.
delete_me(r) ==
    /\ pc[r] = "bound"
    /\ found' = [found EXCEPT ![r] = CASE uid[r] # account -> "nothing"
                                        [] uid[r] = account /\ row_sub -> "subscription"
                                        [] OTHER -> "auth_id"]
    /\ goto(r, IF found'[r] = "subscription" THEN "cancel" ELSE "delete")
    /\ UNCHANGED <<clock, db, billing, cache, token, iat, uid, history>>

\* Mutant of cancel_subscription: a failed cancellation does not stop the deletion.
cancel_anyway(r) ==
    /\ pc[r] = "cancel"
    /\ \/ stripe' = "canceled" /\ stripe = "active"
       \/ UNCHANGED stripe
    /\ goto(r, "delete")
    /\ UNCHANGED <<clock, db, payer, cache, token, iat, uid, found, history>>

\* "Abort on failure rather than leave a paying zombie behind."
cancel_subscription(r) ==
    /\ pc[r] = "cancel"
    /\ \/ /\ stripe = "active" /\ stripe' = "canceled" /\ goto(r, "delete")
          /\ UNCHANGED <<token, iat, uid, found>>
       \/ answer(r) /\ UNCHANGED stripe
    /\ UNCHANGED <<clock, db, payer, cache, history>>

\* A row of a table that delete_user_data does not name fails the transaction.
Blocked(r) == uid[r] = account /\ blocking

delete_user_data(r) ==
    /\ pc[r] = "delete"
    /\ \/ answer(r) /\ UNCHANGED <<db, deleted, unmarked, outlived, returned, spoiled>>
          \* blocked, or the database fails
       \/ /\ uid[r] = account /\ ~Blocked(r) /\ goto(r, "tombstone")
          /\ account' = NoUser /\ born' = NoTime /\ row_sub' = FALSE
          /\ deleted' = clock /\ unmarked' = TRUE /\ returned' = FALSE /\ spoiled' = {}
          /\ outlived' = IF payer = uid[r] THEN found[r] # "subscription" ELSE outlived
          /\ UNCHANGED <<users, blocking, tombstone, token, iat, uid, found>>
       \/ /\ uid[r] # account
          /\ goto(r, IF found[r] # "nothing" THEN "tombstone" ELSE "evict")
          /\ UNCHANGED <<db, deleted, unmarked, outlived, returned, spoiled,
                         token, iat, uid, found>>
    /\ UNCHANGED <<clock, billing, cache, planted>>

tombstone_auth_id(r) ==
    /\ pc[r] = "tombstone" /\ goto(r, "evict")
    /\ tombstone' = clock /\ unmarked' = FALSE
    /\ UNCHANGED <<clock, account, users, born, blocking, row_sub, billing, cache,
                   token, iat, uid, found,
                   deleted, returned, planted, spoiled, outlived>>

\* evict_user, evict_tokens_for: no-ops without the auth uid.
evict(r) ==
    /\ pc[r] = "evict" /\ answer(r)
    /\ IF found[r] # "nothing" THEN verified' = {} /\ user_ids' = NoUser /\ planted' = FALSE
                     ELSE UNCHANGED <<cache, planted>>
    /\ UNCHANGED <<clock, db, billing, deleted, unmarked, returned, spoiled, outlived>>

-----------------------------------------------------------------------------
\* The process restarts: requests and caches are gone.
restart ==
    /\ verified' = {} /\ user_ids' = NoUser /\ planted' = FALSE
    /\ pc' = [r \in Req |-> "idle"]
    /\ token' = [r \in Req |-> NoTime]
    /\ iat' = [r \in Req |-> NoIat]
    /\ uid' = [r \in Req |-> NoUser]
    /\ found' = [r \in Req |-> "nothing"]
    /\ spoiled' = {}
    /\ UNCHANGED <<clock, db, billing, deleted, unmarked, returned, outlived>>

\* _USER_IDS_MAX: the least recently written mapping leaves the cache.
lose_mapping ==
    /\ user_ids # NoUser /\ user_ids' = NoUser /\ planted' = FALSE
    /\ UNCHANGED <<clock, db, billing, verified, request,
                   deleted, unmarked, returned, spoiled, outlived>>

tick ==
    /\ clock < MaxTime /\ clock' = clock + 1
    /\ UNCHANGED <<db, billing, cache, request, history>>

Next ==
    \/ \E r \in Req :
          \/ \E t \in Time : require_auth(r, t)
          \/ put_verified(r) \/ get_or_create_user(r) \/ put_user_id(r)
          \/ finish(r) \/ follow(r) \/ billing_checkout(r) \/ create_checkout_session(r)
          \/ delete_me(r) \/ cancel_subscription(r) \/ delete_user_data(r)
          \/ tombstone_auth_id(r) \/ evict(r)
    \/ insert_forecasts \/ pay \/ sync_subscription
    \/ restart \/ lose_mapping \/ tick

Spec == Init /\ [][Next]_vars

-----------------------------------------------------------------------------
(***************************************************************************)
(* Properties                                                              *)
(***************************************************************************)

\* A token issued before a deletion does not bring the account back (migration
\* 029), unless it arrives between the two transactions of the deletion, or
\* after a crash between them.
NoResurrection ==
    account # NoUser /\ born <= deleted => returned

\* The cached id is the account's, but for a deletion that has not reached its
\* eviction and an id that an older request put back after it.
CacheNamesAccount ==
    user_ids \notin {NoUser, account} =>
        \/ planted
        \/ \E r \in Req : pc[r] \in {"tombstone", "evict"} /\ found[r] # "nothing"

\* A token that will be refused though it was issued after the deletion.
LockedOut(t) ==
    /\ account = NoUser /\ tombstone # NoTime /\ tombstone < t /\ deleted < t
    /\ t \in verified
    /\ \A r \in Req : ~(pc[r] = "provision" /\ iat[r] = t)

\* "A token minted after it is a genuine new sign-in": it is locked out only
\* when its first request failed, or met a dead id, after its verification had
\* been cached without the iat.
NewSignInAdmitted == \A t \in Time : LockedOut(t) => t \in spoiled

\* The tombstone tells the tokens of the deleted account from a new sign-in.
TombstoneDecides == NoResurrection /\ NewSignInAdmitted

\* What authentication goes by, the tombstone and the cached ids, names the account
\* that is there.
IdentitySound == TombstoneDecides /\ CacheNamesAccount

\* "An active subscription must die with the account": one that goes on is one
\* that the deleting request could not read, because it was paid for or reported
\* by the webhook afterwards.
NoPayingZombie ==
    stripe = "active" /\ payer # account => outlived

\* "Ordered children-first so plain (non-CASCADE) FKs never block".
NothingBlocksDeletion == \A r \in Req : pc[r] = "delete" => ~Blocked(r)
=============================================================================
