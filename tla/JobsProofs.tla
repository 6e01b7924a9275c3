---------------------------- MODULE JobsProofs ----------------------------
(***************************************************************************)
(* Theorems about an account and the jobs that work for it: Account, which *)
(* MC_Jobs extends, and its instances Offer (Trial), Scans (Alerts),       *)
(* Morning (Digest), Ledger (Forecasts), Health (JobHealth) and Screen     *)
(* (Picks).  The last section carries them over to SumSpec.                *)
(***************************************************************************)
EXTENDS MC_Jobs, Integers, Sequences, FiniteSetTheorems, WellFoundedInduction, TLAPS

-----------------------------------------------------------------------------
(***************************************************************************)
(* Account: who a request acts for, and the subscription that is left      *)
(***************************************************************************)

\* A request at one of these places has the id of an account.
Identified == {"put_user_id", "bound", "checkout", "cancel", "delete", "tombstone", "evict"}

\* The type invariant; ids and times need no bound here.
Typed ==
    /\ clock \in Nat \ {0} /\ deleted \in Nat /\ tombstone \in Nat
    /\ account \in Nat /\ users \in Nat /\ user_ids \in Nat /\ born \in Nat
    /\ verified \subseteq Nat
    /\ pc \in [Req -> Pc] /\ token \in [Req -> Nat] /\ iat \in [Req -> Nat]
    /\ uid \in [Req -> Nat] /\ found \in [Req -> {"nothing", "auth_id", "subscription"}]

\* A request beyond its verification has the second of its token, or has lost it.
InTheRequest ==
    \A r \in Req :
        /\ pc[r] # "idle" => token[r] # NoTime
        /\ iat[r] \in {NoIat, token[r]}
        /\ pc[r] \in {"idle", "verify"} => iat[r] = NoIat

\* Ids are given out in order, so that a new account never has the id of a deleted one.
IdsGiven ==
    /\ account <= users /\ user_ids <= users
    /\ \A r \in Req : uid[r] <= users
    /\ \A r \in Req : pc[r] \in Identified => uid[r] # NoUser

\* What DELETE /me goes by: it has seen the row, or its account was gone already.
FoundIsRead ==
    \A r \in Req : pc[r] \in {"cancel", "delete"} =>
        /\ found[r] = "nothing" => uid[r] # account
        /\ found[r] # "nothing" => uid[r] = account \/ deleted # NoTime

\* No tombstone before its deletion, and none of it that is older than it.
TimesOrdered ==
    /\ deleted <= clock /\ tombstone <= clock
    /\ \A t \in verified : t <= clock
    /\ \A r \in Req : token[r] <= clock
    /\ tombstone # NoTime => deleted # NoTime
    /\ \A r \in Req : pc[r] = "tombstone" => deleted # NoTime
    /\ account = NoUser /\ ~unmarked => deleted <= tombstone

\* A token of a new sign-in whose verification is cached is in a request that can still
\* provision the account, or has lost its iat in one that failed.
Admitted ==
    \A t \in Time :
        /\ account = NoUser /\ deleted # NoTime /\ deleted < t /\ tombstone < t
        /\ t \in verified
        /\ \A r \in Req : ~(pc[r] = "provision" /\ iat[r] = t)
        => t \in spoiled

\* What is inductive about who a request acts for.
IdentityInv ==
    /\ Typed /\ InTheRequest /\ IdsGiven /\ FoundIsRead /\ TimesOrdered /\ Admitted
    /\ NoResurrection /\ CacheNamesAccount

\* Stripe holds a subscription that is paid for, or a checkout that can be.
Charged == stripe \in {"open", "active"}

\* A subscription that a payer without the account can be charged for: the one that the
\* deletion read is cancelled before the deletion.
ZombieInv ==
    /\ Charged /\ payer # account => outlived
    /\ Charged => payer # NoUser
    /\ \A r \in Req : pc[r] = "delete" /\ found[r] = "subscription" => ~Charged

\* Every step keeps the types.
LEMMA TypedStep == Typed /\ [Next]_vars => Typed'
<1> SUFFICES ASSUME Typed, [Next]_vars PROVE Typed'
  OBVIOUS
<1>0. CASE UNCHANGED <<clock, account, users, born, blocking, tombstone, row_sub, stripe,
                       payer, verified, user_ids, pc, token, iat, uid, found, deleted,
                       unmarked, returned, planted, spoiled, outlived>>
  BY <1>0 DEF Typed, Pc, NoUser, NoIat, NoTime
<1>1. UNCHANGED vars => UNCHANGED <<clock, account, users, born, blocking, tombstone, row_sub,
                                    stripe, payer, verified, user_ids, pc, token, iat, uid,
                                    found, deleted, unmarked, returned, planted, spoiled,
                                    outlived>>
  BY DEF vars, billing, cache, db, history, request
<1>2. ASSUME NEW r \in Req, NEW t \in Time, require_auth(r, t) PROVE Typed'
  BY <1>2 DEF Typed, Pc, NoUser, NoIat, NoTime, require_auth, get_user_id, spoil, goto, db,
     billing, cache, most_history, Time
<1>3. ASSUME NEW r \in Req, put_verified(r) PROVE Typed'
  <2>1. verified' = verified \cup {token[r]} /\ token[r] \in Nat
    BY <1>3 DEF put_verified, Typed
  <2> QED BY <1>3, <2>1 DEF Typed, Pc, NoUser, NoIat, NoTime, put_verified, get_user_id, spoil,
             goto, db, billing, most_history
<1>4. ASSUME NEW r \in Req, get_or_create_user(r) PROVE Typed'
  BY <1>4 DEF Typed, Pc, NoUser, NoIat, NoTime, get_or_create_user, answer, spoil, goto,
     Refused, db, billing, cache
<1>5. ASSUME NEW r \in Req, put_user_id(r) PROVE Typed'
  BY <1>5 DEF Typed, Pc, NoUser, NoIat, NoTime, put_user_id, goto, db, billing
<1>6. ASSUME NEW r \in Req, finish(r) PROVE Typed'
  BY <1>6 DEF Typed, Pc, NoUser, NoIat, NoTime, finish, answer, goto, db, billing, cache, history
<1>7. ASSUME NEW r \in Req, follow(r) PROVE Typed'
  BY <1>7 DEF Typed, Pc, NoUser, NoIat, NoTime, follow, answer, goto, billing, cache, history
<1>8. ASSUME NEW r \in Req, billing_checkout(r) PROVE Typed'
  BY <1>8 DEF Typed, Pc, NoUser, NoIat, NoTime, billing_checkout, goto, db, billing, cache,
     history
<1>9. ASSUME NEW r \in Req, create_checkout_session(r) PROVE Typed'
  BY <1>9 DEF Typed, Pc, NoUser, NoIat, NoTime, create_checkout_session, goto, db, cache
<1>10. ASSUME NEW r \in Req, delete_me(r) PROVE Typed'
  BY <1>10 DEF Typed, Pc, NoUser, NoIat, NoTime, delete_me, goto, db, billing, cache, history
<1>11. ASSUME NEW r \in Req, cancel_subscription(r) PROVE Typed'
  BY <1>11 DEF Typed, Pc, NoUser, NoIat, NoTime, cancel_subscription, answer, goto, db, cache,
     history
<1>12. ASSUME NEW r \in Req, delete_user_data(r) PROVE Typed'
  BY <1>12 DEF Typed, Pc, NoUser, NoIat, NoTime, delete_user_data, answer, goto, Blocked, db,
     billing, cache
<1>13. ASSUME NEW r \in Req, tombstone_auth_id(r) PROVE Typed'
  BY <1>13 DEF Typed, Pc, NoUser, NoIat, NoTime, tombstone_auth_id, goto, billing, cache
<1>14. ASSUME NEW r \in Req, evict(r) PROVE Typed'
  <2>1. verified' \subseteq verified
    BY <1>14 DEF evict, cache
  <2> QED BY <1>14, <2>1 DEF Typed, Pc, NoUser, NoIat, NoTime, evict, answer, goto, db,
             billing, cache
<1>15. CASE insert_forecasts
  BY <1>15 DEF Typed, Pc, NoUser, NoIat, NoTime, insert_forecasts, billing, cache, request,
     history
<1>16. CASE pay
  BY <1>16 DEF Typed, Pc, NoUser, NoIat, NoTime, pay, db, cache, request, history
<1>17. CASE sync_subscription
  BY <1>17 DEF Typed, Pc, NoUser, NoIat, NoTime, sync_subscription, billing, cache, request,
     history
<1>18. CASE restart
  BY <1>18 DEF Typed, Pc, NoUser, NoIat, NoTime, restart, db, billing
<1>19. CASE lose_mapping
  BY <1>19 DEF Typed, Pc, NoUser, NoIat, NoTime, lose_mapping, db, billing, request
<1>20. CASE tick
  BY <1>20 DEF Typed, Pc, NoUser, NoIat, NoTime, tick, db, billing, cache, request, history
<1> QED BY <1>0, <1>1, <1>2, <1>3, <1>4, <1>5, <1>6, <1>7, <1>8, <1>9, <1>10, <1>11, <1>12,
           <1>13, <1>14, <1>15, <1>16, <1>17, <1>18, <1>19, <1>20 DEF Next

\* A request keeps the second of its token, or loses it to the cache of verifications.
LEMMA InTheRequestStep == Typed /\ InTheRequest /\ [Next]_vars => InTheRequest'
<1> SUFFICES ASSUME Typed, InTheRequest, [Next]_vars PROVE InTheRequest'
  OBVIOUS
<1>0. CASE UNCHANGED <<pc, token, iat>>
  BY <1>0 DEF InTheRequest, NoTime, NoIat
<1>1. UNCHANGED vars \/ insert_forecasts \/ pay \/ sync_subscription \/ lose_mapping \/ tick =>
        UNCHANGED <<pc, token, iat>>
  BY DEF vars, insert_forecasts, pay, sync_subscription, lose_mapping, tick, billing, cache,
     db, history, request
<1>2. ASSUME NEW r \in Req, NEW t \in Time, require_auth(r, t) PROVE InTheRequest'
  BY <1>2 DEF Typed, InTheRequest, NoTime, NoIat, require_auth, get_user_id, spoil, goto, db,
     billing, cache, most_history, Time, Pc
<1>3. ASSUME NEW r \in Req, put_verified(r) PROVE InTheRequest'
  BY <1>3 DEF Typed, InTheRequest, NoTime, NoIat, put_verified, get_user_id, spoil, goto, db,
     billing, most_history
<1>4. ASSUME NEW r \in Req, get_or_create_user(r) PROVE InTheRequest'
  BY <1>4 DEF Typed, InTheRequest, NoTime, NoIat, get_or_create_user, answer, spoil, goto,
     Refused, db, billing, cache
<1>5. ASSUME NEW r \in Req, put_user_id(r) PROVE InTheRequest'
  BY <1>5 DEF Typed, InTheRequest, NoTime, NoIat, put_user_id, goto, db, billing
<1>6. ASSUME NEW r \in Req, finish(r) PROVE InTheRequest'
  BY <1>6 DEF Typed, InTheRequest, NoTime, NoIat, finish, answer, goto, db, billing, cache,
     history
<1>7. ASSUME NEW r \in Req, follow(r) PROVE InTheRequest'
  BY <1>7 DEF Typed, InTheRequest, NoTime, NoIat, follow, answer, goto, billing, cache, history
<1>8. ASSUME NEW r \in Req, billing_checkout(r) PROVE InTheRequest'
  BY <1>8 DEF Typed, InTheRequest, NoTime, NoIat, billing_checkout, goto, db, billing, cache,
     history
<1>9. ASSUME NEW r \in Req, create_checkout_session(r) PROVE InTheRequest'
  BY <1>9 DEF Typed, InTheRequest, NoTime, NoIat, create_checkout_session, goto, db, cache
<1>10. ASSUME NEW r \in Req, delete_me(r) PROVE InTheRequest'
  BY <1>10 DEF Typed, InTheRequest, NoTime, NoIat, delete_me, goto, db, billing, cache, history
<1>11. ASSUME NEW r \in Req, cancel_subscription(r) PROVE InTheRequest'
  BY <1>11 DEF Typed, InTheRequest, NoTime, NoIat, cancel_subscription, answer, goto, db,
     cache, history
<1>12. ASSUME NEW r \in Req, delete_user_data(r) PROVE InTheRequest'
  BY <1>12 DEF Typed, InTheRequest, NoTime, NoIat, delete_user_data, answer, goto, Blocked, db,
     billing, cache
<1>13. ASSUME NEW r \in Req, tombstone_auth_id(r) PROVE InTheRequest'
  BY <1>13 DEF Typed, InTheRequest, NoTime, NoIat, tombstone_auth_id, goto, billing, cache
<1>14. ASSUME NEW r \in Req, evict(r) PROVE InTheRequest'
  BY <1>14 DEF Typed, InTheRequest, NoTime, NoIat, evict, answer, goto, db, billing, cache
<1>15. CASE restart
  BY <1>15 DEF Typed, InTheRequest, NoTime, NoIat, restart, db, billing
<1> QED BY <1>0, <1>1, <1>2, <1>3, <1>4, <1>5, <1>6, <1>7, <1>8, <1>9, <1>10, <1>11, <1>12,
           <1>13, <1>14, <1>15 DEF Next

\* provision gives a new id, and whatever names an account names one that was given.
LEMMA IdsGivenStep == Typed /\ IdsGiven /\ [Next]_vars => IdsGiven'
<1> SUFFICES ASSUME Typed, IdsGiven, [Next]_vars PROVE IdsGiven'
  OBVIOUS
<1>0. CASE UNCHANGED <<account, users, user_ids, pc, uid>>
  BY <1>0 DEF IdsGiven, Identified, NoUser
<1>1. UNCHANGED vars \/ insert_forecasts \/ pay \/ sync_subscription \/ tick =>
        UNCHANGED <<account, users, user_ids, pc, uid>>
  BY DEF vars, insert_forecasts, pay, sync_subscription, tick, billing, cache, db, history,
     request
<1>2. ASSUME NEW r \in Req, NEW t \in Time, require_auth(r, t) PROVE IdsGiven'
  BY <1>2 DEF Typed, IdsGiven, Identified, NoUser, require_auth, get_user_id, spoil, goto, db,
     billing, cache, most_history, Time, Pc
<1>3. ASSUME NEW r \in Req, put_verified(r) PROVE IdsGiven'
  BY <1>3 DEF Typed, IdsGiven, Identified, NoUser, put_verified, get_user_id, spoil, goto, db,
     billing, most_history
<1>4. ASSUME NEW r \in Req, get_or_create_user(r) PROVE IdsGiven'
  BY <1>4 DEF Typed, IdsGiven, Identified, NoUser, get_or_create_user, answer, spoil, goto,
     Refused, db, billing, cache
<1>5. ASSUME NEW r \in Req, put_user_id(r) PROVE IdsGiven'
  BY <1>5 DEF Typed, IdsGiven, Identified, NoUser, put_user_id, goto, db, billing
<1>6. ASSUME NEW r \in Req, finish(r) PROVE IdsGiven'
  BY <1>6 DEF Typed, IdsGiven, Identified, NoUser, finish, answer, goto, db, billing, cache,
     history
<1>7. ASSUME NEW r \in Req, follow(r) PROVE IdsGiven'
  BY <1>7 DEF Typed, IdsGiven, Identified, NoUser, follow, answer, goto, billing, cache, history
<1>8. ASSUME NEW r \in Req, billing_checkout(r) PROVE IdsGiven'
  BY <1>8 DEF Typed, IdsGiven, Identified, NoUser, billing_checkout, goto, db, billing, cache,
     history
<1>9. ASSUME NEW r \in Req, create_checkout_session(r) PROVE IdsGiven'
  BY <1>9 DEF Typed, IdsGiven, Identified, NoUser, create_checkout_session, goto, db, cache
<1>10. ASSUME NEW r \in Req, delete_me(r) PROVE IdsGiven'
  BY <1>10 DEF Typed, IdsGiven, Identified, NoUser, delete_me, goto, db, billing, cache, history
<1>11. ASSUME NEW r \in Req, cancel_subscription(r) PROVE IdsGiven'
  BY <1>11 DEF Typed, IdsGiven, Identified, NoUser, cancel_subscription, answer, goto, db,
     cache, history
<1>12. ASSUME NEW r \in Req, delete_user_data(r) PROVE IdsGiven'
  BY <1>12 DEF Typed, IdsGiven, Identified, NoUser, delete_user_data, answer, goto, Blocked,
     db, billing, cache
<1>13. ASSUME NEW r \in Req, tombstone_auth_id(r) PROVE IdsGiven'
  BY <1>13 DEF Typed, IdsGiven, Identified, NoUser, tombstone_auth_id, goto, billing, cache
<1>14. ASSUME NEW r \in Req, evict(r) PROVE IdsGiven'
  BY <1>14 DEF Typed, IdsGiven, Identified, NoUser, evict, answer, goto, db, billing, cache
<1>15. CASE restart
  BY <1>15 DEF Typed, IdsGiven, Identified, NoUser, restart, db, billing
<1>16. CASE lose_mapping
  BY <1>16 DEF Typed, IdsGiven, Identified, NoUser, lose_mapping, db, billing, request
<1> QED BY <1>0, <1>1, <1>2, <1>3, <1>4, <1>5, <1>6, <1>7, <1>8, <1>9, <1>10, <1>11, <1>12,
           <1>13, <1>14, <1>15, <1>16 DEF Next

\* cancel and delete go by a row that was there when DELETE /me read it.
LEMMA FoundIsReadStep ==
  Typed /\ IdsGiven /\ FoundIsRead /\ [Next]_vars => FoundIsRead'
<1> SUFFICES ASSUME Typed, IdsGiven, FoundIsRead, [Next]_vars PROVE FoundIsRead'
  OBVIOUS
<1>0. CASE UNCHANGED <<pc, found, uid, account, deleted>>
  BY <1>0 DEF FoundIsRead, Identified, NoUser, NoTime
<1>1. UNCHANGED vars \/ insert_forecasts \/ pay \/ sync_subscription \/ lose_mapping \/ tick =>
        UNCHANGED <<pc, found, uid, account, deleted>>
  BY DEF vars, insert_forecasts, pay, sync_subscription, lose_mapping, tick, billing, cache,
     db, history, request
<1>2. ASSUME NEW r \in Req, NEW t \in Time, require_auth(r, t) PROVE FoundIsRead'
  BY <1>2 DEF Typed, IdsGiven, FoundIsRead, Identified, NoUser, NoTime, require_auth,
     get_user_id, spoil, goto, db, billing, cache, most_history, Time, Pc
<1>3. ASSUME NEW r \in Req, put_verified(r) PROVE FoundIsRead'
  BY <1>3 DEF Typed, IdsGiven, FoundIsRead, Identified, NoUser, NoTime, put_verified,
     get_user_id, spoil, goto, db, billing, most_history
<1>4. ASSUME NEW r \in Req, get_or_create_user(r) PROVE FoundIsRead'
  BY <1>4 DEF Typed, IdsGiven, FoundIsRead, Identified, NoUser, NoTime, get_or_create_user,
     answer, spoil, goto, Refused, db, billing, cache
<1>5. ASSUME NEW r \in Req, put_user_id(r) PROVE FoundIsRead'
  BY <1>5 DEF Typed, IdsGiven, FoundIsRead, Identified, NoUser, NoTime, put_user_id, goto, db,
     billing
<1>6. ASSUME NEW r \in Req, finish(r) PROVE FoundIsRead'
  BY <1>6 DEF Typed, IdsGiven, FoundIsRead, Identified, NoUser, NoTime, finish, answer, goto,
     db, billing, cache, history
<1>7. ASSUME NEW r \in Req, follow(r) PROVE FoundIsRead'
  BY <1>7 DEF Typed, IdsGiven, FoundIsRead, Identified, NoUser, NoTime, follow, answer, goto,
     billing, cache, history
<1>8. ASSUME NEW r \in Req, billing_checkout(r) PROVE FoundIsRead'
  BY <1>8 DEF Typed, IdsGiven, FoundIsRead, Identified, NoUser, NoTime, billing_checkout, goto,
     db, billing, cache, history
<1>9. ASSUME NEW r \in Req, create_checkout_session(r) PROVE FoundIsRead'
  BY <1>9 DEF Typed, IdsGiven, FoundIsRead, Identified, NoUser, NoTime,
     create_checkout_session, goto, db, cache
<1>10. ASSUME NEW r \in Req, delete_me(r) PROVE FoundIsRead'
  BY <1>10 DEF Typed, IdsGiven, FoundIsRead, Identified, NoUser, NoTime, delete_me, goto, db,
     billing, cache, history
<1>11. ASSUME NEW r \in Req, cancel_subscription(r) PROVE FoundIsRead'
  BY <1>11 DEF Typed, IdsGiven, FoundIsRead, Identified, NoUser, NoTime, cancel_subscription,
     answer, goto, db, cache, history
<1>12. ASSUME NEW r \in Req, delete_user_data(r) PROVE FoundIsRead'
  BY <1>12 DEF Typed, IdsGiven, FoundIsRead, Identified, NoUser, NoTime, delete_user_data,
     answer, goto, Blocked, db, billing, cache
<1>13. ASSUME NEW r \in Req, tombstone_auth_id(r) PROVE FoundIsRead'
  BY <1>13 DEF Typed, IdsGiven, FoundIsRead, Identified, NoUser, NoTime, tombstone_auth_id,
     goto, billing, cache
<1>14. ASSUME NEW r \in Req, evict(r) PROVE FoundIsRead'
  BY <1>14 DEF Typed, IdsGiven, FoundIsRead, Identified, NoUser, NoTime, evict, answer, goto,
     db, billing, cache
<1>15. CASE restart
  BY <1>15 DEF Typed, IdsGiven, FoundIsRead, Identified, NoUser, NoTime, restart, db, billing
<1> QED BY <1>0, <1>1, <1>2, <1>3, <1>4, <1>5, <1>6, <1>7, <1>8, <1>9, <1>10, <1>11, <1>12,
           <1>13, <1>14, <1>15 DEF Next

\* The clock only advances, and the tombstone is written after the deletion.
LEMMA TimesOrderedStep ==
  Typed /\ InTheRequest /\ FoundIsRead /\ TimesOrdered /\ [Next]_vars => TimesOrdered'
<1> SUFFICES ASSUME Typed, InTheRequest, FoundIsRead, TimesOrdered, [Next]_vars
    PROVE TimesOrdered'
  OBVIOUS
<1>0. CASE UNCHANGED <<deleted, clock, tombstone, verified, token, account, unmarked, pc>>
  BY <1>0 DEF TimesOrdered, NoUser, NoTime
<1>1. UNCHANGED vars \/ insert_forecasts \/ pay \/ sync_subscription \/ lose_mapping =>
        UNCHANGED <<deleted, clock, tombstone, verified, token, account, unmarked, pc>>
  BY DEF vars, insert_forecasts, pay, sync_subscription, lose_mapping, billing, cache, db,
     history, request
<1>2. ASSUME NEW r \in Req, NEW t \in Time, require_auth(r, t) PROVE TimesOrdered'
  BY <1>2 DEF Typed, InTheRequest, FoundIsRead, TimesOrdered, NoUser, NoTime, require_auth,
     get_user_id, spoil, goto, db, billing, cache, most_history, Time, Pc
<1>3. ASSUME NEW r \in Req, put_verified(r) PROVE TimesOrdered'
  <2>1. verified' = verified \cup {token[r]} /\ token[r] \in Nat
    BY <1>3 DEF put_verified, Typed
  <2> QED BY <1>3, <2>1 DEF Typed, InTheRequest, FoundIsRead, TimesOrdered, NoUser, NoTime,
             put_verified, get_user_id, spoil, goto, db, billing, most_history
<1>4. ASSUME NEW r \in Req, get_or_create_user(r) PROVE TimesOrdered'
  BY <1>4 DEF Typed, InTheRequest, FoundIsRead, TimesOrdered, NoUser, NoTime,
     get_or_create_user, answer, spoil, goto, Refused, db, billing, cache
<1>5. ASSUME NEW r \in Req, put_user_id(r) PROVE TimesOrdered'
  BY <1>5 DEF Typed, InTheRequest, FoundIsRead, TimesOrdered, NoUser, NoTime, put_user_id,
     goto, db, billing
<1>6. ASSUME NEW r \in Req, finish(r) PROVE TimesOrdered'
  BY <1>6 DEF Typed, InTheRequest, FoundIsRead, TimesOrdered, NoUser, NoTime, finish, answer,
     goto, db, billing, cache, history
<1>7. ASSUME NEW r \in Req, follow(r) PROVE TimesOrdered'
  BY <1>7 DEF Typed, InTheRequest, FoundIsRead, TimesOrdered, NoUser, NoTime, follow, answer,
     goto, billing, cache, history
<1>8. ASSUME NEW r \in Req, billing_checkout(r) PROVE TimesOrdered'
  BY <1>8 DEF Typed, InTheRequest, FoundIsRead, TimesOrdered, NoUser, NoTime, billing_checkout,
     goto, db, billing, cache, history
<1>9. ASSUME NEW r \in Req, create_checkout_session(r) PROVE TimesOrdered'
  BY <1>9 DEF Typed, InTheRequest, FoundIsRead, TimesOrdered, NoUser, NoTime,
     create_checkout_session, goto, db, cache
<1>10. ASSUME NEW r \in Req, delete_me(r) PROVE TimesOrdered'
  BY <1>10 DEF Typed, InTheRequest, FoundIsRead, TimesOrdered, NoUser, NoTime, delete_me, goto,
     db, billing, cache, history
<1>11. ASSUME NEW r \in Req, cancel_subscription(r) PROVE TimesOrdered'
  BY <1>11 DEF Typed, InTheRequest, FoundIsRead, TimesOrdered, NoUser, NoTime,
     cancel_subscription, answer, goto, db, cache, history
<1>12. ASSUME NEW r \in Req, delete_user_data(r) PROVE TimesOrdered'
  BY <1>12 DEF Typed, InTheRequest, FoundIsRead, TimesOrdered, NoUser, NoTime,
     delete_user_data, answer, goto, Blocked, db, billing, cache
<1>13. ASSUME NEW r \in Req, tombstone_auth_id(r) PROVE TimesOrdered'
  BY <1>13 DEF Typed, InTheRequest, FoundIsRead, TimesOrdered, NoUser, NoTime,
     tombstone_auth_id, goto, billing, cache
<1>14. ASSUME NEW r \in Req, evict(r) PROVE TimesOrdered'
  <2>1. verified' \subseteq verified
    BY <1>14 DEF evict, cache
  <2> QED BY <1>14, <2>1 DEF Typed, InTheRequest, FoundIsRead, TimesOrdered, NoUser, NoTime,
             evict, answer, goto, db, billing, cache
<1>15. CASE restart
  BY <1>15 DEF Typed, InTheRequest, FoundIsRead, TimesOrdered, NoUser, NoTime, restart, db,
     billing
<1>16. CASE tick
  BY <1>16 DEF Typed, InTheRequest, FoundIsRead, TimesOrdered, NoUser, NoTime, tick, db,
     billing, cache, request, history
<1> QED BY <1>0, <1>1, <1>2, <1>3, <1>4, <1>5, <1>6, <1>7, <1>8, <1>9, <1>10, <1>11, <1>12,
           <1>13, <1>14, <1>15, <1>16 DEF Next

\* A token of a new sign-in is locked out only by the failure of its first request.
LEMMA AdmittedStep ==
  Typed /\ InTheRequest /\ IdsGiven /\ TimesOrdered /\ Admitted /\ [Next]_vars => Admitted'
<1> SUFFICES ASSUME Typed, InTheRequest, IdsGiven, TimesOrdered, Admitted, [Next]_vars
    PROVE Admitted'
  OBVIOUS
<1>0. CASE UNCHANGED <<account, deleted, tombstone, verified, pc, iat, spoiled>>
  BY <1>0 DEF Admitted, NoUser, NoTime, NoIat, Time
<1>1. UNCHANGED vars \/ insert_forecasts \/ pay \/ sync_subscription \/ lose_mapping \/ tick =>
        UNCHANGED <<account, deleted, tombstone, verified, pc, iat, spoiled>>
  BY DEF vars, insert_forecasts, pay, sync_subscription, lose_mapping, tick, billing, cache,
     db, history, request
<1>2. ASSUME NEW r \in Req, NEW t \in Time, require_auth(r, t) PROVE Admitted'
  BY <1>2 DEF Typed, InTheRequest, IdsGiven, TimesOrdered, Admitted, NoUser, NoTime, NoIat,
     Time, require_auth, get_user_id, spoil, goto, db, billing, cache, most_history, Pc
<1>3. ASSUME NEW r \in Req, put_verified(r) PROVE Admitted'
  BY <1>3 DEF Typed, InTheRequest, IdsGiven, TimesOrdered, Admitted, NoUser, NoTime, NoIat,
     Time, put_verified, get_user_id, spoil, goto, db, billing, most_history
<1>4. ASSUME NEW r \in Req, get_or_create_user(r) PROVE Admitted'
  BY <1>4 DEF Typed, InTheRequest, IdsGiven, TimesOrdered, Admitted, NoUser, NoTime, NoIat,
     Time, get_or_create_user, answer, spoil, goto, Refused, db, billing, cache
<1>5. ASSUME NEW r \in Req, put_user_id(r) PROVE Admitted'
  BY <1>5 DEF Typed, InTheRequest, IdsGiven, TimesOrdered, Admitted, NoUser, NoTime, NoIat,
     Time, put_user_id, goto, db, billing
<1>6. ASSUME NEW r \in Req, finish(r) PROVE Admitted'
  BY <1>6 DEF Typed, InTheRequest, IdsGiven, TimesOrdered, Admitted, NoUser, NoTime, NoIat,
     Time, finish, answer, goto, db, billing, cache, history
<1>7. ASSUME NEW r \in Req, follow(r) PROVE Admitted'
  BY <1>7 DEF Typed, InTheRequest, IdsGiven, TimesOrdered, Admitted, NoUser, NoTime, NoIat,
     Time, follow, answer, goto, billing, cache, history
<1>8. ASSUME NEW r \in Req, billing_checkout(r) PROVE Admitted'
  BY <1>8 DEF Typed, InTheRequest, IdsGiven, TimesOrdered, Admitted, NoUser, NoTime, NoIat,
     Time, billing_checkout, goto, db, billing, cache, history
<1>9. ASSUME NEW r \in Req, create_checkout_session(r) PROVE Admitted'
  BY <1>9 DEF Typed, InTheRequest, IdsGiven, TimesOrdered, Admitted, NoUser, NoTime, NoIat,
     Time, create_checkout_session, goto, db, cache
<1>10. ASSUME NEW r \in Req, delete_me(r) PROVE Admitted'
  BY <1>10 DEF Typed, InTheRequest, IdsGiven, TimesOrdered, Admitted, NoUser, NoTime, NoIat,
     Time, delete_me, goto, db, billing, cache, history
<1>11. ASSUME NEW r \in Req, cancel_subscription(r) PROVE Admitted'
  BY <1>11 DEF Typed, InTheRequest, IdsGiven, TimesOrdered, Admitted, NoUser, NoTime, NoIat,
     Time, cancel_subscription, answer, goto, db, cache, history
<1>12. ASSUME NEW r \in Req, delete_user_data(r) PROVE Admitted'
  BY <1>12 DEF Typed, InTheRequest, IdsGiven, TimesOrdered, Admitted, NoUser, NoTime, NoIat,
     Time, delete_user_data, answer, goto, Blocked, db, billing, cache
<1>13. ASSUME NEW r \in Req, tombstone_auth_id(r) PROVE Admitted'
  BY <1>13 DEF Typed, InTheRequest, IdsGiven, TimesOrdered, Admitted, NoUser, NoTime, NoIat,
     Time, tombstone_auth_id, goto, billing, cache
<1>14. ASSUME NEW r \in Req, evict(r) PROVE Admitted'
  BY <1>14 DEF Typed, InTheRequest, IdsGiven, TimesOrdered, Admitted, NoUser, NoTime, NoIat,
     Time, evict, answer, goto, db, billing, cache
<1>15. CASE restart
  BY <1>15 DEF Typed, InTheRequest, IdsGiven, TimesOrdered, Admitted, NoUser, NoTime, NoIat,
     Time, restart, db, billing
<1> QED BY <1>0, <1>1, <1>2, <1>3, <1>4, <1>5, <1>6, <1>7, <1>8, <1>9, <1>10, <1>11, <1>12,
           <1>13, <1>14, <1>15 DEF Next

\* provision compares the token with the tombstone: an older one creates no account.
LEMMA NoResurrectionStep ==
  Typed /\ InTheRequest /\ TimesOrdered /\ NoResurrection /\ [Next]_vars => NoResurrection'
<1> SUFFICES ASSUME Typed, InTheRequest, TimesOrdered, NoResurrection, [Next]_vars
    PROVE NoResurrection'
  OBVIOUS
<1>0. CASE UNCHANGED <<account, born, deleted, returned>>
  BY <1>0 DEF NoResurrection, NoUser, NoTime, NoIat
<1>1. UNCHANGED vars \/ (\E r \in Req : (\E t \in Time : require_auth(r, t)) \/
        put_verified(r) \/ put_user_id(r) \/ finish(r) \/ follow(r) \/ billing_checkout(r) \/
        create_checkout_session(r) \/ delete_me(r) \/ cancel_subscription(r) \/
        tombstone_auth_id(r) \/ evict(r)) \/ insert_forecasts \/ pay \/ sync_subscription \/
        restart \/ lose_mapping \/ tick => UNCHANGED <<account, born, deleted, returned>>
  BY DEF vars, require_auth, get_user_id, spoil, goto, put_verified, put_user_id, finish,
     answer, follow, billing_checkout, create_checkout_session, delete_me, cancel_subscription,
     tombstone_auth_id, evict, insert_forecasts, pay, sync_subscription, restart, lose_mapping,
     tick, billing, cache, db, history, most_history, request
<1>2. ASSUME NEW r \in Req, get_or_create_user(r) PROVE NoResurrection'
  BY <1>2 DEF Typed, InTheRequest, TimesOrdered, NoResurrection, NoUser, NoTime, NoIat,
     get_or_create_user, answer, spoil, goto, Refused, db, billing, cache
<1>3. ASSUME NEW r \in Req, delete_user_data(r) PROVE NoResurrection'
  BY <1>3 DEF Typed, InTheRequest, TimesOrdered, NoResurrection, NoUser, NoTime, NoIat,
     delete_user_data, answer, goto, Blocked, db, billing, cache
<1> QED BY <1>0, <1>1, <1>2, <1>3 DEF Next

\* The cached id is put by a request that holds it, and evicted after the deletion.
LEMMA CacheNamesAccountStep ==
  Typed /\ IdsGiven /\ FoundIsRead /\ CacheNamesAccount /\ [Next]_vars => CacheNamesAccount'
<1> SUFFICES ASSUME Typed, IdsGiven, FoundIsRead, CacheNamesAccount, [Next]_vars
    PROVE CacheNamesAccount'
  OBVIOUS
<1>0. CASE UNCHANGED <<user_ids, account, planted, pc, found>>
  BY <1>0 DEF CacheNamesAccount, NoUser
<1>1. UNCHANGED vars \/ insert_forecasts \/ pay \/ sync_subscription \/ tick =>
        UNCHANGED <<user_ids, account, planted, pc, found>>
  BY DEF vars, insert_forecasts, pay, sync_subscription, tick, billing, cache, db, history,
     request
<1>2. ASSUME NEW r \in Req, NEW t \in Time, require_auth(r, t) PROVE CacheNamesAccount'
  BY <1>2 DEF Typed, IdsGiven, FoundIsRead, CacheNamesAccount, NoUser, require_auth,
     get_user_id, spoil, goto, db, billing, cache, most_history, Time, Pc
<1>3. ASSUME NEW r \in Req, put_verified(r) PROVE CacheNamesAccount'
  BY <1>3 DEF Typed, IdsGiven, FoundIsRead, CacheNamesAccount, NoUser, put_verified,
     get_user_id, spoil, goto, db, billing, most_history
<1>4. ASSUME NEW r \in Req, get_or_create_user(r) PROVE CacheNamesAccount'
  BY <1>4 DEF Typed, IdsGiven, FoundIsRead, CacheNamesAccount, NoUser, get_or_create_user,
     answer, spoil, goto, Refused, db, billing, cache
<1>5. ASSUME NEW r \in Req, put_user_id(r) PROVE CacheNamesAccount'
  BY <1>5 DEF Typed, IdsGiven, FoundIsRead, CacheNamesAccount, NoUser, put_user_id, goto, db,
     billing
<1>6. ASSUME NEW r \in Req, finish(r) PROVE CacheNamesAccount'
  BY <1>6 DEF Typed, IdsGiven, FoundIsRead, CacheNamesAccount, NoUser, finish, answer, goto,
     db, billing, cache, history
<1>7. ASSUME NEW r \in Req, follow(r) PROVE CacheNamesAccount'
  BY <1>7 DEF Typed, IdsGiven, FoundIsRead, CacheNamesAccount, NoUser, follow, answer, goto,
     billing, cache, history
<1>8. ASSUME NEW r \in Req, billing_checkout(r) PROVE CacheNamesAccount'
  BY <1>8 DEF Typed, IdsGiven, FoundIsRead, CacheNamesAccount, NoUser, billing_checkout, goto,
     db, billing, cache, history
<1>9. ASSUME NEW r \in Req, create_checkout_session(r) PROVE CacheNamesAccount'
  BY <1>9 DEF Typed, IdsGiven, FoundIsRead, CacheNamesAccount, NoUser, create_checkout_session,
     goto, db, cache
<1>10. ASSUME NEW r \in Req, delete_me(r) PROVE CacheNamesAccount'
  BY <1>10 DEF Typed, IdsGiven, FoundIsRead, CacheNamesAccount, NoUser, delete_me, goto, db,
     billing, cache, history
<1>11. ASSUME NEW r \in Req, cancel_subscription(r) PROVE CacheNamesAccount'
  BY <1>11 DEF Typed, IdsGiven, FoundIsRead, CacheNamesAccount, NoUser, cancel_subscription,
     answer, goto, db, cache, history
<1>12. ASSUME NEW r \in Req, delete_user_data(r) PROVE CacheNamesAccount'
  BY <1>12 DEF Typed, IdsGiven, FoundIsRead, CacheNamesAccount, NoUser, delete_user_data,
     answer, goto, Blocked, db, billing, cache
<1>13. ASSUME NEW r \in Req, tombstone_auth_id(r) PROVE CacheNamesAccount'
  BY <1>13 DEF Typed, IdsGiven, FoundIsRead, CacheNamesAccount, NoUser, tombstone_auth_id,
     goto, billing, cache
<1>14. ASSUME NEW r \in Req, evict(r) PROVE CacheNamesAccount'
  BY <1>14 DEF Typed, IdsGiven, FoundIsRead, CacheNamesAccount, NoUser, evict, answer, goto,
     db, billing, cache
<1>15. CASE restart
  BY <1>15 DEF Typed, IdsGiven, FoundIsRead, CacheNamesAccount, NoUser, restart, db, billing
<1>16. CASE lose_mapping
  BY <1>16 DEF Typed, IdsGiven, FoundIsRead, CacheNamesAccount, NoUser, lose_mapping, db,
     billing, request
<1> QED BY <1>0, <1>1, <1>2, <1>3, <1>4, <1>5, <1>6, <1>7, <1>8, <1>9, <1>10, <1>11, <1>12,
           <1>13, <1>14, <1>15, <1>16 DEF Next

\* DELETE /me cancels the subscription it read before it deletes the account.
LEMMA ZombieInvStep ==
  Typed /\ IdsGiven /\ FoundIsRead /\ ZombieInv /\ [Next]_vars => ZombieInv'
<1> SUFFICES ASSUME Typed, IdsGiven, FoundIsRead, ZombieInv, [Next]_vars PROVE ZombieInv'
  OBVIOUS
<1>0. CASE UNCHANGED <<stripe, payer, account, outlived, pc, found>>
  BY <1>0 DEF ZombieInv, Charged, NoUser, Identified
<1>1. UNCHANGED vars \/ insert_forecasts \/ sync_subscription \/ lose_mapping \/ tick =>
        UNCHANGED <<stripe, payer, account, outlived, pc, found>>
  BY DEF vars, insert_forecasts, sync_subscription, lose_mapping, tick, billing, cache, db,
     history, request
<1>2. ASSUME NEW r \in Req, NEW t \in Time, require_auth(r, t) PROVE ZombieInv'
  BY <1>2 DEF Typed, IdsGiven, FoundIsRead, ZombieInv, Charged, NoUser, Identified,
     require_auth, get_user_id, spoil, goto, db, billing, cache, most_history, Time, Pc
<1>3. ASSUME NEW r \in Req, put_verified(r) PROVE ZombieInv'
  BY <1>3 DEF Typed, IdsGiven, FoundIsRead, ZombieInv, Charged, NoUser, Identified,
     put_verified, get_user_id, spoil, goto, db, billing, most_history
<1>4. ASSUME NEW r \in Req, get_or_create_user(r) PROVE ZombieInv'
  BY <1>4 DEF Typed, IdsGiven, FoundIsRead, ZombieInv, Charged, NoUser, Identified,
     get_or_create_user, answer, spoil, goto, Refused, db, billing, cache
<1>5. ASSUME NEW r \in Req, put_user_id(r) PROVE ZombieInv'
  BY <1>5 DEF Typed, IdsGiven, FoundIsRead, ZombieInv, Charged, NoUser, Identified,
     put_user_id, goto, db, billing
<1>6. ASSUME NEW r \in Req, finish(r) PROVE ZombieInv'
  BY <1>6 DEF Typed, IdsGiven, FoundIsRead, ZombieInv, Charged, NoUser, Identified, finish,
     answer, goto, db, billing, cache, history
<1>7. ASSUME NEW r \in Req, follow(r) PROVE ZombieInv'
  BY <1>7 DEF Typed, IdsGiven, FoundIsRead, ZombieInv, Charged, NoUser, Identified, follow,
     answer, goto, billing, cache, history
<1>8. ASSUME NEW r \in Req, billing_checkout(r) PROVE ZombieInv'
  BY <1>8 DEF Typed, IdsGiven, FoundIsRead, ZombieInv, Charged, NoUser, Identified,
     billing_checkout, goto, db, billing, cache, history
<1>9. ASSUME NEW r \in Req, create_checkout_session(r) PROVE ZombieInv'
  BY <1>9 DEF Typed, IdsGiven, FoundIsRead, ZombieInv, Charged, NoUser, Identified,
     create_checkout_session, goto, db, cache
<1>10. ASSUME NEW r \in Req, delete_me(r) PROVE ZombieInv'
  BY <1>10 DEF Typed, IdsGiven, FoundIsRead, ZombieInv, Charged, NoUser, Identified, delete_me,
     goto, db, billing, cache, history
<1>11. ASSUME NEW r \in Req, cancel_subscription(r) PROVE ZombieInv'
  BY <1>11 DEF Typed, IdsGiven, FoundIsRead, ZombieInv, Charged, NoUser, Identified,
     cancel_subscription, answer, goto, db, cache, history
<1>12. ASSUME NEW r \in Req, delete_user_data(r) PROVE ZombieInv'
  BY <1>12 DEF Typed, IdsGiven, FoundIsRead, ZombieInv, Charged, NoUser, Identified,
     delete_user_data, answer, goto, Blocked, db, billing, cache
<1>13. ASSUME NEW r \in Req, tombstone_auth_id(r) PROVE ZombieInv'
  BY <1>13 DEF Typed, IdsGiven, FoundIsRead, ZombieInv, Charged, NoUser, Identified,
     tombstone_auth_id, goto, billing, cache
<1>14. ASSUME NEW r \in Req, evict(r) PROVE ZombieInv'
  BY <1>14 DEF Typed, IdsGiven, FoundIsRead, ZombieInv, Charged, NoUser, Identified, evict,
     answer, goto, db, billing, cache
<1>15. CASE pay
  BY <1>15 DEF Typed, IdsGiven, FoundIsRead, ZombieInv, Charged, NoUser, Identified, pay, db,
     cache, request, history
<1>16. CASE restart
  BY <1>16 DEF Typed, IdsGiven, FoundIsRead, ZombieInv, Charged, NoUser, Identified, restart,
     db, billing
<1> QED BY <1>0, <1>1, <1>2, <1>3, <1>4, <1>5, <1>6, <1>7, <1>8, <1>9, <1>10, <1>11, <1>12,
           <1>13, <1>14, <1>15, <1>16 DEF Next

\* The history variables start empty, and nobody is asking.
LEMMA IdentityInductive == Spec => []IdentityInv
<1>1. Init => IdentityInv
  <2> SUFFICES ASSUME Init PROVE IdentityInv
    OBVIOUS
  <2>1. Typed /\ InTheRequest /\ IdsGiven /\ FoundIsRead
    BY DEF Init, Typed, Pc, InTheRequest, IdsGiven, Identified, FoundIsRead, NoUser, NoTime, NoIat
  <2>2. TimesOrdered /\ Admitted /\ NoResurrection /\ CacheNamesAccount
    BY DEF Init, TimesOrdered, Admitted, NoResurrection, CacheNamesAccount, NoUser, NoTime
  <2> QED BY <2>1, <2>2 DEF IdentityInv
<1>2. IdentityInv /\ [Next]_vars => IdentityInv'
  BY TypedStep, InTheRequestStep, IdsGivenStep, FoundIsReadStep, TimesOrderedStep, AdmittedStep,
     NoResurrectionStep, CacheNamesAccountStep DEF IdentityInv
<1> QED BY <1>1, <1>2, PTL DEF Spec

\* Who a request acts for is the account of its token (current_user, DELETE /me).
THEOREM IdentityKept == Spec => []IdentitySound
<1>1. IdentityInv => IdentitySound
  <2> SUFFICES ASSUME IdentityInv PROVE IdentitySound
    OBVIOUS
  <2>1. NewSignInAdmitted
    BY DEF IdentityInv, NewSignInAdmitted, LockedOut, Admitted, TimesOrdered, NoTime
  <2> QED BY <2>1 DEF IdentityInv, IdentitySound, TombstoneDecides
<1> QED BY <1>1, IdentityInductive, PTL

\* An active subscription dies with the account, unless it was paid for, or reported by
\* the webhook, after DELETE /me had read the row.
THEOREM SubscriptionDies == Spec => []NoPayingZombie
<1>1. Init => ZombieInv
  BY DEF Init, ZombieInv, Charged
<1>2. IdentityInv /\ ZombieInv /\ [Next]_vars => ZombieInv'
  BY ZombieInvStep DEF IdentityInv
<1>3. ZombieInv => NoPayingZombie
  BY DEF ZombieInv, Charged, NoPayingZombie
<1> QED BY <1>1, <1>2, <1>3, IdentityInductive, PTL DEF Spec

-----------------------------------------------------------------------------
(***************************************************************************)
(* Trial: the offer, and the notices of its end                            *)
(***************************************************************************)

\* The user was sent the notice kind.
Notified(kind) == Offer!Contains(trial_sent, kind)

\* What the job may still have to queue.
TrialJobs == {<<>>, <<"trial_ending">>, <<"trial_ended">>, <<"trial_ended", "trial_final">>,
         <<"trial_final">>}

\* The type invariant; what the job has left is one of its four lists.
TrialTyped ==
    /\ trial_day \in Nat /\ plan \in {"free", "pro"} /\ started \in BOOLEAN
    /\ ends \in Nat \cup {None} /\ trial_sent \in Seq(Offer!Kind)
    /\ sync \in [Sync -> {"idle", "arm", "done"}] /\ job \in TrialJobs \cup {None}
    /\ arms \in Nat /\ raced \in BOOLEAN /\ settled \in BOOLEAN
    /\ \A d \in scanned : d \in Nat /\ d <= trial_day

\* Nothing has happened to an account that never had the trial.
TrialFresh ==
    ~started => ends = None /\ arms = 0 /\ ~settled /\ trial_sent = <<>> /\ job = None

\* The trial is armed once, and not again after it is settled, unless two syncs raced.
TrialArmed ==
    \/ raced
    \/ /\ arms <= 1
       /\ settled => ends = None
       /\ \A q \in Sync : sync[q] = "arm" => ~started

\* An ending notice is the first one: the others wait for the end of the trial.
TrialChronological ==
    \/ raced
    \/ /\ ends # None /\ (Notified("trial_ended") \/ Notified("trial_final") \/
          job \in TrialJobs \ {<<>>, <<"trial_ending">>})
             => ends <= trial_day
       /\ job = <<"trial_ending">> => ~Notified("trial_ended") /\ ~Notified("trial_final")
       /\ \A i \in 1 .. Len(trial_sent) : trial_sent[i] = "trial_ending" => i = 1

\* The final notice follows that of the end, or the failure to send it.
TrialFinalLast ==
    /\ job = <<"trial_final">> => Notified("trial_ended") \/ "trial_ended" \in failed
    /\ Notified("trial_final") =>
           Offer!before("trial_ended", "trial_final") \/ "trial_ended" \in failed

\* A day the job scanned in the grace period left the notice of the end sent, failed or
\* about to be queued.
TrialPromised ==
    \A d \in scanned : ends # None /\ ends <= d /\ d < ends + Grace =>
        \/ Notified("trial_ended") \/ "trial_ended" \in failed
        \/ job \in {<<"trial_ended">>, <<"trial_ended", "trial_final">>}

\* What is inductive about the trial.
TrialInv ==
    /\ TrialTyped /\ TrialFresh /\ TrialArmed /\ TrialChronological /\ TrialFinalLast /\
       TrialPromised
    /\ Offer!IsInjective(trial_sent)

\* A notice that is appended is contained, and nothing else is new.
LEMMA TrialAppendContains ==
  ASSUME NEW s \in Seq(Offer!Kind), NEW k \in Offer!Kind
  PROVE  /\ Append(s, k) \in Seq(Offer!Kind)
         /\ \A l : Offer!Contains(Append(s, k), l) <=> Offer!Contains(s, l) \/ l = k
<1> DEFINE new == Append(s, k)
<1>1. /\ new \in Seq(Offer!Kind) /\ Len(new) = Len(s) + 1 /\ Len(s) \in Nat
      /\ \A i \in 1 .. Len(s) : new[i] = s[i]
      /\ new[Len(s) + 1] = k
  OBVIOUS
<1> HIDE DEF new
<1>2. ASSUME NEW l PROVE Offer!Contains(new, l) <=> Offer!Contains(s, l) \/ l = k
  <2>1. \A i \in 1 .. Len(s) : i \in 1 .. Len(new)
    BY <1>1
  <2>2. \A i \in 1 .. Len(new) : i \in 1 .. Len(s) \/ i = Len(s) + 1
    BY <1>1
  <2>3. Len(s) + 1 \in 1 .. Len(new)
    BY <1>1
  <2> QED BY <1>1, <2>1, <2>2, <2>3 DEF Offer!Contains
<1> QED BY <1>1, <1>2 DEF new

\* A list of one notice has that head and an empty tail.
LEMMA TrialSingletons ==
  ASSUME NEW k \in Offer!Kind
  PROVE  <<k>> \in Seq(Offer!Kind) /\ Len(<<k>>) = 1 /\ Head(<<k>>) = k /\ Tail(<<k>>) = <<>>
<1>1. <<k>> \in Seq(Offer!Kind) /\ Len(<<k>>) = 1 /\ Head(<<k>>) = k
  OBVIOUS
<1>2. Tail(<<k>>) \in Seq(Offer!Kind) /\ Len(Tail(<<k>>)) = 0
  BY <1>1
<1> QED BY <1>1, <1>2

\* What the job queues next, and what it has left after that.
LEMMA TrialJobParts ==
  ASSUME NEW j \in TrialJobs, j # <<>>
  PROVE  \/ j = <<"trial_ending">> /\ Head(j) = "trial_ending" /\ Tail(j) = <<>>
         \/ j = <<"trial_ended">> /\ Head(j) = "trial_ended" /\ Tail(j) = <<>>
         \/ j = <<"trial_ended", "trial_final">> /\ Head(j) = "trial_ended" /\
            Tail(j) = <<"trial_final">>
         \/ j = <<"trial_final">> /\ Head(j) = "trial_final" /\ Tail(j) = <<>>
<1>2. Head(<<"trial_ended", "trial_final">>) = "trial_ended"
      /\ Tail(<<"trial_ended", "trial_final">>) = <<"trial_final">>
  OBVIOUS
<1>3. CASE j = <<"trial_ending">>
  BY <1>3, TrialSingletons DEF Offer!Kind
<1>4. CASE j = <<"trial_ended">>
  BY <1>4, TrialSingletons DEF Offer!Kind
<1>5. CASE j = <<"trial_final">>
  BY <1>5, TrialSingletons DEF Offer!Kind
<1> QED BY <1>2, <1>3, <1>4, <1>5 DEF TrialJobs

\* What the job has left is a sequence of notices.
LEMMA TrialJobsAreSeqs == \A j \in TrialJobs : j \in Seq(Offer!Kind)
<1>1. <<>> \in Seq(Offer!Kind)
  OBVIOUS
<1>2. <<"trial_ended", "trial_final">> \in Seq(Offer!Kind)
  BY DEF Offer!Kind
<1>3. \A k \in Offer!Kind : <<k>> \in Seq(Offer!Kind)
  OBVIOUS
<1>4. "trial_ended" \in Offer!Kind /\ "trial_ending" \in Offer!Kind /\
        "trial_final" \in Offer!Kind
  BY DEF Offer!Kind
<1> QED BY <1>1, <1>2, <1>3, <1>4 DEF TrialJobs

\* notices_for: nothing but an ending notice before the end, the notice of the end after.
LEMMA TrialNotices ==
  ASSUME Offer!TrialAssumption, trial_day \in Nat, NEW e \in Nat
  PROVE  /\ Offer!notices_for(e) \in TrialJobs
         /\ Offer!notices_for(e) \in TrialJobs \ {<<>>, <<"trial_ending">>} => e <= trial_day
         /\ Offer!notices_for(e) = <<"trial_ending">> => trial_day < e
         /\ e <= trial_day /\ trial_day < e + Grace =>
                Offer!notices_for(e) \in {<<"trial_ended">>, <<"trial_ended", "trial_final">>}
<1> USE DEF Offer!notices_for, TrialJobs, Offer!TrialAssumption
<1>1. CASE trial_day < e
  <2>1. Offer!notices_for(e) \in {<<>>, <<"trial_ending">>}
    BY <1>1
  <2> QED BY <1>1, <2>1
<1>2. CASE e <= trial_day
  <2>1. Offer!notices_for(e) \in {<<>>, <<"trial_ended">>, <<"trial_ended", "trial_final">>}
    BY <1>2
  <2>2. trial_day < e + Grace =>
          Offer!notices_for(e) \in {<<"trial_ended">>, <<"trial_ended", "trial_final">>}
    BY <1>2
  <2>3. <<>> # <<"trial_ending">> /\ <<"trial_ended">> # <<"trial_ending">>
        /\ <<"trial_ended", "trial_final">> # <<"trial_ending">>
    OBVIOUS
  <2> HIDE DEF Offer!notices_for
  <2> QED BY <1>2, <2>1, <2>2, <2>3
<1> QED BY <1>1, <1>2

\* queue_notice: the next notice is queued, was queued before, or fails.
LEMMA TrialQueueEffect ==
  ASSUME TrialTyped, Offer!queue_notice
  PROVE  \E k \in Offer!Kind :
            /\ job \in TrialJobs /\ job # <<>> /\ k = Head(job) /\ job' = Tail(job)
            /\ trial_sent \in Seq(Offer!Kind) /\ trial_sent' \in Seq(Offer!Kind)
            /\ \/ trial_sent' = trial_sent /\ failed' = failed
               \/ trial_sent' = Append(trial_sent, k) /\ ~Notified(k) /\ failed' = failed
               \/ trial_sent' = trial_sent /\ failed' = failed \cup {k}
            /\ \A l : Notified(l) => Notified(l)'
            /\ \A l : Notified(l)' => Notified(l) \/ l = k
            /\ Notified(k)' \/ k \in failed'
<1>1. PICK k \in Offer!Kind : k = Head(job)
  BY TrialJobParts DEF TrialTyped, Offer!queue_notice, Offer!Kind
<1>2. job \in TrialJobs /\ job # <<>> /\ job' = Tail(job) /\ trial_sent \in Seq(Offer!Kind)
  BY DEF TrialTyped, Offer!queue_notice, TrialJobs
<1>3. CASE trial_sent' = trial_sent /\ Notified(k) /\ failed' = failed
  BY <1>1, <1>2, <1>3 DEF Notified
<1>4. CASE trial_sent' = Append(trial_sent, k) /\ ~Notified(k) /\ failed' = failed
  <2>1. \A l : Offer!Contains(trial_sent', l) <=> Offer!Contains(trial_sent, l) \/ l = k
    BY <1>2, <1>4, TrialAppendContains
  <2> QED BY <1>1, <1>2, <1>4, <2>1, TrialAppendContains DEF Notified
<1>5. CASE trial_sent' = trial_sent /\ failed' = failed \cup {k}
  BY <1>1, <1>2, <1>5 DEF Notified
<1>6. \/ trial_sent' = trial_sent /\ Notified(k) /\ failed' = failed
      \/ trial_sent' = Append(trial_sent, k) /\ ~Notified(k) /\ failed' = failed
      \/ trial_sent' = trial_sent /\ failed' = failed \cup {k}
  BY <1>1 DEF Offer!queue_notice, Offer!is_due, Notified
<1> QED BY <1>3, <1>4, <1>5, <1>6

\* Every step keeps the types.
LEMMA TrialTypedStep ==
  ASSUME Offer!TrialAssumption, TrialTyped, [Offer!Next]_(Offer!vars)
  PROVE  TrialTyped'
<1>1. CASE UNCHANGED <<trial_day, plan, started, ends, trial_sent, sync, job, arms, raced,
                       settled, scanned>>
  BY <1>1 DEF TrialTyped
<1>2. UNCHANGED Offer!vars => UNCHANGED <<trial_day, plan, started, ends, trial_sent, sync,
                                          job, arms, raced, settled, scanned>>
  BY DEF Offer!vars, Offer!user
<1>3. CASE Offer!midnight
  BY <1>3 DEF TrialTyped, Offer!midnight, Offer!user, Offer!TrialAssumption
<1>4. CASE Offer!restart
  BY <1>4 DEF TrialTyped, Offer!restart, Offer!user
<1>5. ASSUME NEW q \in Sync, Offer!reads_user(q) PROVE TrialTyped'
  BY <1>5 DEF TrialTyped, Offer!reads_user, Offer!may_start, Offer!user, Offer!TrialAssumption
<1>6. ASSUME NEW q \in Sync, Offer!maybe_start_trial(q) PROVE TrialTyped'
  <2>1. trial_day + TrialDays \in Nat /\ arms + 1 \in Nat
    BY DEF TrialTyped, Offer!TrialAssumption
  <2> QED BY <1>6, <2>1 DEF TrialTyped, Offer!maybe_start_trial
<1>7. CASE Offer!resolve_trial
  BY <1>7 DEF TrialTyped, Offer!resolve_trial, Offer!user, Offer!TrialAssumption
<1>8. ASSUME NEW to \in {"free", "pro"}, Offer!apply_subscription_state(to) PROVE TrialTyped'
  BY <1>8 DEF TrialTyped, Offer!apply_subscription_state, Offer!user, Offer!TrialAssumption
<1>9. CASE Offer!run_trial_notices
  <2>1. job' \in TrialJobs
    BY <1>9, TrialNotices DEF TrialTyped, Offer!run_trial_notices
  <2> QED BY <1>9, <2>1 DEF TrialTyped, Offer!run_trial_notices, Offer!user
<1>10. CASE Offer!queue_notice
  <2>a. PICK k \in Offer!Kind :
            /\ job \in TrialJobs /\ job # <<>> /\ k = Head(job) /\ job' = Tail(job)
            /\ trial_sent \in Seq(Offer!Kind) /\ trial_sent' \in Seq(Offer!Kind)
            /\ \/ trial_sent' = trial_sent /\ failed' = failed
               \/ trial_sent' = Append(trial_sent, k) /\ ~Notified(k) /\ failed' = failed
               \/ trial_sent' = trial_sent /\ failed' = failed \cup {k}
            /\ \A l : Notified(l) => Notified(l)'
            /\ \A l : Notified(l)' => Notified(l) \/ l = k
            /\ Notified(k)' \/ k \in failed'
    BY <1>10, TrialQueueEffect
  <2>1. Tail(job) \in TrialJobs
    BY <2>a, TrialJobParts DEF TrialJobs
  <2> QED BY <1>10, <2>a, <2>1 DEF TrialTyped, Offer!queue_notice, Offer!user
<1>11. CASE Offer!notices_end
  BY <1>11 DEF TrialTyped, Offer!notices_end, Offer!user, Offer!TrialAssumption
<1> QED BY <1>1, <1>2, <1>3, <1>4, <1>5, <1>6, <1>7, <1>8, <1>9, <1>10, <1>11 DEF Offer!Next

\* Only the start of the trial ends that.
LEMMA TrialFreshStep ==
  ASSUME Offer!TrialAssumption, TrialTyped, TrialFresh, [Offer!Next]_(Offer!vars)
  PROVE  TrialFresh'
<1>1. CASE UNCHANGED <<started, ends, arms, settled, trial_sent, job>>
  BY <1>1 DEF TrialFresh
<1>2. (UNCHANGED Offer!vars \/ Offer!midnight \/ (\E q \in Sync : Offer!reads_user(q))) =>
        UNCHANGED <<started, ends, arms, settled, trial_sent, job>>
  BY DEF Offer!vars, Offer!user, Offer!midnight, Offer!reads_user
<1>3. CASE Offer!restart
  BY <1>3 DEF TrialTyped, TrialFresh, Offer!restart, Offer!user, Offer!TrialAssumption
<1>4. ASSUME NEW q \in Sync, Offer!maybe_start_trial(q) PROVE TrialFresh'
  BY <1>4 DEF TrialTyped, TrialFresh, Offer!maybe_start_trial, Offer!user, Offer!TrialAssumption
<1>5. CASE Offer!resolve_trial
  BY <1>5 DEF TrialTyped, TrialFresh, Offer!resolve_trial, Offer!user, Offer!TrialAssumption
<1>6. ASSUME NEW to \in {"free", "pro"}, Offer!apply_subscription_state(to) PROVE TrialFresh'
  BY <1>6 DEF TrialTyped, TrialFresh, Offer!apply_subscription_state, Offer!user,
     Offer!TrialAssumption
<1>7. CASE Offer!run_trial_notices
  <2>1. started
    BY <1>7 DEF TrialFresh, Offer!run_trial_notices
  <2> QED BY <1>7, <2>1 DEF TrialFresh, Offer!run_trial_notices, Offer!user
<1>8. CASE Offer!queue_notice
  <2>1. started
    BY <1>8 DEF TrialFresh, Offer!queue_notice
  <2> QED BY <1>8, <2>1 DEF TrialFresh, Offer!queue_notice, Offer!user
<1>9. CASE Offer!notices_end
  BY <1>9 DEF TrialTyped, TrialFresh, Offer!notices_end, Offer!user, Offer!TrialAssumption
<1> QED BY <1>1, <1>2, <1>3, <1>4, <1>5, <1>6, <1>7, <1>8, <1>9 DEF Offer!Next

\* maybe_start_trial arms an account without a trial.
LEMMA TrialArmedStep ==
  ASSUME Offer!TrialAssumption, TrialTyped, TrialFresh, TrialArmed, [Offer!Next]_(Offer!vars)
  PROVE  TrialArmed'
<1>1. CASE UNCHANGED <<raced, arms, settled, ends, sync, started>>
  BY <1>1 DEF TrialArmed
<1>2. (UNCHANGED Offer!vars \/ Offer!midnight \/ Offer!run_trial_notices \/
        Offer!queue_notice \/ Offer!notices_end) =>
        UNCHANGED <<raced, arms, settled, ends, sync, started>>
  BY DEF Offer!vars, Offer!user, Offer!midnight, Offer!run_trial_notices, Offer!queue_notice,
     Offer!notices_end
<1>3. CASE Offer!restart
  BY <1>3 DEF TrialTyped, TrialFresh, TrialArmed, Offer!restart, Offer!user, Offer!TrialAssumption
<1>4. ASSUME NEW q \in Sync, Offer!reads_user(q) PROVE TrialArmed'
  BY <1>4 DEF TrialTyped, TrialFresh, TrialArmed, Offer!reads_user, Offer!may_start,
     Offer!user, Offer!TrialAssumption
<1>5. ASSUME NEW q \in Sync, Offer!maybe_start_trial(q) PROVE TrialArmed'
  <2> SUFFICES ASSUME ~raced' PROVE TrialArmed'
    BY DEF TrialArmed
  <2>1. ~raced /\ \A p \in Sync \ {q} : sync[p] # "arm"
    BY <1>5 DEF Offer!maybe_start_trial
  <2>2. ~started /\ arms = 0 /\ ~settled
    BY <1>5, <2>1 DEF Offer!maybe_start_trial, TrialArmed, TrialFresh
  <2>3. arms' = 1 /\ ~settled'
    BY <1>5, <2>2 DEF Offer!maybe_start_trial
  <2>4. \A p \in Sync : sync'[p] # "arm"
    BY <1>5, <2>1 DEF Offer!maybe_start_trial, TrialTyped
  <2> QED BY <2>3, <2>4 DEF TrialArmed
<1>6. CASE Offer!resolve_trial
  BY <1>6 DEF TrialTyped, TrialFresh, TrialArmed, Offer!resolve_trial, Offer!user,
     Offer!TrialAssumption
<1>7. ASSUME NEW to \in {"free", "pro"}, Offer!apply_subscription_state(to) PROVE TrialArmed'
  BY <1>7 DEF TrialTyped, TrialFresh, TrialArmed, Offer!apply_subscription_state, Offer!user,
     Offer!TrialAssumption
<1> QED BY <1>1, <1>2, <1>3, <1>4, <1>5, <1>6, <1>7 DEF Offer!Next

\* A notice is queued after the ones that it must not precede.
LEMMA TrialChronologicalStep ==
  ASSUME Offer!TrialAssumption, TrialTyped, TrialFresh, TrialArmed, TrialChronological,
    [Offer!Next]_(Offer!vars)
  PROVE  TrialChronological'
<1>1. CASE UNCHANGED <<raced, ends, trial_sent, job, trial_day>>
  BY <1>1 DEF TrialChronological, Notified
<1>2. (UNCHANGED Offer!vars \/ (\E q \in Sync : Offer!reads_user(q))) =>
        UNCHANGED <<raced, ends, trial_sent, job, trial_day>>
  BY DEF Offer!vars, Offer!user, Offer!reads_user
<1>3. CASE Offer!midnight
  <2>1. UNCHANGED trial_sent /\ (raced => raced') /\ (job' # job =>
          job' = None) /\ (ends' # ends => ends' = None)
        /\ trial_day <= trial_day' /\ trial_day \in Nat /\ ends \in Nat \cup {None} /\
           trial_day' \in Nat
    BY <1>3 DEF Offer!midnight, Offer!user, TrialTyped
  <2>2. /\ job' \in TrialJobs \ {<<>>, <<"trial_ending">>} =>
          job \in TrialJobs \ {<<>>, <<"trial_ending">>}
        /\ job' = <<"trial_ending">> => job = <<"trial_ending">>
    BY <2>1, TrialJobsAreSeqs DEF Offer!TrialAssumption, TrialJobs
  <2>3. Notified("trial_ended")' = Notified("trial_ended") /\
          Notified("trial_final")' = Notified("trial_final")
    BY <2>1 DEF Notified
  <2> QED BY <2>1, <2>2, <2>3 DEF TrialChronological
<1>4. CASE Offer!restart
  <2>1. UNCHANGED trial_sent /\ (raced => raced') /\ (job' # job =>
          job' = None) /\ (ends' # ends => ends' = None)
        /\ trial_day <= trial_day' /\ trial_day \in Nat /\ ends \in Nat \cup {None} /\
           trial_day' \in Nat
    BY <1>4 DEF Offer!restart, Offer!user, TrialTyped
  <2>2. /\ job' \in TrialJobs \ {<<>>, <<"trial_ending">>} =>
          job \in TrialJobs \ {<<>>, <<"trial_ending">>}
        /\ job' = <<"trial_ending">> => job = <<"trial_ending">>
    BY <2>1, TrialJobsAreSeqs DEF Offer!TrialAssumption, TrialJobs
  <2>3. Notified("trial_ended")' = Notified("trial_ended") /\
          Notified("trial_final")' = Notified("trial_final")
    BY <2>1 DEF Notified
  <2> QED BY <2>1, <2>2, <2>3 DEF TrialChronological
<1>5. ASSUME NEW q \in Sync, Offer!maybe_start_trial(q) PROVE TrialChronological'
  <2> SUFFICES ASSUME ~raced' PROVE TrialChronological'
    BY DEF TrialChronological
  <2>1. ~started
    BY <1>5 DEF Offer!maybe_start_trial, TrialArmed
  <2>2. trial_sent' = <<>> /\ job' = None
    BY <1>5, <2>1 DEF Offer!maybe_start_trial, TrialFresh
  <2>3. job' \notin TrialJobs /\ job' # <<"trial_ending">>
    BY <2>2, TrialJobsAreSeqs DEF Offer!TrialAssumption, TrialJobs
  <2>4. ~Notified("trial_ended")' /\ ~Notified("trial_final")' /\ Len(trial_sent') = 0
    BY <2>2 DEF Notified, Offer!Contains
  <2> QED BY <2>3, <2>4 DEF TrialChronological
<1>6. CASE Offer!resolve_trial
  <2>1. UNCHANGED trial_sent /\ (raced => raced') /\ (job' # job =>
          job' = None) /\ (ends' # ends => ends' = None)
        /\ trial_day <= trial_day' /\ trial_day \in Nat /\ ends \in Nat \cup {None} /\
           trial_day' \in Nat
    BY <1>6 DEF Offer!resolve_trial, Offer!user, TrialTyped
  <2>2. /\ job' \in TrialJobs \ {<<>>, <<"trial_ending">>} =>
          job \in TrialJobs \ {<<>>, <<"trial_ending">>}
        /\ job' = <<"trial_ending">> => job = <<"trial_ending">>
    BY <2>1, TrialJobsAreSeqs DEF Offer!TrialAssumption, TrialJobs
  <2>3. Notified("trial_ended")' = Notified("trial_ended") /\
          Notified("trial_final")' = Notified("trial_final")
    BY <2>1 DEF Notified
  <2> QED BY <2>1, <2>2, <2>3 DEF TrialChronological
<1>7. ASSUME NEW to \in {"free", "pro"}, Offer!apply_subscription_state(to)
      PROVE TrialChronological'
  <2>1. UNCHANGED trial_sent /\ (raced => raced') /\ (job' # job =>
          job' = None) /\ (ends' # ends => ends' = None)
        /\ trial_day <= trial_day' /\ trial_day \in Nat /\ ends \in Nat \cup {None} /\
           trial_day' \in Nat
    BY <1>7 DEF Offer!apply_subscription_state, Offer!user, TrialTyped
  <2>2. /\ job' \in TrialJobs \ {<<>>, <<"trial_ending">>} =>
          job \in TrialJobs \ {<<>>, <<"trial_ending">>}
        /\ job' = <<"trial_ending">> => job = <<"trial_ending">>
    BY <2>1, TrialJobsAreSeqs DEF Offer!TrialAssumption, TrialJobs
  <2>3. Notified("trial_ended")' = Notified("trial_ended") /\
          Notified("trial_final")' = Notified("trial_final")
    BY <2>1 DEF Notified
  <2> QED BY <2>1, <2>2, <2>3 DEF TrialChronological
<1>8. CASE Offer!run_trial_notices
  <2>1. /\ job' \in TrialJobs \ {<<>>, <<"trial_ending">>} => ends <= trial_day
        /\ job' = <<"trial_ending">> => trial_day < ends
        /\ ends # None /\ ends \in Nat /\ UNCHANGED <<raced, ends, trial_sent, trial_day>> /\
           trial_day \in Nat
    BY <1>8, TrialNotices DEF Offer!run_trial_notices, Offer!user, TrialTyped
  <2>2. Notified("trial_ended")' = Notified("trial_ended") /\
          Notified("trial_final")' = Notified("trial_final")
    BY <2>1 DEF Notified
  <2> QED BY <2>1, <2>2 DEF TrialChronological
<1>9. CASE Offer!queue_notice
  <2> SUFFICES ASSUME ~raced PROVE TrialChronological'
    BY <1>9 DEF TrialChronological, Offer!queue_notice
  <2>a. PICK k \in Offer!Kind :
            /\ job \in TrialJobs /\ job # <<>> /\ k = Head(job) /\ job' = Tail(job)
            /\ trial_sent \in Seq(Offer!Kind) /\ trial_sent' \in Seq(Offer!Kind)
            /\ \/ trial_sent' = trial_sent /\ failed' = failed
               \/ trial_sent' = Append(trial_sent, k) /\ ~Notified(k) /\ failed' = failed
               \/ trial_sent' = trial_sent /\ failed' = failed \cup {k}
            /\ \A l : Notified(l) => Notified(l)'
            /\ \A l : Notified(l)' => Notified(l) \/ l = k
            /\ Notified(k)' \/ k \in failed'
    BY <1>9, TrialQueueEffect
  <2>b. UNCHANGED <<raced, ends, trial_day>>
    BY <1>9 DEF Offer!queue_notice, Offer!user
  <2>1. k # "trial_ending" => job \in TrialJobs \ {<<>>, <<"trial_ending">>}
    BY <2>a, TrialJobParts
  <2>2. k = "trial_ending" => job = <<"trial_ending">>
    BY <2>a, TrialJobParts
  <2>3. job' \in {<<>>, <<"trial_final">>}
    BY <2>a, TrialJobParts
  <2>4. job' \in TrialJobs \ {<<>>, <<"trial_ending">>} =>
          job \in TrialJobs \ {<<>>, <<"trial_ending">>}
    BY <2>a, <2>3, TrialJobParts
  <2>5. job' # <<"trial_ending">>
    <3>1. <<>> # <<"trial_ending">> /\ <<"trial_final">> # <<"trial_ending">>
      OBVIOUS
    <3> QED BY <2>3, <3>1
  <2>6. \A i \in 1 .. Len(trial_sent') : trial_sent'[i] = "trial_ending" => i = 1
    <3>1. CASE trial_sent' = trial_sent
      BY <3>1 DEF TrialChronological
    <3>2. CASE trial_sent' = Append(trial_sent, k) /\ k # "trial_ending"
      BY <2>a, <3>2 DEF TrialChronological
    <3>3. CASE trial_sent' = Append(trial_sent, k) /\ k = "trial_ending" /\ ~Notified(k)
      <4>1. \A l \in Offer!Kind : ~Notified(l)
        BY <2>2, <3>3 DEF TrialChronological, Offer!Kind
      <4>2. Len(trial_sent) = 0
        BY <2>a, <4>1 DEF Notified, Offer!Contains
      <4> QED BY <2>a, <3>3, <4>2
    <3> QED BY <2>a, <3>1, <3>2, <3>3
  <2>7. Notified("trial_ended")' \/ Notified("trial_final")' =>
           Notified("trial_ended") \/ Notified("trial_final") \/
             job \in TrialJobs \ {<<>>, <<"trial_ending">>}
    BY <2>a, <2>1
  <2> QED BY <2>b, <2>4, <2>5, <2>6, <2>7 DEF TrialChronological
<1>10. CASE Offer!notices_end
  <2>1. UNCHANGED trial_sent /\ (raced => raced') /\ (job' # job =>
          job' = None) /\ (ends' # ends => ends' = None)
        /\ trial_day <= trial_day' /\ trial_day \in Nat /\ ends \in Nat \cup {None} /\
           trial_day' \in Nat
    BY <1>10 DEF Offer!notices_end, Offer!user, TrialTyped
  <2>2. /\ job' \in TrialJobs \ {<<>>, <<"trial_ending">>} =>
          job \in TrialJobs \ {<<>>, <<"trial_ending">>}
        /\ job' = <<"trial_ending">> => job = <<"trial_ending">>
    BY <2>1, TrialJobsAreSeqs DEF Offer!TrialAssumption, TrialJobs
  <2>3. Notified("trial_ended")' = Notified("trial_ended") /\
          Notified("trial_final")' = Notified("trial_final")
    BY <2>1 DEF Notified
  <2> QED BY <2>1, <2>2, <2>3 DEF TrialChronological
<1> QED BY <1>1, <1>2, <1>3, <1>4, <1>5, <1>6, <1>7, <1>8, <1>9, <1>10 DEF Offer!Next

\* The job queues the final notice after that of the end.
LEMMA TrialFinalLastStep ==
  ASSUME Offer!TrialAssumption, TrialTyped, TrialFinalLast, [Offer!Next]_(Offer!vars)
  PROVE  TrialFinalLast'
<1>1. CASE UNCHANGED <<job, trial_sent, failed>>
  BY <1>1 DEF TrialFinalLast, Notified, Offer!before
<1>2. (UNCHANGED Offer!vars \/ Offer!midnight \/ (\E q \in Sync : Offer!reads_user(q)) \/
        (\E q \in Sync : Offer!maybe_start_trial(q)) \/ Offer!resolve_trial \/
        (\E to \in {"free", "pro"} : Offer!apply_subscription_state(to))) =>
        UNCHANGED <<job, trial_sent, failed>>
  BY DEF Offer!vars, Offer!user, Offer!midnight, Offer!reads_user, Offer!maybe_start_trial,
     Offer!resolve_trial, Offer!apply_subscription_state
<1>3. CASE Offer!restart
  <2>1. UNCHANGED trial_sent /\ failed \subseteq failed' /\ job' # <<"trial_final">>
    BY <1>3, TrialJobsAreSeqs DEF Offer!restart, TrialJobs, Offer!TrialAssumption
  <2>2. /\ Notified("trial_final")' => Notified("trial_final")
        /\ Offer!before("trial_ended", "trial_final") =>
           Offer!before("trial_ended", "trial_final")'
    BY <2>1 DEF Notified, Offer!before
  <2> QED BY <2>1, <2>2 DEF TrialFinalLast
<1>4. CASE Offer!run_trial_notices
  <2>1. UNCHANGED trial_sent /\ failed \subseteq failed' /\ job' # <<"trial_final">>
    BY <1>4, TrialJobsAreSeqs DEF Offer!run_trial_notices, Offer!notices_for, TrialJobs,
       Offer!TrialAssumption
  <2>2. /\ Notified("trial_final")' => Notified("trial_final")
        /\ Offer!before("trial_ended", "trial_final") =>
           Offer!before("trial_ended", "trial_final")'
    BY <2>1 DEF Notified, Offer!before
  <2> QED BY <2>1, <2>2 DEF TrialFinalLast
<1>5. CASE Offer!queue_notice
  <2>a. PICK k \in Offer!Kind :
            /\ job \in TrialJobs /\ job # <<>> /\ k = Head(job) /\ job' = Tail(job)
            /\ trial_sent \in Seq(Offer!Kind) /\ trial_sent' \in Seq(Offer!Kind)
            /\ \/ trial_sent' = trial_sent /\ failed' = failed
               \/ trial_sent' = Append(trial_sent, k) /\ ~Notified(k) /\ failed' = failed
               \/ trial_sent' = trial_sent /\ failed' = failed \cup {k}
            /\ \A l : Notified(l) => Notified(l)'
            /\ \A l : Notified(l)' => Notified(l) \/ l = k
            /\ Notified(k)' \/ k \in failed'
    BY <1>5, TrialQueueEffect
  <2>3. job' = <<"trial_final">> => k = "trial_ended"
    BY <2>a, TrialJobParts
  <2>4. Offer!before("trial_ended", "trial_final") => Offer!before("trial_ended", "trial_final")'
    <3>1. CASE trial_sent' = trial_sent
      BY <3>1 DEF Offer!before
    <3>2. CASE trial_sent' = Append(trial_sent, k)
      BY <2>a, <3>2 DEF Offer!before
    <3> QED BY <2>a, <3>1, <3>2
  <2>5. Notified("trial_final")' =>
          Offer!before("trial_ended", "trial_final")' \/ "trial_ended" \in failed'
    <3>1. CASE Notified("trial_final")
      BY <2>a, <2>4, <3>1 DEF TrialFinalLast
    <3>2. CASE trial_sent' = Append(trial_sent, k) /\ k = "trial_final" /\ failed' = failed
      <4>1. job = <<"trial_final">> \/ job = <<"trial_ended", "trial_final">>
        BY <2>a, <3>2, TrialJobParts
      <4>2. job = <<"trial_final">>
        BY <2>a, <3>2, <4>1
      <4>3. CASE Notified("trial_ended")
        <5>1. PICK i \in 1 .. Len(trial_sent) : trial_sent[i] = "trial_ended"
          BY <4>3 DEF Notified, Offer!Contains
        <5>2. Len(trial_sent) \in Nat /\ Len(trial_sent') = Len(trial_sent) + 1 /\
                trial_sent'[i] = "trial_ended"
              /\ trial_sent'[Len(trial_sent) + 1] = "trial_final"
          BY <2>a, <3>2, <5>1
        <5> QED BY <5>1, <5>2 DEF Offer!before
      <4> QED BY <3>2, <4>2, <4>3 DEF TrialFinalLast
    <3>3. CASE trial_sent' = trial_sent
      BY <2>4, <2>a, <3>3 DEF Notified, TrialFinalLast
    <3>4. CASE trial_sent' = Append(trial_sent, k) /\ k # "trial_final"
      BY <2>a, <3>1, <3>4
    <3> QED BY <2>a, <3>1, <3>2, <3>3, <3>4
  <2> QED BY <2>a, <2>3, <2>5 DEF TrialFinalLast
<1>6. CASE Offer!notices_end
  <2>1. UNCHANGED trial_sent /\ failed \subseteq failed' /\ job' # <<"trial_final">>
    BY <1>6, TrialJobsAreSeqs DEF Offer!notices_end, TrialJobs, Offer!TrialAssumption
  <2>2. /\ Notified("trial_final")' => Notified("trial_final")
        /\ Offer!before("trial_ended", "trial_final") =>
           Offer!before("trial_ended", "trial_final")'
    BY <2>1 DEF Notified, Offer!before
  <2> QED BY <2>1, <2>2 DEF TrialFinalLast
<1> QED BY <1>1, <1>2, <1>3, <1>4, <1>5, <1>6 DEF Offer!Next

\* A scan in the grace period has the notice of the end in its list, if it was not sent.
LEMMA TrialPromisedStep ==
  ASSUME Offer!TrialAssumption, TrialTyped, TrialPromised, [Offer!Next]_(Offer!vars)
  PROVE  TrialPromised'
<1>1. CASE UNCHANGED <<scanned, ends, trial_sent, job, failed>>
  BY <1>1 DEF TrialPromised, Notified
<1>2. (UNCHANGED Offer!vars \/ Offer!midnight \/ (\E q \in Sync : Offer!reads_user(q))) =>
        UNCHANGED <<scanned, ends, trial_sent, job, failed>>
  BY DEF Offer!vars, Offer!user, Offer!midnight, Offer!reads_user
<1>3. CASE Offer!restart
  <2>1. job \in {<<"trial_ended">>, <<"trial_ended", "trial_final">>} => "trial_ended" \in failed'
    BY <1>3 DEF Offer!restart, Offer!Range
  <2>2. UNCHANGED <<ends, trial_sent, scanned>> /\ failed \subseteq failed' /\
          Notified("trial_ended")' = Notified("trial_ended")
    BY <1>3 DEF Offer!restart, Offer!user, Notified
  <2> QED BY <2>1, <2>2 DEF TrialPromised
<1>4. ASSUME NEW q \in Sync, Offer!maybe_start_trial(q) PROVE TrialPromised'
  <2>1. \A d \in scanned' : ~(ends' <= d)
    BY <1>4 DEF Offer!maybe_start_trial, TrialTyped, Offer!TrialAssumption
  <2> QED BY <2>1 DEF TrialPromised
<1>5. CASE Offer!resolve_trial
  <2>1. UNCHANGED <<scanned, trial_sent, job, failed>> /\ (ends' = ends \/ ends' = None)
    BY <1>5 DEF Offer!resolve_trial
  <2> QED BY <2>1 DEF TrialPromised, Notified
<1>6. ASSUME NEW to \in {"free", "pro"}, Offer!apply_subscription_state(to) PROVE TrialPromised'
  <2>1. UNCHANGED <<scanned, trial_sent, job, failed>> /\ (ends' = ends \/ ends' = None)
    BY <1>6 DEF Offer!apply_subscription_state
  <2> QED BY <2>1 DEF TrialPromised, Notified
<1>7. CASE Offer!run_trial_notices
  <2>1. /\ scanned' = scanned \cup {trial_day} /\ UNCHANGED <<ends, trial_sent, failed>> /\
          job = None
        /\ Notified("trial_ended")' = Notified("trial_ended")
    BY <1>7 DEF Offer!run_trial_notices, Offer!user, Notified
  <2>2. ends <= trial_day /\ trial_day < ends + Grace =>
           job' \in {<<"trial_ended">>, <<"trial_ended", "trial_final">>}
    BY <1>7, TrialNotices DEF Offer!run_trial_notices, TrialTyped
  <2>3. None \notin {<<"trial_ended">>, <<"trial_ended", "trial_final">>}
    BY TrialJobsAreSeqs DEF Offer!TrialAssumption, TrialJobs
  <2> QED BY <2>1, <2>2, <2>3 DEF TrialPromised
<1>8. CASE Offer!queue_notice
  <2>a. PICK k \in Offer!Kind :
            /\ job \in TrialJobs /\ job # <<>> /\ k = Head(job) /\ job' = Tail(job)
            /\ trial_sent \in Seq(Offer!Kind) /\ trial_sent' \in Seq(Offer!Kind)
            /\ \/ trial_sent' = trial_sent /\ failed' = failed
               \/ trial_sent' = Append(trial_sent, k) /\ ~Notified(k) /\ failed' = failed
               \/ trial_sent' = trial_sent /\ failed' = failed \cup {k}
            /\ \A l : Notified(l) => Notified(l)'
            /\ \A l : Notified(l)' => Notified(l) \/ l = k
            /\ Notified(k)' \/ k \in failed'
    BY <1>8, TrialQueueEffect
  <2>b. UNCHANGED <<scanned, ends>> /\ failed \subseteq failed'
    BY <1>8, <2>a DEF Offer!queue_notice, Offer!user
  <2>3. job \in {<<"trial_ended">>, <<"trial_ended", "trial_final">>} => k = "trial_ended"
    BY <2>a, TrialJobParts
  <2> QED BY <2>a, <2>b, <2>3 DEF TrialPromised
<1>9. CASE Offer!notices_end
  <2>1. UNCHANGED <<scanned, trial_sent, ends, failed>> /\ job = <<>>
    BY <1>9 DEF Offer!notices_end, Offer!user
  <2> QED BY <2>1 DEF TrialPromised, Notified
<1> QED BY <1>1, <1>2, <1>3, <1>4, <1>5, <1>6, <1>7, <1>8, <1>9 DEF Offer!Next

\* is_due refuses a notice that was sent.
LEMMA TrialInjectiveStep ==
  ASSUME Offer!TrialAssumption, TrialTyped, Offer!IsInjective(trial_sent),
    [Offer!Next]_(Offer!vars)
  PROVE  Offer!IsInjective(trial_sent')
<1>1. CASE UNCHANGED <<trial_sent>>
  BY <1>1 DEF Offer!vars
<1>2. (UNCHANGED Offer!vars \/ Offer!midnight \/ Offer!restart \/
        (\E q \in Sync : Offer!reads_user(q)) \/
        (\E q \in Sync : Offer!maybe_start_trial(q)) \/ Offer!resolve_trial \/
        (\E to \in {"free", "pro"} : Offer!apply_subscription_state(to)) \/
        Offer!run_trial_notices \/ Offer!notices_end) => UNCHANGED <<trial_sent>>
  BY DEF Offer!vars, Offer!user, Offer!midnight, Offer!restart, Offer!reads_user,
     Offer!maybe_start_trial, Offer!resolve_trial, Offer!apply_subscription_state,
     Offer!run_trial_notices, Offer!notices_end
<1>3. CASE Offer!queue_notice
  <2>a. PICK k \in Offer!Kind :
            /\ job \in TrialJobs /\ job # <<>> /\ k = Head(job) /\ job' = Tail(job)
            /\ trial_sent \in Seq(Offer!Kind) /\ trial_sent' \in Seq(Offer!Kind)
            /\ \/ trial_sent' = trial_sent /\ failed' = failed
               \/ trial_sent' = Append(trial_sent, k) /\ ~Notified(k) /\ failed' = failed
               \/ trial_sent' = trial_sent /\ failed' = failed \cup {k}
            /\ \A l : Notified(l) => Notified(l)'
            /\ \A l : Notified(l)' => Notified(l) \/ l = k
            /\ Notified(k)' \/ k \in failed'
    BY <1>3, TrialQueueEffect
  <2>1. CASE trial_sent' = trial_sent
    BY <2>1 DEF Offer!IsInjective
  <2>2. CASE trial_sent' = Append(trial_sent, k) /\ ~Notified(k)
    BY <2>a, <2>2 DEF Offer!IsInjective, Notified, Offer!Contains
  <2> QED BY <2>a, <2>1, <2>2
<1> QED BY <1>1, <1>2, <1>3 DEF Offer!Next

\* TrialInv holds in every reachable state.
LEMMA TrialInductive ==
  ASSUME Offer!TrialAssumption
  PROVE  Offer!Spec => []TrialInv
<1>1. Offer!Init => TrialInv
  <2> SUFFICES ASSUME Offer!Init PROVE TrialInv
    OBVIOUS
  <2>1. <<>> \in Seq(Offer!Kind) /\ Offer!IsInjective(<<>>) /\ \A k : ~Offer!Contains(<<>>, k)
    BY DEF Offer!IsInjective, Offer!Contains
  <2>2. TrialTyped
    BY <2>1 DEF Offer!Init, TrialTyped
  <2>7. TrialFresh /\ TrialArmed
    BY DEF Offer!Init, TrialFresh, TrialArmed
  <2>3. None \notin TrialJobs
    BY TrialJobsAreSeqs DEF Offer!TrialAssumption
  <2>4. job = None /\ trial_sent = <<>> /\ ends = None /\ scanned = {} /\
          ~Notified("trial_final") /\ ~Notified("trial_ended")
    BY <2>1 DEF Offer!Init, Notified
  <2>5. job # <<"trial_ending">> /\ job # <<"trial_final">> /\ Len(trial_sent) = 0
    BY <2>3, <2>4 DEF TrialJobs
  <2>6. TrialChronological /\ TrialFinalLast /\ TrialPromised
    BY <2>4, <2>5 DEF TrialChronological, TrialFinalLast, TrialPromised
  <2> QED BY <2>1, <2>2, <2>4, <2>6, <2>7 DEF TrialInv
<1>2. TrialInv /\ [Offer!Next]_(Offer!vars) => TrialInv'
  BY TrialTypedStep, TrialFreshStep, TrialArmedStep, TrialChronologicalStep,
     TrialFinalLastStep, TrialPromisedStep, TrialInjectiveStep
     DEF TrialInv
<1> QED BY <1>1, <1>2, PTL DEF Offer!Spec

\* What the trial promises (maybe_start_trial, resolve_trial, run_trial_notices).
THEOREM TrialKept ==
  ASSUME Offer!TrialAssumption
  PROVE  Offer!Spec => []Offer!TrialRight
<1>1. TrialInv => Offer!TrialRight
  <2> SUFFICES ASSUME TrialInv PROVE Offer!TrialRight
    OBVIOUS
  <2>1. Offer!OneTrial
    BY DEF TrialInv, TrialArmed, Offer!OneTrial
  <2>2. \A k \in Offer!Kind : Offer!before(k, "trial_ending") => raced
    <3> SUFFICES ASSUME NEW k \in Offer!Kind, Offer!before(k, "trial_ending"), ~raced PROVE FALSE
      OBVIOUS
    <3>1. PICK i, j \in 1 .. Len(trial_sent) : i < j /\ trial_sent[j] = "trial_ending"
      BY DEF Offer!before
    <3> QED BY <3>1 DEF TrialInv, TrialChronological
  <2>3. Offer!NoticesOrdered
    BY <2>2 DEF TrialInv, TrialFinalLast, Notified, Offer!NoticesOrdered
  <2>4. Offer!LapseTold
    BY TrialJobsAreSeqs DEF TrialInv, TrialPromised, Notified, Offer!LapseTold,
       Offer!TrialAssumption, TrialJobs
  <2> QED BY <2>1, <2>3, <2>4 DEF Offer!TrialRight, Offer!NoticesRight
<1> QED BY <1>1, TrialInductive, PTL

-----------------------------------------------------------------------------
(***************************************************************************)
(* Alerts: an event and a ticker are announced once                        *)
(***************************************************************************)

\* The scan is between the creation of an alert and the note that it is delivered.
AlertsDelivering(s) == alerts_pc[s] \in {"enqueue", "mark"}

\* Alerts, and those of a scan on a day that the bound leaves out.
AlertsItem == Scans!Alert \cup [day : Nat, tickers : SUBSET Ticker]

\* The type invariant; days and message counts need no bound here.
AlertsTyped ==
    /\ alerts_day \in Nat /\ stored \subseteq Scans!Alert /\ delivered \subseteq stored /\
       lost \subseteq stored
    /\ alerts_queued \in [Scans!Alert -> Nat]
    /\ alerts_pc \in [Scan -> Scans!Place] /\ todo \in [Scan -> SUBSET AlertsItem]
    /\ hit \in [Scan -> SUBSET Ticker]
    /\ stored_by \in [Scans!Alert -> Scan \cup {None}] /\
       now \in [Scan -> Scans!Alert \cup {None}]

\* A scan that is delivering has an alert of its own in hand.
AlertsInHand ==
    /\ \A s \in Scan : AlertsDelivering(s) =>
          /\ now[s] \in stored \ lost
          /\ alerts_queued[now[s]] = IF alerts_pc[s] = "enqueue" THEN 0 ELSE 1
    /\ \A s, r \in Scan : AlertsDelivering(s) /\ AlertsDelivering(r) /\ now[s] = now[r] => s = r

\* An alert that was stored and not queued is in hand, or is lost.
AlertsCounted ==
    /\ \A a \in Scans!Alert \ stored : alerts_queued[a] = 0
    /\ \A a \in lost : alerts_queued[a] = 0
    /\ \A a \in delivered : alerts_queued[a] = 1
    /\ \A a \in stored :
          \/ alerts_queued[a] = 1
          \/ alerts_queued[a] = 0 /\ (a \in lost \/
             \E s \in Scan : alerts_pc[s] = "enqueue" /\ now[s] = a)

\* Scans that run at once have met.
AlertsMet == \A s, r \in Scan : Scans!Running(s) /\ Scans!Running(r) /\ s # r =>
  {s, r} \in alerts_met

\* An alert of scan s of day d may name a ticker that b has named.
AlertsApart(d, b, s) == d - b.day >= Cooldown \/ {s, stored_by[b]} \in alerts_met

\* A scan stores no price alert before it has narrated one,
AlertsNotYet ==
    \A s \in Scan : alerts_pc[s] \in {"idle", "synthesis", "cooldown", "narration"} =>
        \A b \in stored \cap Scans!Price : stored_by[b] # s

\* what it narrates has passed the cooldown,
AlertsNarrated ==
    \A s \in Scan : alerts_pc[s] = "narration" =>
        \A b \in stored \cap Scans!Price : hit[s] \cap b.tickers = {} \/
          AlertsApart(alerts_day, b, s)

\* and it has one alert for all of it, which is still apart when it is stored.
AlertsReady ==
    \A s \in Scan : alerts_pc[s] \in {"deliver", "enqueue", "mark"} =>
        \A a \in todo[s] \cap Scans!Price :
            /\ todo[s] = {a}
            /\ \A b \in stored \cap Scans!Price :
                  a # b => a.tickers \cap b.tickers = {} \/ AlertsApart(a.day, b, s)

\* What is inductive about the alerts.
AlertsInv ==
    /\ AlertsTyped /\ AlertsInHand /\ AlertsCounted /\ AlertsMet /\ AlertsNotYet /\
       AlertsNarrated /\ AlertsReady /\ Scans!CooldownHeld

\* An alert about an event is not one about a price.
LEMMA AlertsDiffer == \A x \in [event : Event] : x \notin Scans!Price
BY DEF Scans!Price

\* Every step keeps the types.
LEMMA AlertsTypedStep ==
  ASSUME Scans!AlertsAssumption, AlertsTyped, AlertsInHand, [Scans!Next]_(Scans!vars)
  PROVE  AlertsTyped'
<1>1. CASE UNCHANGED <<alerts_day, stored, delivered, alerts_queued, alerts_pc, now, todo, hit,
                       stored_by, lost>>
  BY <1>1 DEF AlertsTyped, Scans!Place
<1>2. UNCHANGED Scans!vars => UNCHANGED <<alerts_day, stored, delivered, alerts_queued,
                                          alerts_pc, now, todo, hit, stored_by, lost>>
  BY DEF Scans!vars, Scans!row
<1>3. ASSUME NEW s \in Scan, Scans!run_macro_scan(s) PROVE AlertsTyped'
  BY <1>3 DEF AlertsTyped, AlertsInHand, Scans!Place, Scans!run_macro_scan, Scans!row,
     Scans!goto, Scans!starts, Scans!Running
<1>4. ASSUME NEW s \in Scan, Scans!synthesize_for_user(s) PROVE AlertsTyped'
  <2>1. todo' \in [Scan -> SUBSET AlertsItem]
    <3>1. CASE UNCHANGED todo
      BY <3>1 DEF AlertsTyped
    <3>2. ASSUME NEW events \in SUBSET [event : Event], todo' = [todo EXCEPT ![s] = events]
          PROVE  todo' \in [Scan -> SUBSET AlertsItem]
      <4>1. events \in SUBSET AlertsItem
        BY DEF AlertsItem, Scans!Alert
      <4> QED BY <3>2, <4>1 DEF AlertsTyped
    <3> QED BY <1>4, <3>1, <3>2 DEF Scans!synthesize_for_user
  <2>2. alerts_pc' \in [Scan -> Scans!Place]
    BY <1>4 DEF AlertsTyped, Scans!synthesize_for_user, Scans!goto, Scans!Place
  <2> QED BY <1>4, <2>1, <2>2 DEF AlertsTyped, Scans!synthesize_for_user, Scans!row
<1>5. ASSUME NEW s \in Scan, Scans!run_anomaly_scan(s) PROVE AlertsTyped'
  BY <1>5 DEF AlertsTyped, AlertsInHand, Scans!Place, Scans!run_anomaly_scan, Scans!row,
     Scans!goto, Scans!starts, Scans!Running
<1>6. ASSUME NEW s \in Scan, Scans!cooldown_filter(s) PROVE AlertsTyped'
  BY <1>6 DEF AlertsTyped, AlertsInHand, Scans!Place, Scans!cooldown_filter, Scans!row,
     Scans!goto, Scans!cooled
<1>7. ASSUME NEW s \in Scan, Scans!narrate(s) PROVE AlertsTyped'
  <2>1. [day |-> alerts_day, tickers |-> hit[s]] \in AlertsItem
    BY DEF AlertsTyped, AlertsItem
  <2>2. todo' \in [Scan -> SUBSET AlertsItem] /\ alerts_pc' \in [Scan -> Scans!Place]
    BY <1>7, <2>1 DEF AlertsTyped, Scans!narrate, Scans!goto, Scans!Place
  <2> QED BY <1>7, <2>2 DEF AlertsTyped, Scans!narrate, Scans!row
<1>8. ASSUME NEW s \in Scan, NEW a \in Scans!Alert, Scans!create_alert_if_new(s, a)
      PROVE AlertsTyped'
  BY <1>8 DEF AlertsTyped, AlertsInHand, Scans!Place, Scans!create_alert_if_new, Scans!row,
     Scans!goto, Scans!is_new
<1>9. ASSUME NEW s \in Scan, Scans!enqueue_outbound(s) PROVE AlertsTyped'
  <2>1. now[s] \in stored
    BY <1>9 DEF AlertsInHand, AlertsDelivering, Scans!enqueue_outbound
  <2>2. lost' \subseteq stored /\ alerts_queued' \in [Scans!Alert -> Nat]
    BY <1>9, <2>1 DEF AlertsTyped, Scans!enqueue_outbound
  <2>3. alerts_pc' \in [Scan -> Scans!Place]
    BY <1>9 DEF AlertsTyped, Scans!enqueue_outbound, Scans!goto, Scans!Place
  <2> QED BY <1>9, <2>2, <2>3 DEF AlertsTyped, Scans!enqueue_outbound
<1>10. ASSUME NEW s \in Scan, Scans!mark_alert_delivered(s) PROVE AlertsTyped'
  <2>1. now[s] \in stored
    BY <1>10 DEF AlertsInHand, AlertsDelivering, Scans!mark_alert_delivered
  <2>2. delivered' \subseteq stored
    BY <1>10, <2>1 DEF AlertsTyped, Scans!mark_alert_delivered
  <2>3. alerts_pc' \in [Scan -> Scans!Place]
    BY <1>10 DEF AlertsTyped, Scans!mark_alert_delivered, Scans!goto, Scans!Place
  <2> QED BY <1>10, <2>2, <2>3 DEF AlertsTyped, Scans!mark_alert_delivered
<1>11. ASSUME NEW s \in Scan, Scans!finalize_run(s) PROVE AlertsTyped'
  BY <1>11 DEF AlertsTyped, AlertsInHand, Scans!Place, Scans!finalize_run, Scans!row, Scans!goto
<1>12. CASE Scans!midnight
  BY <1>12 DEF AlertsTyped, AlertsInHand, Scans!Place, Scans!midnight, Scans!row, Scans!goto
<1>13. ASSUME NEW s \in Scan, Scans!restart(s) PROVE AlertsTyped'
  <2>1. lost' \subseteq stored
    BY <1>13 DEF AlertsTyped, AlertsInHand, AlertsDelivering, Scans!restart
  <2>2. alerts_pc' \in [Scan -> Scans!Place]
    BY <1>13 DEF AlertsTyped, Scans!restart, Scans!goto, Scans!Place
  <2> QED BY <1>13, <2>1, <2>2 DEF AlertsTyped, Scans!restart
<1> QED BY <1>1, <1>2, <1>3, <1>4, <1>5, <1>6, <1>7, <1>8, <1>9, <1>10, <1>11, <1>12, <1>13
           DEF Scans!Next, Scans!scan

\* A scan takes an alert of its own in hand and delivers that one.
LEMMA AlertsInHandStep ==
  ASSUME Scans!AlertsAssumption, AlertsTyped, AlertsInHand, AlertsCounted,
    [Scans!Next]_(Scans!vars)
  PROVE  AlertsInHand'
<1>1. CASE UNCHANGED <<alerts_pc, now, stored, lost, alerts_queued>>
  BY <1>1 DEF AlertsInHand, AlertsDelivering
<1>2. (UNCHANGED Scans!vars \/ Scans!midnight) =>
        UNCHANGED <<alerts_pc, now, stored, lost, alerts_queued>>
  BY DEF Scans!vars, Scans!row, Scans!midnight, Scans!goto
<1>3. ASSUME NEW s \in Scan, Scans!run_macro_scan(s) PROVE AlertsInHand'
  BY <1>3 DEF AlertsTyped, AlertsInHand, AlertsCounted, AlertsDelivering, Scans!run_macro_scan,
     Scans!row, Scans!goto, Scans!starts, Scans!Running
<1>4. ASSUME NEW s \in Scan, Scans!synthesize_for_user(s) PROVE AlertsInHand'
  BY <1>4 DEF AlertsTyped, AlertsInHand, AlertsCounted, AlertsDelivering,
     Scans!synthesize_for_user, Scans!row, Scans!goto
<1>5. ASSUME NEW s \in Scan, Scans!run_anomaly_scan(s) PROVE AlertsInHand'
  BY <1>5 DEF AlertsTyped, AlertsInHand, AlertsCounted, AlertsDelivering,
     Scans!run_anomaly_scan, Scans!row, Scans!goto, Scans!starts, Scans!Running
<1>6. ASSUME NEW s \in Scan, Scans!cooldown_filter(s) PROVE AlertsInHand'
  BY <1>6 DEF AlertsTyped, AlertsInHand, AlertsCounted, AlertsDelivering,
     Scans!cooldown_filter, Scans!row, Scans!goto, Scans!cooled
<1>7. ASSUME NEW s \in Scan, Scans!narrate(s) PROVE AlertsInHand'
  BY <1>7 DEF AlertsTyped, AlertsInHand, AlertsCounted, AlertsDelivering, Scans!narrate,
     Scans!row, Scans!goto
<1>8. ASSUME NEW s \in Scan, NEW a \in Scans!Alert, Scans!create_alert_if_new(s, a)
      PROVE AlertsInHand'
  <2>1. CASE UNCHANGED <<stored, now, alerts_queued, lost>> /\ ~AlertsDelivering(s) /\
          alerts_pc'[s] \in {"deliver", "done"}
             /\ \A r \in Scan \ {s} : alerts_pc'[r] = alerts_pc[r]
    BY <2>1 DEF AlertsInHand, AlertsDelivering
  <2>2. CASE /\ a \notin stored /\ Scans!goto(s, "enqueue")
             /\ stored' = stored \cup {a} /\ now' = [now EXCEPT ![s] = a] /\
                UNCHANGED <<alerts_queued, lost>>
    <3>1. alerts_pc'[s] = "enqueue" /\ now'[s] = a /\ a \notin lost /\ alerts_queued[a] = 0
      BY <2>2 DEF AlertsTyped, Scans!goto, AlertsCounted
    <3>2. \A r \in Scan \ {s} : alerts_pc'[r] = alerts_pc[r] /\ now'[r] = now[r] /\
            (AlertsDelivering(r) => now[r] # a)
      BY <2>2 DEF AlertsTyped, Scans!goto, AlertsInHand
    <3> QED BY <2>2, <3>1, <3>2 DEF AlertsInHand, AlertsDelivering
  <2> QED BY <1>8, <2>1, <2>2 DEF Scans!create_alert_if_new, Scans!is_new, Scans!goto,
             AlertsTyped, AlertsDelivering
<1>9. ASSUME NEW s \in Scan, Scans!enqueue_outbound(s) PROVE AlertsInHand'
  BY <1>9 DEF AlertsTyped, AlertsInHand, AlertsCounted, AlertsDelivering,
     Scans!enqueue_outbound, Scans!row, Scans!goto
<1>10. ASSUME NEW s \in Scan, Scans!mark_alert_delivered(s) PROVE AlertsInHand'
  BY <1>10 DEF AlertsTyped, AlertsInHand, AlertsCounted, AlertsDelivering,
     Scans!mark_alert_delivered, Scans!row, Scans!goto
<1>11. ASSUME NEW s \in Scan, Scans!finalize_run(s) PROVE AlertsInHand'
  BY <1>11 DEF AlertsTyped, AlertsInHand, AlertsCounted, AlertsDelivering, Scans!finalize_run,
     Scans!row, Scans!goto
<1>12. ASSUME NEW s \in Scan, Scans!restart(s) PROVE AlertsInHand'
  BY <1>12 DEF AlertsTyped, AlertsInHand, AlertsCounted, AlertsDelivering, Scans!restart,
     Scans!row, Scans!goto, Scans!Running
<1> QED BY <1>1, <1>2, <1>3, <1>4, <1>5, <1>6, <1>7, <1>8, <1>9, <1>10, <1>11, <1>12
           DEF Scans!Next, Scans!scan

\* An alert is queued once at most, since create_alert_if_new stores it once.
LEMMA AlertsCountedStep ==
  ASSUME Scans!AlertsAssumption, AlertsTyped, AlertsInHand, AlertsCounted,
    [Scans!Next]_(Scans!vars)
  PROVE  AlertsCounted'
<1>1. CASE UNCHANGED <<alerts_pc, now, stored, lost, alerts_queued, delivered>>
  BY <1>1 DEF AlertsCounted, AlertsDelivering
<1>2. (UNCHANGED Scans!vars \/ Scans!midnight) =>
        UNCHANGED <<alerts_pc, now, stored, lost, alerts_queued, delivered>>
  BY DEF Scans!vars, Scans!row, Scans!midnight, Scans!goto
<1>3. ASSUME NEW s \in Scan, Scans!run_macro_scan(s) PROVE AlertsCounted'
  BY <1>3 DEF AlertsTyped, AlertsInHand, AlertsCounted, AlertsDelivering, Scans!run_macro_scan,
     Scans!row, Scans!goto, Scans!starts, Scans!Running
<1>4. ASSUME NEW s \in Scan, Scans!synthesize_for_user(s) PROVE AlertsCounted'
  BY <1>4 DEF AlertsTyped, AlertsInHand, AlertsCounted, AlertsDelivering,
     Scans!synthesize_for_user, Scans!row, Scans!goto
<1>5. ASSUME NEW s \in Scan, Scans!run_anomaly_scan(s) PROVE AlertsCounted'
  BY <1>5 DEF AlertsTyped, AlertsInHand, AlertsCounted, AlertsDelivering,
     Scans!run_anomaly_scan, Scans!row, Scans!goto, Scans!starts, Scans!Running
<1>6. ASSUME NEW s \in Scan, Scans!cooldown_filter(s) PROVE AlertsCounted'
  BY <1>6 DEF AlertsTyped, AlertsInHand, AlertsCounted, AlertsDelivering,
     Scans!cooldown_filter, Scans!row, Scans!goto, Scans!cooled
<1>7. ASSUME NEW s \in Scan, Scans!narrate(s) PROVE AlertsCounted'
  BY <1>7 DEF AlertsTyped, AlertsInHand, AlertsCounted, AlertsDelivering, Scans!narrate,
     Scans!row, Scans!goto
<1>8. ASSUME NEW s \in Scan, NEW a \in Scans!Alert, Scans!create_alert_if_new(s, a)
      PROVE AlertsCounted'
  BY <1>8 DEF AlertsTyped, AlertsInHand, AlertsCounted, AlertsDelivering,
     Scans!create_alert_if_new, Scans!row, Scans!goto, Scans!is_new
<1>9. ASSUME NEW s \in Scan, Scans!enqueue_outbound(s) PROVE AlertsCounted'
  BY <1>9 DEF AlertsTyped, AlertsInHand, AlertsCounted, AlertsDelivering,
     Scans!enqueue_outbound, Scans!row, Scans!goto
<1>10. ASSUME NEW s \in Scan, Scans!mark_alert_delivered(s) PROVE AlertsCounted'
  BY <1>10 DEF AlertsTyped, AlertsInHand, AlertsCounted, AlertsDelivering,
     Scans!mark_alert_delivered, Scans!row, Scans!goto
<1>11. ASSUME NEW s \in Scan, Scans!finalize_run(s) PROVE AlertsCounted'
  BY <1>11 DEF AlertsTyped, AlertsInHand, AlertsCounted, AlertsDelivering, Scans!finalize_run,
     Scans!row, Scans!goto
<1>12. ASSUME NEW s \in Scan, Scans!restart(s) PROVE AlertsCounted'
  BY <1>12 DEF AlertsTyped, AlertsInHand, AlertsCounted, AlertsDelivering, Scans!restart,
     Scans!row, Scans!goto, Scans!Running
<1> QED BY <1>1, <1>2, <1>3, <1>4, <1>5, <1>6, <1>7, <1>8, <1>9, <1>10, <1>11, <1>12
           DEF Scans!Next, Scans!scan

\* A scan that starts notes which others are running.
LEMMA AlertsMetStep ==
  ASSUME Scans!AlertsAssumption, AlertsTyped, AlertsMet, [Scans!Next]_(Scans!vars)
  PROVE  AlertsMet'
<1>1. CASE UNCHANGED <<alerts_pc, alerts_met>>
  BY <1>1 DEF AlertsMet, Scans!Running
<1>2. (UNCHANGED Scans!vars \/ Scans!midnight) => UNCHANGED <<alerts_pc, alerts_met>>
  BY DEF Scans!vars, Scans!row, Scans!midnight, Scans!goto
<1>3. ASSUME NEW s \in Scan, Scans!run_macro_scan(s) PROVE AlertsMet'
  BY <1>3 DEF AlertsTyped, AlertsMet, Scans!Running, Scans!run_macro_scan, Scans!row,
     Scans!goto, Scans!starts
<1>4. ASSUME NEW s \in Scan, Scans!synthesize_for_user(s) PROVE AlertsMet'
  BY <1>4 DEF AlertsTyped, AlertsMet, Scans!Running, Scans!synthesize_for_user, Scans!row,
     Scans!goto
<1>5. ASSUME NEW s \in Scan, Scans!run_anomaly_scan(s) PROVE AlertsMet'
  BY <1>5 DEF AlertsTyped, AlertsMet, Scans!Running, Scans!run_anomaly_scan, Scans!row,
     Scans!goto, Scans!starts
<1>6. ASSUME NEW s \in Scan, Scans!cooldown_filter(s) PROVE AlertsMet'
  BY <1>6 DEF AlertsTyped, AlertsMet, Scans!Running, Scans!cooldown_filter, Scans!row,
     Scans!goto, Scans!cooled
<1>7. ASSUME NEW s \in Scan, Scans!narrate(s) PROVE AlertsMet'
  BY <1>7 DEF AlertsTyped, AlertsMet, Scans!Running, Scans!narrate, Scans!row, Scans!goto
<1>8. ASSUME NEW s \in Scan, NEW a \in Scans!Alert, Scans!create_alert_if_new(s, a)
      PROVE AlertsMet'
  BY <1>8 DEF AlertsTyped, AlertsMet, Scans!Running, Scans!create_alert_if_new, Scans!row,
     Scans!goto, Scans!is_new
<1>9. ASSUME NEW s \in Scan, Scans!enqueue_outbound(s) PROVE AlertsMet'
  BY <1>9 DEF AlertsTyped, AlertsMet, Scans!Running, Scans!enqueue_outbound, Scans!row, Scans!goto
<1>10. ASSUME NEW s \in Scan, Scans!mark_alert_delivered(s) PROVE AlertsMet'
  BY <1>10 DEF AlertsTyped, AlertsMet, Scans!Running, Scans!mark_alert_delivered, Scans!row,
     Scans!goto
<1>11. ASSUME NEW s \in Scan, Scans!finalize_run(s) PROVE AlertsMet'
  BY <1>11 DEF AlertsTyped, AlertsMet, Scans!Running, Scans!finalize_run, Scans!row, Scans!goto
<1>12. ASSUME NEW s \in Scan, Scans!restart(s) PROVE AlertsMet'
  BY <1>12 DEF AlertsTyped, AlertsMet, Scans!Running, Scans!restart, Scans!row, Scans!goto
<1> QED BY <1>1, <1>2, <1>3, <1>4, <1>5, <1>6, <1>7, <1>8, <1>9, <1>10, <1>11, <1>12
           DEF Scans!Next, Scans!scan

\* A scan delivers before it goes on to the next alert.
LEMMA AlertsNotYetStep ==
  ASSUME Scans!AlertsAssumption, AlertsTyped, AlertsNotYet, [Scans!Next]_(Scans!vars)
  PROVE  AlertsNotYet'
<1>1. CASE UNCHANGED <<alerts_pc, stored, stored_by>>
  BY <1>1 DEF AlertsNotYet
<1>2. (UNCHANGED Scans!vars \/ Scans!midnight) => UNCHANGED <<alerts_pc, stored, stored_by>>
  BY DEF Scans!vars, Scans!row, Scans!midnight, Scans!goto
<1>3. ASSUME NEW s \in Scan, Scans!run_macro_scan(s) PROVE AlertsNotYet'
  BY <1>3 DEF AlertsTyped, AlertsNotYet, Scans!run_macro_scan, Scans!row, Scans!goto,
     Scans!starts, Scans!Running
<1>4. ASSUME NEW s \in Scan, Scans!synthesize_for_user(s) PROVE AlertsNotYet'
  BY <1>4 DEF AlertsTyped, AlertsNotYet, Scans!synthesize_for_user, Scans!row, Scans!goto
<1>5. ASSUME NEW s \in Scan, Scans!run_anomaly_scan(s) PROVE AlertsNotYet'
  BY <1>5 DEF AlertsTyped, AlertsNotYet, Scans!run_anomaly_scan, Scans!row, Scans!goto,
     Scans!starts, Scans!Running
<1>6. ASSUME NEW s \in Scan, Scans!cooldown_filter(s) PROVE AlertsNotYet'
  BY <1>6 DEF AlertsTyped, AlertsNotYet, Scans!cooldown_filter, Scans!row, Scans!goto,
     Scans!cooled
<1>7. ASSUME NEW s \in Scan, Scans!narrate(s) PROVE AlertsNotYet'
  BY <1>7 DEF AlertsTyped, AlertsNotYet, Scans!narrate, Scans!row, Scans!goto
<1>8. ASSUME NEW s \in Scan, NEW a \in Scans!Alert, Scans!create_alert_if_new(s, a)
      PROVE AlertsNotYet'
  BY <1>8 DEF AlertsTyped, AlertsNotYet, Scans!create_alert_if_new, Scans!row, Scans!goto,
     Scans!is_new
<1>9. ASSUME NEW s \in Scan, Scans!enqueue_outbound(s) PROVE AlertsNotYet'
  BY <1>9 DEF AlertsTyped, AlertsNotYet, Scans!enqueue_outbound, Scans!row, Scans!goto
<1>10. ASSUME NEW s \in Scan, Scans!mark_alert_delivered(s) PROVE AlertsNotYet'
  BY <1>10 DEF AlertsTyped, AlertsNotYet, Scans!mark_alert_delivered, Scans!row, Scans!goto
<1>11. ASSUME NEW s \in Scan, Scans!finalize_run(s) PROVE AlertsNotYet'
  BY <1>11 DEF AlertsTyped, AlertsNotYet, Scans!finalize_run, Scans!row, Scans!goto
<1>12. ASSUME NEW s \in Scan, Scans!restart(s) PROVE AlertsNotYet'
  BY <1>12 DEF AlertsTyped, AlertsNotYet, Scans!restart, Scans!row, Scans!goto, Scans!Running
<1> QED BY <1>1, <1>2, <1>3, <1>4, <1>5, <1>6, <1>7, <1>8, <1>9, <1>10, <1>11, <1>12
           DEF Scans!Next, Scans!scan

\* What a scan narrates was past its cooldown when it looked, unless it met another.
LEMMA AlertsNarratedStep ==
  ASSUME Scans!AlertsAssumption, AlertsTyped, AlertsMet, AlertsNarrated, [Scans!Next]_(Scans!vars)
  PROVE  AlertsNarrated'
<1>1. CASE UNCHANGED <<alerts_pc, stored, stored_by, hit, alerts_day, alerts_met>>
  BY <1>1 DEF AlertsNarrated, AlertsApart
<1>2. UNCHANGED Scans!vars => UNCHANGED <<alerts_pc, stored, stored_by, hit, alerts_day,
                                          alerts_met>>
  BY DEF Scans!vars, Scans!row
<1>3. ASSUME NEW s \in Scan, Scans!run_macro_scan(s) PROVE AlertsNarrated'
  BY <1>3 DEF AlertsTyped, AlertsMet, AlertsNarrated, AlertsApart, Scans!run_macro_scan,
     Scans!row, Scans!goto, Scans!starts, Scans!Running
<1>4. ASSUME NEW s \in Scan, Scans!synthesize_for_user(s) PROVE AlertsNarrated'
  BY <1>4 DEF AlertsTyped, AlertsMet, AlertsNarrated, AlertsApart, Scans!synthesize_for_user,
     Scans!row, Scans!goto
<1>5. ASSUME NEW s \in Scan, Scans!run_anomaly_scan(s) PROVE AlertsNarrated'
  BY <1>5 DEF AlertsTyped, AlertsMet, AlertsNarrated, AlertsApart, Scans!run_anomaly_scan,
     Scans!row, Scans!goto, Scans!starts, Scans!Running
<1>6. ASSUME NEW s \in Scan, Scans!cooldown_filter(s) PROVE AlertsNarrated'
  <2>0. PICK edge \in BOOLEAN : \E kept \in SUBSET (hit[s] \ Scans!cooled(edge)) :
           /\ hit' = [hit EXCEPT ![s] = kept] /\
              \A r \in Scan \ {s} : alerts_pc'[r] = alerts_pc[r]
    BY <1>6 DEF AlertsTyped, Scans!cooldown_filter, Scans!goto
  <2>1. PICK kept \in SUBSET (hit[s] \ Scans!cooled(edge)) :
           /\ hit' = [hit EXCEPT ![s] = kept] /\
              \A r \in Scan \ {s} : alerts_pc'[r] = alerts_pc[r]
    BY <2>0
  <2>2. ASSUME NEW b \in stored \cap Scans!Price, ~(alerts_day - b.day >= Cooldown)
        PROVE kept \cap b.tickers = {}
    <3>1. alerts_day - b.day < Cooldown
      BY <2>2 DEF AlertsTyped, Scans!Price, Scans!Day, Scans!AlertsAssumption
    <3>2. b.tickers \subseteq Scans!cooled(edge)
      BY <2>2, <3>1 DEF Scans!cooled
    <3> QED BY <3>2
  <2>3. hit'[s] = kept /\ (\A r \in Scan \ {s} : hit'[r] = hit[r]) /\
          UNCHANGED <<alerts_day, stored, stored_by, alerts_met>>
    BY <1>6, <2>1 DEF AlertsTyped, Scans!cooldown_filter, Scans!row
  <2>4. ASSUME NEW b \in stored \cap Scans!Price
        PROVE hit'[s] \cap b.tickers = {} \/ AlertsApart(alerts_day, b, s)
    BY <2>2, <2>3, <2>4 DEF AlertsApart
  <2> QED BY <2>1, <2>3, <2>4 DEF AlertsNarrated, AlertsApart
<1>7. ASSUME NEW s \in Scan, Scans!narrate(s) PROVE AlertsNarrated'
  BY <1>7 DEF AlertsTyped, AlertsMet, AlertsNarrated, AlertsApart, Scans!narrate, Scans!row,
     Scans!goto
<1>8. ASSUME NEW s \in Scan, NEW a \in Scans!Alert, Scans!create_alert_if_new(s, a)
      PROVE AlertsNarrated'
  <2>a. UNCHANGED <<alerts_day, hit, alerts_met>> /\
          (\A r \in Scan : alerts_pc'[r] = "narration" => alerts_pc[r] = "narration" /\ r # s)
    BY <1>8 DEF AlertsTyped, Scans!create_alert_if_new, Scans!goto
  <2>b. alerts_pc[s] = "deliver"
    BY <1>8 DEF Scans!create_alert_if_new
  <2>1. CASE UNCHANGED <<stored, stored_by>>
    BY <2>a, <2>1 DEF AlertsNarrated, AlertsApart
  <2>2. CASE a \notin stored /\ stored' = stored \cup {a} /\
          stored_by' = [stored_by EXCEPT ![a] = s]
    <3>1. stored_by'[a] = s /\ \A b \in stored : stored_by'[b] = stored_by[b]
      BY <2>2 DEF AlertsTyped
    <3>2. \A r \in Scan : alerts_pc[r] = "narration" => {r, s} \in alerts_met
      BY <2>b DEF AlertsMet, Scans!Running
    <3> QED BY <2>a, <2>2, <3>1, <3>2 DEF AlertsNarrated, AlertsApart
  <2> QED BY <1>8, <2>1, <2>2 DEF Scans!create_alert_if_new, Scans!is_new
<1>9. ASSUME NEW s \in Scan, Scans!enqueue_outbound(s) PROVE AlertsNarrated'
  BY <1>9 DEF AlertsTyped, AlertsMet, AlertsNarrated, AlertsApart, Scans!enqueue_outbound,
     Scans!row, Scans!goto
<1>10. ASSUME NEW s \in Scan, Scans!mark_alert_delivered(s) PROVE AlertsNarrated'
  BY <1>10 DEF AlertsTyped, AlertsMet, AlertsNarrated, AlertsApart, Scans!mark_alert_delivered,
     Scans!row, Scans!goto
<1>11. ASSUME NEW s \in Scan, Scans!finalize_run(s) PROVE AlertsNarrated'
  BY <1>11 DEF AlertsTyped, AlertsMet, AlertsNarrated, AlertsApart, Scans!finalize_run,
     Scans!row, Scans!goto
<1>12. CASE Scans!midnight
  <2>1. \A b \in Scans!Price : b.day \in Nat
    BY DEF Scans!Price, Scans!Day, Scans!AlertsAssumption
  <2>2. UNCHANGED <<stored, stored_by, alerts_pc, hit, alerts_met>> /\
          alerts_day' = alerts_day + 1
    BY <1>12 DEF Scans!midnight, Scans!row
  <2>3. \A b \in Scans!Price : alerts_day - b.day >= Cooldown => alerts_day' - b.day >= Cooldown
    BY <2>1, <2>2 DEF AlertsTyped, Scans!AlertsAssumption
  <2> QED BY <2>2, <2>3 DEF AlertsNarrated, AlertsApart
<1>13. ASSUME NEW s \in Scan, Scans!restart(s) PROVE AlertsNarrated'
  BY <1>13 DEF AlertsTyped, AlertsMet, AlertsNarrated, AlertsApart, Scans!restart, Scans!row,
     Scans!goto, Scans!Running
<1> QED BY <1>1, <1>2, <1>3, <1>4, <1>5, <1>6, <1>7, <1>8, <1>9, <1>10, <1>11, <1>12, <1>13
           DEF Scans!Next, Scans!scan

\* What a scan has left to store is apart from what is stored, unless it met the other.
LEMMA AlertsReadyStep ==
  ASSUME Scans!AlertsAssumption, AlertsTyped, AlertsMet, AlertsNarrated, AlertsReady,
    [Scans!Next]_(Scans!vars)
  PROVE  AlertsReady'
<1>1. CASE UNCHANGED <<alerts_pc, stored, stored_by, todo, alerts_day, alerts_met>>
  BY <1>1 DEF AlertsReady, AlertsApart
<1>2. UNCHANGED Scans!vars => UNCHANGED <<alerts_pc, stored, stored_by, todo, alerts_day,
                                          alerts_met>>
  BY DEF Scans!vars, Scans!row
<1>3. ASSUME NEW s \in Scan, Scans!run_macro_scan(s) PROVE AlertsReady'
  BY <1>3 DEF AlertsTyped, AlertsMet, AlertsNarrated, AlertsReady, AlertsApart,
     Scans!run_macro_scan, Scans!row, Scans!goto, Scans!starts, Scans!Running
<1>4. ASSUME NEW s \in Scan, Scans!synthesize_for_user(s) PROVE AlertsReady'
  <2>a. /\ UNCHANGED <<stored, stored_by, alerts_day, alerts_met>> /\
          \A r \in Scan \ {s} : alerts_pc'[r] = alerts_pc[r] /\ todo'[r] = todo[r]
    BY <1>4 DEF AlertsTyped, Scans!synthesize_for_user, Scans!goto, Scans!row
  <2>b. alerts_pc'[s] = "deliver" => todo'[s] \cap Scans!Price = {}
    BY <1>4, AlertsDiffer DEF AlertsTyped, Scans!synthesize_for_user, Scans!goto
  <2>c. alerts_pc'[s] \in {"deliver", "done"}
    BY <1>4 DEF AlertsTyped, Scans!synthesize_for_user, Scans!goto
  <2> QED BY <2>a, <2>b, <2>c DEF AlertsReady, AlertsApart
<1>5. ASSUME NEW s \in Scan, Scans!run_anomaly_scan(s) PROVE AlertsReady'
  BY <1>5 DEF AlertsTyped, AlertsMet, AlertsNarrated, AlertsReady, AlertsApart,
     Scans!run_anomaly_scan, Scans!row, Scans!goto, Scans!starts, Scans!Running
<1>6. ASSUME NEW s \in Scan, Scans!cooldown_filter(s) PROVE AlertsReady'
  BY <1>6 DEF AlertsTyped, AlertsMet, AlertsNarrated, AlertsReady, AlertsApart,
     Scans!cooldown_filter, Scans!row, Scans!goto, Scans!cooled
<1>7. ASSUME NEW s \in Scan, Scans!narrate(s) PROVE AlertsReady'
  BY <1>7 DEF AlertsTyped, AlertsMet, AlertsNarrated, AlertsReady, AlertsApart, Scans!narrate,
     Scans!row, Scans!goto
<1>8. ASSUME NEW s \in Scan, NEW a \in Scans!Alert, Scans!create_alert_if_new(s, a)
      PROVE AlertsReady'
  <2>a. /\ UNCHANGED <<alerts_day, alerts_met>> /\ alerts_pc[s] = "deliver" /\ a \in todo[s]
        /\ \A r \in Scan \ {s} : alerts_pc'[r] = alerts_pc[r] /\ todo'[r] = todo[r]
    BY <1>8 DEF AlertsTyped, Scans!create_alert_if_new, Scans!goto
  <2>b. alerts_pc'[s] = "done" \/ todo'[s] = todo[s] \ {a}
    BY <1>8 DEF AlertsTyped, Scans!create_alert_if_new, Scans!goto
  <2>1. CASE UNCHANGED <<stored, stored_by>>
    BY <2>a, <2>b, <2>1 DEF AlertsReady, AlertsApart
  <2>2. CASE a \notin stored /\ stored' = stored \cup {a} /\
          stored_by' = [stored_by EXCEPT ![a] = s]
    <3>1. stored_by'[a] = s /\ \A b \in stored : stored_by'[b] = stored_by[b]
      BY <2>2 DEF AlertsTyped
    <3>2. \A r \in Scan \ {s} : alerts_pc[r] \in {"deliver", "enqueue", "mark"} =>
            {r, s} \in alerts_met
      BY <2>a DEF AlertsMet, Scans!Running
    <3>3. ASSUME NEW r \in Scan, alerts_pc'[r] \in {"deliver", "enqueue", "mark"},
            NEW x \in todo'[r] \cap Scans!Price
          PROVE  /\ todo'[r] = {x}
                 /\ \A b \in stored' \cap Scans!Price :
                       x # b => x.tickers \cap b.tickers = {} \/ AlertsApart(x.day, b, r)'
      <4>1. CASE r = s
        BY <2>a, <2>b, <3>3, <4>1 DEF AlertsReady
      <4>2. CASE r # s
        <5>1. alerts_pc[r] \in {"deliver", "enqueue", "mark"} /\
                x \in todo[r] \cap Scans!Price /\ todo'[r] = todo[r]
          BY <2>a, <3>3, <4>2
        <5>2. \A b \in stored \cap Scans!Price : x # b =>
                x.tickers \cap b.tickers = {} \/ AlertsApart(x.day, b, r)'
          BY <2>a, <3>1, <5>1 DEF AlertsReady, AlertsApart
        <5>3. AlertsApart(x.day, a, r)'
          BY <2>a, <3>1, <3>2, <4>2, <5>1 DEF AlertsApart
        <5> QED BY <2>2, <5>1, <5>2, <5>3 DEF AlertsReady
      <4> QED BY <4>1, <4>2
    <3> QED BY <3>3 DEF AlertsReady
  <2> QED BY <1>8, <2>1, <2>2 DEF Scans!create_alert_if_new, Scans!is_new
<1>9. ASSUME NEW s \in Scan, Scans!enqueue_outbound(s) PROVE AlertsReady'
  BY <1>9 DEF AlertsTyped, AlertsMet, AlertsNarrated, AlertsReady, AlertsApart,
     Scans!enqueue_outbound, Scans!row, Scans!goto
<1>10. ASSUME NEW s \in Scan, Scans!mark_alert_delivered(s) PROVE AlertsReady'
  BY <1>10 DEF AlertsTyped, AlertsMet, AlertsNarrated, AlertsReady, AlertsApart,
     Scans!mark_alert_delivered, Scans!row, Scans!goto
<1>11. ASSUME NEW s \in Scan, Scans!finalize_run(s) PROVE AlertsReady'
  BY <1>11 DEF AlertsTyped, AlertsMet, AlertsNarrated, AlertsReady, AlertsApart,
     Scans!finalize_run, Scans!row, Scans!goto
<1>12. CASE Scans!midnight
  BY <1>12 DEF AlertsTyped, AlertsMet, AlertsNarrated, AlertsReady, AlertsApart,
     Scans!midnight, Scans!row, Scans!goto
<1>13. ASSUME NEW s \in Scan, Scans!restart(s) PROVE AlertsReady'
  BY <1>13 DEF AlertsTyped, AlertsMet, AlertsNarrated, AlertsReady, AlertsApart, Scans!restart,
     Scans!row, Scans!goto, Scans!Running
<1> QED BY <1>1, <1>2, <1>3, <1>4, <1>5, <1>6, <1>7, <1>8, <1>9, <1>10, <1>11, <1>12, <1>13
           DEF Scans!Next, Scans!scan

\* create_alert_if_new stores nothing within a cooldown of its ticker.
LEMMA AlertsCooldownHeldStep ==
  ASSUME Scans!AlertsAssumption, AlertsTyped, AlertsReady, Scans!CooldownHeld,
    [Scans!Next]_(Scans!vars)
  PROVE  Scans!CooldownHeld'
<1>1. CASE UNCHANGED <<stored, stored_by, alerts_met>>
  BY <1>1 DEF Scans!CooldownHeld, AlertsApart
<1>2. (UNCHANGED Scans!vars \/ (\E s \in Scan : Scans!synthesize_for_user(s)) \/
        (\E s \in Scan : Scans!cooldown_filter(s)) \/ (\E s \in Scan : Scans!narrate(s)) \/
        (\E s \in Scan : Scans!enqueue_outbound(s)) \/
        (\E s \in Scan : Scans!mark_alert_delivered(s)) \/
        (\E s \in Scan : Scans!finalize_run(s)) \/ Scans!midnight \/
        (\E s \in Scan : Scans!restart(s))) => UNCHANGED <<stored, stored_by, alerts_met>>
  BY DEF Scans!vars, Scans!row, Scans!synthesize_for_user, Scans!goto, Scans!cooldown_filter,
     Scans!cooled, Scans!narrate, Scans!enqueue_outbound, Scans!mark_alert_delivered,
     Scans!finalize_run, Scans!midnight, Scans!restart, Scans!Running
<1>3. ASSUME NEW s \in Scan, Scans!run_macro_scan(s) PROVE Scans!CooldownHeld'
  BY <1>3 DEF AlertsTyped, AlertsReady, Scans!CooldownHeld, AlertsApart, Scans!run_macro_scan,
     Scans!row, Scans!goto, Scans!starts, Scans!Running
<1>4. ASSUME NEW s \in Scan, Scans!run_anomaly_scan(s) PROVE Scans!CooldownHeld'
  BY <1>4 DEF AlertsTyped, AlertsReady, Scans!CooldownHeld, AlertsApart,
     Scans!run_anomaly_scan, Scans!row, Scans!goto, Scans!starts, Scans!Running
<1>5. ASSUME NEW s \in Scan, NEW a \in Scans!Alert, Scans!create_alert_if_new(s, a)
      PROVE Scans!CooldownHeld'
  BY <1>5 DEF AlertsTyped, AlertsReady, Scans!CooldownHeld, AlertsApart,
     Scans!create_alert_if_new, Scans!row, Scans!goto, Scans!is_new
<1> QED BY <1>1, <1>2, <1>3, <1>4, <1>5 DEF Scans!Next, Scans!scan

\* AlertsInv holds in every reachable state.
LEMMA AlertsInductive ==
  ASSUME Scans!AlertsAssumption PROVE Scans!Spec => []AlertsInv
<1>1. Scans!Init => AlertsInv
  <2> SUFFICES ASSUME Scans!Init PROVE AlertsInv
    OBVIOUS
  <2>1. AlertsTyped
    BY DEF Scans!Init, AlertsTyped, Scans!Place, AlertsItem
  <2>2. AlertsInHand /\ AlertsCounted /\ AlertsMet
    BY DEF Scans!Init, AlertsInHand, AlertsDelivering, AlertsCounted, AlertsMet, Scans!Running
  <2>3. AlertsNotYet /\ AlertsNarrated /\ AlertsReady /\ Scans!CooldownHeld
    BY DEF Scans!Init, AlertsNotYet, AlertsNarrated, AlertsReady, Scans!CooldownHeld
  <2> QED BY <2>1, <2>2, <2>3 DEF AlertsInv
<1>2. AlertsInv /\ [Scans!Next]_(Scans!vars) => AlertsInv'
  BY AlertsTypedStep, AlertsInHandStep, AlertsCountedStep, AlertsMetStep, AlertsNotYetStep,
     AlertsNarratedStep, AlertsReadyStep,
     AlertsCooldownHeldStep DEF AlertsInv
<1> QED BY <1>1, <1>2, PTL DEF Scans!Spec

\* No event and no ticker is announced twice (run_anomaly_scan, run_macro_scan).
THEOREM AlertsKept ==
  ASSUME Scans!AlertsAssumption
  PROVE  Scans!Spec => []Scans!AlertsOnce
<1>1. AlertsInv => Scans!AlertsOnce
  <2> SUFFICES ASSUME AlertsInv PROVE Scans!AlertsOnce
    OBVIOUS
  <2>1. Scans!AlertedOnce
    <3> SUFFICES ASSUME NEW a \in stored
                 PROVE  /\ alerts_queued[a] = IF (\E s \in Scan : alerts_pc[s] = "enqueue" /\
                           now[s] = a) \/ a \in lost
                                       THEN 0 ELSE 1
                        /\ a \in delivered => alerts_queued[a] = 1
      BY DEF Scans!AlertedOnce
    <3>1. ASSUME NEW s \in Scan, alerts_pc[s] = "enqueue", now[s] = a PROVE alerts_queued[a] = 0
      BY <3>1 DEF AlertsInv, AlertsInHand, AlertsDelivering
    <3> QED BY <3>1 DEF AlertsInv, AlertsCounted
  <2> QED BY <2>1 DEF Scans!AlertsOnce, AlertsInv
<1> QED BY <1>1, AlertsInductive, PTL

-----------------------------------------------------------------------------
(***************************************************************************)
(* Digest: one message a morning, and no failure without one               *)
(***************************************************************************)

\* The type invariant; days need no bound here.
DigestTyped ==
    /\ day \in Morning!Day
    /\ queued \in [Run -> SUBSET [day : Nat, body : Morning!Body]]
    /\ digest_pc \in [Run -> Morning!Place] /\ origin \in [Run -> Morning!Origin \cup {None}]
    /\ digest_born \in [Run -> Nat \cup {None}]
    /\ DOMAIN digest_digest = Morning!Day /\ first_active \in BOOLEAN
    /\ sends \in [Run -> Nat] /\ sent \in [Run -> BOOLEAN]
    /\ row \in [Run -> {"running", "completed", "error", None}]

\* A digest of the run's, not an apology, is in the queue.
DigestGoodOut(r) == \E m \in queued[r] : m.body = "good"

\* What a run has to show for its row.
DigestShown ==
    \A r \in Run :
        /\ sent[r] => DigestGoodOut(r)
        /\ digest_pc[r] = "finish" => sent[r]
        /\ row[r] = "completed" => DigestGoodOut(r)

\* A run fails once its fallback is out, or has failed too.
DigestFailed ==
    \A r \in Run :
        /\ digest_pc[r] \in {"idle", "f_check", "start"} => row[r] = None
        /\ digest_pc[r] = "fail" => queued[r] # {} \/ r \in loud
        /\ digest_pc[r] = "done" /\ row[r] \notin {"completed", None} =>
           queued[r] # {} \/ r \in loud

\* The run is past the check whether it is the first briefing.
DigestPast(r) == digest_pc[r] \notin {"idle", "done", "f_check"}

\* first_briefings_active is of the one first briefing past its check.
DigestFirstHeld ==
    /\ \A r \in Run : digest_pc[r] = "f_check" => origin[r] = "first"
    /\ \A r \in Run : origin[r] = "first" /\ DigestPast(r) => first_active
    /\ \A r, s \in Run : origin[r] = "first" /\ origin[s] = "first" /\ DigestPast(r) /\
       DigestPast(s) => r = s

\* The run has queued a message for the day it was started on.
DigestTold(r) == \E m \in queued[r] : m.day = digest_born[r]

\* A message about the day its run started on goes out after the row of that day is in.
DigestRowFirst ==
    \A r \in Run :
        /\ digest_pc[r] = "idle" => origin[r] = None /\ queued[r] = {}
        /\ digest_pc[r] # "idle" => digest_born[r] \in Nat /\ digest_born[r] <= day
        /\ digest_pc[r] \in {"stored", "fallback_queue"} /\ digest_born[r] = day =>
           digest_digest[day] # None
        /\ DigestTold(r) => digest_born[r] \in Morning!Day /\ digest_digest[digest_born[r]] # None

\* Of two scheduled runs of a day that did not meet, the first ended without a message.
DigestApart ==
    \A r, s \in Run :
        r # s /\ origin[r] = "scheduled" /\ origin[s] = "scheduled" /\
          digest_born[r] = digest_born[s] =>
            {r, s} \in met \/ (digest_pc[r] = "done" /\ ~DigestTold(r)) \/
              (digest_pc[s] = "done" /\ ~DigestTold(s))

\* What is inductive about the digests.
DigestInv == DigestTyped /\ DigestShown /\ DigestFailed /\ DigestFirstHeld /\ DigestRowFirst /\
  DigestApart

\* Every step keeps the types.
LEMMA DigestTypedStep ==
  ASSUME Morning!DigestAssumption, DigestTyped, [Morning!Next]_(Morning!vars)
  PROVE  DigestTyped'
<1>1. CASE UNCHANGED <<day, digest_digest, first_active, queued, digest_pc, origin,
                       digest_born, sends, sent, row>>
  BY <1>1 DEF DigestTyped, Morning!Place, Morning!Origin, Morning!Body, Morning!Day,
     Morning!DigestAssumption
<1>2. UNCHANGED Morning!vars =>
        UNCHANGED <<day, digest_digest, first_active, queued, digest_pc, origin, digest_born,
                    sends, sent, row>>
  BY DEF Morning!vars
<1>3. CASE Morning!midnight
  BY <1>3 DEF DigestTyped, Morning!Place, Morning!Origin, Morning!Body, Morning!Day,
     Morning!DigestAssumption, Morning!midnight
<1>4. CASE Morning!restart
  BY <1>4 DEF DigestTyped, Morning!Place, Morning!Origin, Morning!Body, Morning!Day,
     Morning!DigestAssumption, Morning!restart, Morning!Running
<1>5. ASSUME NEW r \in Run, Morning!scheduled(r) PROVE DigestTyped'
  BY <1>5 DEF DigestTyped, Morning!Place, Morning!Origin, Morning!Body, Morning!Day,
     Morning!DigestAssumption, Morning!scheduled, Morning!starts, Morning!goto, Morning!due,
     Morning!Running
<1>6. ASSUME NEW r \in Run, Morning!digest_run(r) PROVE DigestTyped'
  BY <1>6 DEF DigestTyped, Morning!Place, Morning!Origin, Morning!Body, Morning!Day,
     Morning!DigestAssumption, Morning!digest_run, Morning!starts, Morning!goto, Morning!Running
<1>7. ASSUME NEW r \in Run, Morning!digest_first(r) PROVE DigestTyped'
  BY <1>7 DEF DigestTyped, Morning!Place, Morning!Origin, Morning!Body, Morning!Day,
     Morning!DigestAssumption, Morning!digest_first, Morning!starts, Morning!goto, Morning!Running
<1>8. ASSUME NEW r \in Run, Morning!claim_first(r) PROVE DigestTyped'
  BY <1>8 DEF DigestTyped, Morning!Place, Morning!Origin, Morning!Body, Morning!Day,
     Morning!DigestAssumption, Morning!claim_first, Morning!goto
<1>9. ASSUME NEW r \in Run, Morning!create_run(r) PROVE DigestTyped'
  BY <1>9 DEF DigestTyped, Morning!Place, Morning!Origin, Morning!Body, Morning!Day,
     Morning!DigestAssumption, Morning!create_run, Morning!goto, Morning!releases
<1>10. ASSUME NEW r \in Run, Morning!investigate(r) PROVE DigestTyped'
  BY <1>10 DEF DigestTyped, Morning!Place, Morning!Origin, Morning!Body, Morning!Day,
     Morning!DigestAssumption, Morning!investigate, Morning!goto
<1>11. ASSUME NEW r \in Run, Morning!send_digest(r) PROVE DigestTyped'
  BY <1>11 DEF DigestTyped, Morning!Place, Morning!Origin, Morning!Body, Morning!Day,
     Morning!DigestAssumption, Morning!send_digest, Morning!goto
<1>12. ASSUME NEW r \in Run, Morning!send_digest_queues(r) PROVE DigestTyped'
  <2>1. [day |-> day, body |-> "good"] \in [day : Nat, body : Morning!Body]
    BY DEF DigestTyped, Morning!Day, Morning!Body, Morning!DigestAssumption
  <2>2. queued' \in [Run -> SUBSET [day : Nat, body : Morning!Body]]
    BY <1>12, <2>1 DEF DigestTyped, Morning!send_digest_queues, Morning!enqueue
  <2>3. digest_pc' \in [Run -> Morning!Place] /\ sent' \in [Run -> BOOLEAN]
    BY <1>12 DEF DigestTyped, Morning!Place, Morning!send_digest_queues, Morning!goto
  <2> QED BY <1>12, <2>2, <2>3 DEF DigestTyped, Morning!send_digest_queues
<1>13. ASSUME NEW r \in Run, Morning!synthesized(r) PROVE DigestTyped'
  BY <1>13 DEF DigestTyped, Morning!Place, Morning!Origin, Morning!Body, Morning!Day,
     Morning!DigestAssumption, Morning!synthesized, Morning!goto
<1>14. ASSUME NEW r \in Run, Morning!finalize_completed(r) PROVE DigestTyped'
  BY <1>14 DEF DigestTyped, Morning!Place, Morning!Origin, Morning!Body, Morning!Day,
     Morning!DigestAssumption, Morning!finalize_completed, Morning!goto, Morning!releases
<1>15. ASSUME NEW r \in Run, Morning!fallback_stores(r) PROVE DigestTyped'
  BY <1>15 DEF DigestTyped, Morning!Place, Morning!Origin, Morning!Body, Morning!Day,
     Morning!DigestAssumption, Morning!fallback_stores, Morning!goto
<1>16. ASSUME NEW r \in Run, Morning!fallback_queues(r) PROVE DigestTyped'
  <2>1. [day |-> day, body |-> "fallback"] \in [day : Nat, body : Morning!Body]
    BY DEF DigestTyped, Morning!Day, Morning!Body, Morning!DigestAssumption
  <2>2. queued' \in [Run -> SUBSET [day : Nat, body : Morning!Body]]
    BY <1>16, <2>1 DEF DigestTyped, Morning!fallback_queues, Morning!enqueue
  <2>3. digest_pc' \in [Run -> Morning!Place]
    BY <1>16 DEF DigestTyped, Morning!Place, Morning!fallback_queues, Morning!goto
  <2> QED BY <1>16, <2>2, <2>3 DEF DigestTyped, Morning!fallback_queues
<1>17. ASSUME NEW r \in Run, Morning!finalize_error(r) PROVE DigestTyped'
  BY <1>17 DEF DigestTyped, Morning!Place, Morning!Origin, Morning!Body, Morning!Day,
     Morning!DigestAssumption, Morning!finalize_error, Morning!goto, Morning!releases
<1> QED BY <1>1, <1>2, <1>3, <1>4, <1>5, <1>6, <1>7, <1>8, <1>9, <1>10, <1>11, <1>12, <1>13,
           <1>14, <1>15, <1>16, <1>17 DEF Morning!Next, Morning!pipeline

\* A row is completed only after its message is queued.
LEMMA DigestShownStep ==
  ASSUME Morning!DigestAssumption, DigestTyped, DigestFailed, DigestShown,
    [Morning!Next]_(Morning!vars)
  PROVE  DigestShown'
<1>1. CASE UNCHANGED <<sent, queued, digest_pc, row>>
  BY <1>1 DEF DigestShown, DigestGoodOut
<1>2. (UNCHANGED Morning!vars \/ Morning!midnight) => UNCHANGED <<sent, queued, digest_pc, row>>
  BY DEF Morning!vars, Morning!midnight
<1>3. CASE Morning!restart
  BY <1>3 DEF DigestTyped, DigestFailed, DigestShown, DigestGoodOut, Morning!restart,
     Morning!Running
<1>4. ASSUME NEW r \in Run, Morning!scheduled(r) PROVE DigestShown'
  BY <1>4 DEF DigestTyped, DigestFailed, DigestShown, DigestGoodOut, Morning!scheduled,
     Morning!starts, Morning!goto, Morning!due, Morning!Running
<1>5. ASSUME NEW r \in Run, Morning!digest_run(r) PROVE DigestShown'
  BY <1>5 DEF DigestTyped, DigestFailed, DigestShown, DigestGoodOut, Morning!digest_run,
     Morning!starts, Morning!goto, Morning!Running
<1>6. ASSUME NEW r \in Run, Morning!digest_first(r) PROVE DigestShown'
  BY <1>6 DEF DigestTyped, DigestFailed, DigestShown, DigestGoodOut, Morning!digest_first,
     Morning!starts, Morning!goto, Morning!Running
<1>7. ASSUME NEW r \in Run, Morning!claim_first(r) PROVE DigestShown'
  BY <1>7 DEF DigestTyped, DigestFailed, DigestShown, DigestGoodOut, Morning!claim_first,
     Morning!goto
<1>8. ASSUME NEW r \in Run, Morning!create_run(r) PROVE DigestShown'
  BY <1>8 DEF DigestTyped, DigestFailed, DigestShown, DigestGoodOut, Morning!create_run,
     Morning!goto, Morning!releases
<1>9. ASSUME NEW r \in Run, Morning!investigate(r) PROVE DigestShown'
  BY <1>9 DEF DigestTyped, DigestFailed, DigestShown, DigestGoodOut, Morning!investigate,
     Morning!goto
<1>10. ASSUME NEW r \in Run, Morning!send_digest(r) PROVE DigestShown'
  BY <1>10 DEF DigestTyped, DigestFailed, DigestShown, DigestGoodOut, Morning!send_digest,
     Morning!goto
<1>11. ASSUME NEW r \in Run, Morning!send_digest_queues(r) PROVE DigestShown'
  <2>1. \A q \in Run : DigestGoodOut(q) => DigestGoodOut(q)'
    BY <1>11 DEF DigestTyped, DigestGoodOut, Morning!send_digest_queues, Morning!enqueue
  <2>2. UNCHANGED row /\ \A q \in Run : (digest_pc'[q] = "finish" =>
          digest_pc[q] = "finish") /\ (sent[q] => sent'[q])
    BY <1>11 DEF DigestTyped, Morning!send_digest_queues, Morning!goto
  <2>3. \A q \in Run : sent'[q] => sent[q] \/ DigestGoodOut(q)'
    <3>1. ASSUME Morning!enqueue(r, "good") PROVE DigestGoodOut(r)'
      <4>1. [day |-> day, body |-> "good"] \in queued'[r]
        BY <3>1 DEF DigestTyped, Morning!enqueue
      <4> QED BY <4>1 DEF DigestGoodOut
    <3> QED BY <1>11, <3>1 DEF DigestTyped, Morning!send_digest_queues
  <2> QED BY <2>1, <2>2, <2>3 DEF DigestShown
<1>12. ASSUME NEW r \in Run, Morning!synthesized(r) PROVE DigestShown'
  BY <1>12 DEF DigestTyped, DigestFailed, DigestShown, DigestGoodOut, Morning!synthesized,
     Morning!goto
<1>13. ASSUME NEW r \in Run, Morning!finalize_completed(r) PROVE DigestShown'
  BY <1>13 DEF DigestTyped, DigestFailed, DigestShown, DigestGoodOut,
     Morning!finalize_completed, Morning!goto, Morning!releases
<1>14. ASSUME NEW r \in Run, Morning!fallback_stores(r) PROVE DigestShown'
  BY <1>14 DEF DigestTyped, DigestFailed, DigestShown, DigestGoodOut, Morning!fallback_stores,
     Morning!goto
<1>15. ASSUME NEW r \in Run, Morning!fallback_queues(r) PROVE DigestShown'
  BY <1>15 DEF DigestTyped, DigestFailed, DigestShown, DigestGoodOut, Morning!fallback_queues,
     Morning!goto, Morning!enqueue
<1>16. ASSUME NEW r \in Run, Morning!finalize_error(r) PROVE DigestShown'
  BY <1>16 DEF DigestTyped, DigestFailed, DigestShown, DigestGoodOut, Morning!finalize_error,
     Morning!goto, Morning!releases
<1> QED BY <1>1, <1>2, <1>3, <1>4, <1>5, <1>6, <1>7, <1>8, <1>9, <1>10, <1>11, <1>12, <1>13,
           <1>14, <1>15, <1>16 DEF Morning!Next, Morning!pipeline

\* A row is marked failed only with an apology queued, or by a write that failed after it.
LEMMA DigestFailedStep ==
  ASSUME Morning!DigestAssumption, DigestTyped, DigestFailed, [Morning!Next]_(Morning!vars)
  PROVE  DigestFailed'
<1>1. CASE UNCHANGED <<digest_pc, row, queued, loud>>
  BY <1>1 DEF DigestFailed
<1>2. (UNCHANGED Morning!vars \/ Morning!midnight) => UNCHANGED <<digest_pc, row, queued, loud>>
  BY DEF Morning!vars, Morning!midnight
<1>3. CASE Morning!restart
  BY <1>3 DEF DigestTyped, DigestFailed, Morning!restart, Morning!Running
<1>4. ASSUME NEW r \in Run, Morning!scheduled(r) PROVE DigestFailed'
  BY <1>4 DEF DigestTyped, DigestFailed, Morning!scheduled, Morning!starts, Morning!goto,
     Morning!due, Morning!Running
<1>5. ASSUME NEW r \in Run, Morning!digest_run(r) PROVE DigestFailed'
  BY <1>5 DEF DigestTyped, DigestFailed, Morning!digest_run, Morning!starts, Morning!goto,
     Morning!Running
<1>6. ASSUME NEW r \in Run, Morning!digest_first(r) PROVE DigestFailed'
  BY <1>6 DEF DigestTyped, DigestFailed, Morning!digest_first, Morning!starts, Morning!goto,
     Morning!Running
<1>7. ASSUME NEW r \in Run, Morning!claim_first(r) PROVE DigestFailed'
  BY <1>7 DEF DigestTyped, DigestFailed, Morning!claim_first, Morning!goto
<1>8. ASSUME NEW r \in Run, Morning!create_run(r) PROVE DigestFailed'
  BY <1>8 DEF DigestTyped, DigestFailed, Morning!create_run, Morning!goto, Morning!releases
<1>9. ASSUME NEW r \in Run, Morning!investigate(r) PROVE DigestFailed'
  BY <1>9 DEF DigestTyped, DigestFailed, Morning!investigate, Morning!goto
<1>10. ASSUME NEW r \in Run, Morning!send_digest(r) PROVE DigestFailed'
  BY <1>10 DEF DigestTyped, DigestFailed, Morning!send_digest, Morning!goto
<1>11. ASSUME NEW r \in Run, Morning!send_digest_queues(r) PROVE DigestFailed'
  BY <1>11 DEF DigestTyped, DigestFailed, Morning!send_digest_queues, Morning!goto,
     Morning!enqueue
<1>12. ASSUME NEW r \in Run, Morning!synthesized(r) PROVE DigestFailed'
  BY <1>12 DEF DigestTyped, DigestFailed, Morning!synthesized, Morning!goto
<1>13. ASSUME NEW r \in Run, Morning!finalize_completed(r) PROVE DigestFailed'
  BY <1>13 DEF DigestTyped, DigestFailed, Morning!finalize_completed, Morning!goto,
     Morning!releases
<1>14. ASSUME NEW r \in Run, Morning!fallback_stores(r) PROVE DigestFailed'
  BY <1>14 DEF DigestTyped, DigestFailed, Morning!fallback_stores, Morning!goto
<1>15. ASSUME NEW r \in Run, Morning!fallback_queues(r) PROVE DigestFailed'
  <2>1. queued'[r] # {} \/ r \in loud'
    BY <1>15 DEF DigestTyped, Morning!fallback_queues, Morning!enqueue
  <2>2. UNCHANGED row /\ loud \subseteq loud' /\ \A q \in Run : queued[q] \subseteq queued'[q]
    BY <1>15 DEF DigestTyped, Morning!fallback_queues, Morning!enqueue
  <2>3. digest_pc'[r] = "fail" /\ \A q \in Run \ {r} : digest_pc'[q] = digest_pc[q]
    BY <1>15 DEF DigestTyped, Morning!fallback_queues, Morning!goto
  <2> QED BY <2>1, <2>2, <2>3 DEF DigestFailed
<1>16. ASSUME NEW r \in Run, Morning!finalize_error(r) PROVE DigestFailed'
  BY <1>16 DEF DigestTyped, DigestFailed, Morning!finalize_error, Morning!goto, Morning!releases
<1> QED BY <1>1, <1>2, <1>3, <1>4, <1>5, <1>6, <1>7, <1>8, <1>9, <1>10, <1>11, <1>12, <1>13,
           <1>14, <1>15, <1>16 DEF Morning!Next, Morning!pipeline

\* The claim of the first briefing is held by one run at a time.
LEMMA DigestFirstHeldStep ==
  ASSUME Morning!DigestAssumption, DigestTyped, DigestFirstHeld, [Morning!Next]_(Morning!vars)
  PROVE  DigestFirstHeld'
<1>1. CASE UNCHANGED <<digest_pc, origin, first_active>>
  BY <1>1 DEF DigestFirstHeld, DigestPast
<1>2. (UNCHANGED Morning!vars \/ Morning!midnight) =>
        UNCHANGED <<digest_pc, origin, first_active>>
  BY DEF Morning!vars, Morning!midnight
<1>3. CASE Morning!restart
  BY <1>3 DEF DigestTyped, DigestFirstHeld, DigestPast, Morning!restart, Morning!Running
<1>4. ASSUME NEW r \in Run, Morning!scheduled(r) PROVE DigestFirstHeld'
  BY <1>4 DEF DigestTyped, DigestFirstHeld, DigestPast, Morning!scheduled, Morning!starts,
     Morning!goto, Morning!due, Morning!Running
<1>5. ASSUME NEW r \in Run, Morning!digest_run(r) PROVE DigestFirstHeld'
  BY <1>5 DEF DigestTyped, DigestFirstHeld, DigestPast, Morning!digest_run, Morning!starts,
     Morning!goto, Morning!Running
<1>6. ASSUME NEW r \in Run, Morning!digest_first(r) PROVE DigestFirstHeld'
  BY <1>6 DEF DigestTyped, DigestFirstHeld, DigestPast, Morning!digest_first, Morning!starts,
     Morning!goto, Morning!Running
<1>7. ASSUME NEW r \in Run, Morning!claim_first(r) PROVE DigestFirstHeld'
  BY <1>7 DEF DigestTyped, DigestFirstHeld, DigestPast, Morning!claim_first, Morning!goto
<1>8. ASSUME NEW r \in Run, Morning!create_run(r) PROVE DigestFirstHeld'
  <2>1. UNCHANGED origin /\ (\A q \in Run \ {r} : digest_pc'[q] = digest_pc[q])
        /\ (first_active' = first_active \/
           (first_active' = (first_active /\ origin[r] # "first") /\ digest_pc'[r] = "done"))
    BY <1>8 DEF DigestTyped, Morning!create_run, Morning!goto, Morning!releases
  <2>2. DigestPast(r) /\ (DigestPast(r)' \/ digest_pc'[r] = "done") /\ digest_pc'[r] # "f_check"
    BY <1>8 DEF DigestTyped, DigestPast, Morning!create_run, Morning!goto
  <2>3. \A q \in Run \ {r} : DigestPast(q)' = DigestPast(q)
    BY <2>1 DEF DigestPast
  <2>4. digest_pc'[r] = "done" => ~DigestPast(r)'
    BY DEF DigestPast
  <2>5. \A q \in Run : origin'[q] = "first" /\ DigestPast(q)' => first_active'
    <3> SUFFICES ASSUME NEW q \in Run, origin[q] = "first", DigestPast(q)' PROVE first_active'
      BY <2>1
    <3>1. DigestPast(q) /\ first_active
      BY <2>2, <2>3 DEF DigestFirstHeld
    <3>2. CASE origin[r] = "first"
      BY <2>1, <2>2, <2>4, <3>1, <3>2 DEF DigestFirstHeld
    <3>3. CASE origin[r] # "first"
      BY <2>1, <3>1, <3>3
    <3> QED BY <3>2, <3>3
  <2> QED BY <2>1, <2>2, <2>3, <2>5 DEF DigestFirstHeld
<1>9. ASSUME NEW r \in Run, Morning!investigate(r) PROVE DigestFirstHeld'
  BY <1>9 DEF DigestTyped, DigestFirstHeld, DigestPast, Morning!investigate, Morning!goto
<1>10. ASSUME NEW r \in Run, Morning!send_digest(r) PROVE DigestFirstHeld'
  BY <1>10 DEF DigestTyped, DigestFirstHeld, DigestPast, Morning!send_digest, Morning!goto
<1>11. ASSUME NEW r \in Run, Morning!send_digest_queues(r) PROVE DigestFirstHeld'
  BY <1>11 DEF DigestTyped, DigestFirstHeld, DigestPast, Morning!send_digest_queues,
     Morning!goto, Morning!enqueue
<1>12. ASSUME NEW r \in Run, Morning!synthesized(r) PROVE DigestFirstHeld'
  BY <1>12 DEF DigestTyped, DigestFirstHeld, DigestPast, Morning!synthesized, Morning!goto
<1>13. ASSUME NEW r \in Run, Morning!finalize_completed(r) PROVE DigestFirstHeld'
  <2>1. UNCHANGED origin /\ (\A q \in Run \ {r} : digest_pc'[q] = digest_pc[q])
        /\ (first_active' = first_active \/
           (first_active' = (first_active /\ origin[r] # "first") /\ digest_pc'[r] = "done"))
    BY <1>13 DEF DigestTyped, Morning!finalize_completed, Morning!goto, Morning!releases
  <2>2. DigestPast(r) /\ (DigestPast(r)' \/ digest_pc'[r] = "done") /\ digest_pc'[r] # "f_check"
    BY <1>13 DEF DigestTyped, DigestPast, Morning!finalize_completed, Morning!goto
  <2>3. \A q \in Run \ {r} : DigestPast(q)' = DigestPast(q)
    BY <2>1 DEF DigestPast
  <2>4. digest_pc'[r] = "done" => ~DigestPast(r)'
    BY DEF DigestPast
  <2>5. \A q \in Run : origin'[q] = "first" /\ DigestPast(q)' => first_active'
    <3> SUFFICES ASSUME NEW q \in Run, origin[q] = "first", DigestPast(q)' PROVE first_active'
      BY <2>1
    <3>1. DigestPast(q) /\ first_active
      BY <2>2, <2>3 DEF DigestFirstHeld
    <3>2. CASE origin[r] = "first"
      BY <2>1, <2>2, <2>4, <3>1, <3>2 DEF DigestFirstHeld
    <3>3. CASE origin[r] # "first"
      BY <2>1, <3>1, <3>3
    <3> QED BY <3>2, <3>3
  <2> QED BY <2>1, <2>2, <2>3, <2>5 DEF DigestFirstHeld
<1>14. ASSUME NEW r \in Run, Morning!fallback_stores(r) PROVE DigestFirstHeld'
  BY <1>14 DEF DigestTyped, DigestFirstHeld, DigestPast, Morning!fallback_stores, Morning!goto
<1>15. ASSUME NEW r \in Run, Morning!fallback_queues(r) PROVE DigestFirstHeld'
  BY <1>15 DEF DigestTyped, DigestFirstHeld, DigestPast, Morning!fallback_queues, Morning!goto,
     Morning!enqueue
<1>16. ASSUME NEW r \in Run, Morning!finalize_error(r) PROVE DigestFirstHeld'
  <2>1. UNCHANGED origin /\ (\A q \in Run \ {r} : digest_pc'[q] = digest_pc[q])
        /\ (first_active' = first_active \/
           (first_active' = (first_active /\ origin[r] # "first") /\ digest_pc'[r] = "done"))
    BY <1>16 DEF DigestTyped, Morning!finalize_error, Morning!goto, Morning!releases
  <2>2. DigestPast(r) /\ (DigestPast(r)' \/ digest_pc'[r] = "done") /\ digest_pc'[r] # "f_check"
    BY <1>16 DEF DigestTyped, DigestPast, Morning!finalize_error, Morning!goto
  <2>3. \A q \in Run \ {r} : DigestPast(q)' = DigestPast(q)
    BY <2>1 DEF DigestPast
  <2>4. digest_pc'[r] = "done" => ~DigestPast(r)'
    BY DEF DigestPast
  <2>5. \A q \in Run : origin'[q] = "first" /\ DigestPast(q)' => first_active'
    <3> SUFFICES ASSUME NEW q \in Run, origin[q] = "first", DigestPast(q)' PROVE first_active'
      BY <2>1
    <3>1. DigestPast(q) /\ first_active
      BY <2>2, <2>3 DEF DigestFirstHeld
    <3>2. CASE origin[r] = "first"
      BY <2>1, <2>2, <2>4, <3>1, <3>2 DEF DigestFirstHeld
    <3>3. CASE origin[r] # "first"
      BY <2>1, <3>1, <3>3
    <3> QED BY <3>2, <3>3
  <2> QED BY <2>1, <2>2, <2>3, <2>5 DEF DigestFirstHeld
<1> QED BY <1>1, <1>2, <1>3, <1>4, <1>5, <1>6, <1>7, <1>8, <1>9, <1>10, <1>11, <1>12, <1>13,
           <1>14, <1>15, <1>16 DEF Morning!Next, Morning!pipeline

\* A run queues nothing before its row of the day is written.
LEMMA DigestRowFirstStep ==
  ASSUME Morning!DigestAssumption, DigestTyped, DigestRowFirst, [Morning!Next]_(Morning!vars)
  PROVE  DigestRowFirst'
<1>1. CASE UNCHANGED <<digest_pc, origin, queued, digest_born, day, digest_digest>>
  BY <1>1 DEF DigestRowFirst, DigestTold, Morning!Day
<1>2. UNCHANGED Morning!vars =>
        UNCHANGED <<digest_pc, origin, queued, digest_born, day, digest_digest>>
  BY DEF Morning!vars
<1>3. CASE Morning!midnight
  BY <1>3 DEF DigestTyped, DigestRowFirst, DigestTold, Morning!Day, Morning!midnight
<1>4. CASE Morning!restart
  BY <1>4 DEF DigestTyped, DigestRowFirst, DigestTold, Morning!Day, Morning!restart,
     Morning!Running
<1>5. ASSUME NEW r \in Run, Morning!scheduled(r) PROVE DigestRowFirst'
  BY <1>5 DEF DigestTyped, DigestRowFirst, DigestTold, Morning!Day, Morning!scheduled,
     Morning!starts, Morning!goto, Morning!due, Morning!Running
<1>6. ASSUME NEW r \in Run, Morning!digest_run(r) PROVE DigestRowFirst'
  BY <1>6 DEF DigestTyped, DigestRowFirst, DigestTold, Morning!Day, Morning!digest_run,
     Morning!starts, Morning!goto, Morning!Running
<1>7. ASSUME NEW r \in Run, Morning!digest_first(r) PROVE DigestRowFirst'
  BY <1>7 DEF DigestTyped, DigestRowFirst, DigestTold, Morning!Day, Morning!digest_first,
     Morning!starts, Morning!goto, Morning!Running
<1>8. ASSUME NEW r \in Run, Morning!claim_first(r) PROVE DigestRowFirst'
  BY <1>8 DEF DigestTyped, DigestRowFirst, DigestTold, Morning!Day, Morning!claim_first,
     Morning!goto
<1>9. ASSUME NEW r \in Run, Morning!create_run(r) PROVE DigestRowFirst'
  BY <1>9 DEF DigestTyped, DigestRowFirst, DigestTold, Morning!Day, Morning!create_run,
     Morning!goto, Morning!releases
<1>10. ASSUME NEW r \in Run, Morning!investigate(r) PROVE DigestRowFirst'
  BY <1>10 DEF DigestTyped, DigestRowFirst, DigestTold, Morning!Day, Morning!investigate,
     Morning!goto
<1>11. ASSUME NEW r \in Run, Morning!send_digest(r) PROVE DigestRowFirst'
  <2>1. UNCHANGED <<day, queued, origin, digest_born>> /\
          (\A q \in Run \ {r} : digest_pc'[q] = digest_pc[q]) /\ digest_pc[r] # "idle" /\
          digest_pc'[r] # "idle"
    BY <1>11 DEF DigestTyped, Morning!send_digest, Morning!goto
  <2>2. [run |-> r, body |-> "good"] # None
    BY DEF Morning!DigestAssumption, Morning!Body
  <2>3. \A d \in Morning!Day : digest_digest[d] # None => digest_digest'[d] # None
    BY <1>11, <2>2 DEF DigestTyped, Morning!send_digest
  <2>4. digest_pc'[r] \in {"stored", "fallback_queue"} => digest_digest'[day] # None
    BY <1>11, <2>2 DEF DigestTyped, Morning!send_digest, Morning!goto
  <2>5. \A q \in Run : DigestTold(q)' = DigestTold(q)
    BY <2>1 DEF DigestTold
  <2> QED BY <2>1, <2>3, <2>4, <2>5 DEF DigestTyped, DigestRowFirst
<1>12. ASSUME NEW r \in Run, Morning!send_digest_queues(r) PROVE DigestRowFirst'
  <2>1. /\ UNCHANGED <<day, digest_digest, origin, digest_born>> /\
          (\A q \in Run \ {r} : digest_pc'[q] = digest_pc[q])
        /\ digest_pc[r] = "stored" /\ digest_pc'[r] \notin {"idle", "stored", "fallback_queue"}
        /\ \A q \in Run \ {r} : queued'[q] = queued[q]
    BY <1>12 DEF DigestTyped, Morning!send_digest_queues, Morning!goto, Morning!enqueue
  <2>2. \A m \in queued'[r] : m \in queued[r] \/ m.day = day
    BY <1>12 DEF DigestTyped, Morning!send_digest_queues, Morning!enqueue
  <2>3. DigestTold(r)' => DigestTold(r) \/ digest_born[r] = day
    BY <2>1, <2>2 DEF DigestTold
  <2>4. \A q \in Run \ {r} : DigestTold(q)' = DigestTold(q)
    BY <2>1 DEF DigestTold
  <2> QED BY <2>1, <2>3, <2>4 DEF DigestTyped, DigestRowFirst
<1>13. ASSUME NEW r \in Run, Morning!synthesized(r) PROVE DigestRowFirst'
  BY <1>13 DEF DigestTyped, DigestRowFirst, DigestTold, Morning!Day, Morning!synthesized,
     Morning!goto
<1>14. ASSUME NEW r \in Run, Morning!finalize_completed(r) PROVE DigestRowFirst'
  BY <1>14 DEF DigestTyped, DigestRowFirst, DigestTold, Morning!Day,
     Morning!finalize_completed, Morning!goto, Morning!releases
<1>15. ASSUME NEW r \in Run, Morning!fallback_stores(r) PROVE DigestRowFirst'
  <2>1. UNCHANGED <<day, queued, origin, digest_born>> /\
          (\A q \in Run \ {r} : digest_pc'[q] = digest_pc[q]) /\ digest_pc[r] # "idle" /\
          digest_pc'[r] # "idle"
    BY <1>15 DEF DigestTyped, Morning!fallback_stores, Morning!goto
  <2>2. [run |-> r, body |-> "fallback"] # None
    BY DEF Morning!DigestAssumption, Morning!Body
  <2>3. \A d \in Morning!Day : digest_digest[d] # None => digest_digest'[d] # None
    BY <1>15, <2>2 DEF DigestTyped, Morning!fallback_stores
  <2>4. digest_pc'[r] \in {"stored", "fallback_queue"} => digest_digest'[day] # None
    BY <1>15, <2>2 DEF DigestTyped, Morning!fallback_stores, Morning!goto
  <2>5. \A q \in Run : DigestTold(q)' = DigestTold(q)
    BY <2>1 DEF DigestTold
  <2> QED BY <2>1, <2>3, <2>4, <2>5 DEF DigestTyped, DigestRowFirst
<1>16. ASSUME NEW r \in Run, Morning!fallback_queues(r) PROVE DigestRowFirst'
  <2>1. /\ UNCHANGED <<day, digest_digest, origin, digest_born>> /\
          (\A q \in Run \ {r} : digest_pc'[q] = digest_pc[q])
        /\ digest_pc[r] = "fallback_queue" /\
           digest_pc'[r] \notin {"idle", "stored", "fallback_queue"}
        /\ \A q \in Run \ {r} : queued'[q] = queued[q]
    BY <1>16 DEF DigestTyped, Morning!fallback_queues, Morning!goto, Morning!enqueue
  <2>2. \A m \in queued'[r] : m \in queued[r] \/ m.day = day
    BY <1>16 DEF DigestTyped, Morning!fallback_queues, Morning!enqueue
  <2>3. DigestTold(r)' => DigestTold(r) \/ digest_born[r] = day
    BY <2>1, <2>2 DEF DigestTold
  <2>4. \A q \in Run \ {r} : DigestTold(q)' = DigestTold(q)
    BY <2>1 DEF DigestTold
  <2> QED BY <2>1, <2>3, <2>4 DEF DigestTyped, DigestRowFirst
<1>17. ASSUME NEW r \in Run, Morning!finalize_error(r) PROVE DigestRowFirst'
  BY <1>17 DEF DigestTyped, DigestRowFirst, DigestTold, Morning!Day, Morning!finalize_error,
     Morning!goto, Morning!releases
<1> QED BY <1>1, <1>2, <1>3, <1>4, <1>5, <1>6, <1>7, <1>8, <1>9, <1>10, <1>11, <1>12, <1>13,
           <1>14, <1>15, <1>16, <1>17 DEF Morning!Next, Morning!pipeline

\* A run that finds the row of its day queues no message, unless they overlapped.
LEMMA DigestApartStep ==
  ASSUME Morning!DigestAssumption, DigestTyped, DigestRowFirst, DigestApart,
    [Morning!Next]_(Morning!vars)
  PROVE  DigestApart'
<1>1. CASE UNCHANGED <<origin, digest_born, met, digest_pc, queued>>
  BY <1>1 DEF DigestApart, DigestTold, Morning!Day
<1>2. (UNCHANGED Morning!vars \/ Morning!midnight) =>
        UNCHANGED <<origin, digest_born, met, digest_pc, queued>>
  BY DEF Morning!vars, Morning!midnight
<1>3. CASE Morning!restart
  BY <1>3 DEF DigestTyped, DigestRowFirst, DigestApart, DigestTold, Morning!Day,
     Morning!restart, Morning!Running
<1>4. ASSUME NEW r \in Run, Morning!scheduled(r) PROVE DigestApart'
  <2>1. /\ UNCHANGED <<day, queued>> /\ digest_digest[day] = None /\ digest_pc[r] = "idle"
        /\ origin' = [origin EXCEPT ![r] = "scheduled"] /\
           digest_born' = [digest_born EXCEPT ![r] = day]
        /\ met' = met \cup {{r, s} : s \in {q \in Run : Morning!Running(q)}}
        /\ \A q \in Run \ {r} : digest_pc'[q] = digest_pc[q]
    BY <1>4 DEF DigestTyped, Morning!scheduled, Morning!starts, Morning!due, Morning!goto
  <2>2. \A q \in Run \ {r} : origin'[q] = origin[q] /\ digest_born'[q] = digest_born[q] /\
          DigestTold(q)' = DigestTold(q)
    BY <2>1 DEF DigestTyped, DigestTold
  <2>3. ASSUME NEW s \in Run \ {r}, origin[s] = "scheduled", digest_born[s] = day
        PROVE  {r, s} \in met' \/ (digest_pc[s] = "done" /\ ~DigestTold(s))
    <3>1. digest_pc[s] # "idle" /\ ~DigestTold(s)
      BY <2>1, <2>3 DEF DigestRowFirst, Morning!DigestAssumption, Morning!Origin
    <3> QED BY <2>1, <3>1 DEF Morning!Running
  <2>4. \A s \in Run : {r, s} = {s, r}
    OBVIOUS
  <2>5. digest_born'[r] = day
    BY <2>1 DEF DigestTyped
  <2> QED BY <2>1, <2>2, <2>3, <2>4, <2>5 DEF DigestApart
<1>5. ASSUME NEW r \in Run, Morning!digest_run(r) PROVE DigestApart'
  <2>1. /\ UNCHANGED queued /\ met \subseteq met' /\ digest_pc[r] = "idle" /\
          origin'[r] = "forced"
        /\ \A q \in Run \ {r} : digest_pc'[q] = digest_pc[q] /\ origin'[q] = origin[q] /\
           digest_born'[q] = digest_born[q]
    BY <1>5 DEF DigestTyped, Morning!digest_run, Morning!starts, Morning!goto
  <2>2. \A q \in Run \ {r} : DigestTold(q)' = DigestTold(q)
    BY <2>1 DEF DigestTold
  <2> QED BY <2>1, <2>2 DEF DigestApart
<1>6. ASSUME NEW r \in Run, Morning!digest_first(r) PROVE DigestApart'
  <2>1. /\ UNCHANGED queued /\ met \subseteq met' /\ digest_pc[r] = "idle" /\ origin'[r] = "first"
        /\ \A q \in Run \ {r} : digest_pc'[q] = digest_pc[q] /\ origin'[q] = origin[q] /\
           digest_born'[q] = digest_born[q]
    BY <1>6 DEF DigestTyped, Morning!digest_first, Morning!starts, Morning!goto
  <2>2. \A q \in Run \ {r} : DigestTold(q)' = DigestTold(q)
    BY <2>1 DEF DigestTold
  <2> QED BY <2>1, <2>2 DEF DigestApart
<1>7. ASSUME NEW r \in Run, Morning!claim_first(r) PROVE DigestApart'
  <2>1. UNCHANGED <<queued, origin, digest_born, met>> /\
          \A q \in Run : digest_pc[q] = "done" => digest_pc'[q] = "done"
    BY <1>7 DEF DigestTyped, Morning!claim_first, Morning!goto
  <2>2. \A q \in Run : DigestTold(q)' = DigestTold(q)
    BY <2>1 DEF DigestTold
  <2> QED BY <2>1, <2>2 DEF DigestApart
<1>8. ASSUME NEW r \in Run, Morning!create_run(r) PROVE DigestApart'
  <2>1. UNCHANGED <<queued, origin, digest_born, met>> /\
          \A q \in Run : digest_pc[q] = "done" => digest_pc'[q] = "done"
    BY <1>8 DEF DigestTyped, Morning!create_run, Morning!goto
  <2>2. \A q \in Run : DigestTold(q)' = DigestTold(q)
    BY <2>1 DEF DigestTold
  <2> QED BY <2>1, <2>2 DEF DigestApart
<1>9. ASSUME NEW r \in Run, Morning!investigate(r) PROVE DigestApart'
  <2>1. UNCHANGED <<queued, origin, digest_born, met>> /\
          \A q \in Run : digest_pc[q] = "done" => digest_pc'[q] = "done"
    BY <1>9 DEF DigestTyped, Morning!investigate, Morning!goto
  <2>2. \A q \in Run : DigestTold(q)' = DigestTold(q)
    BY <2>1 DEF DigestTold
  <2> QED BY <2>1, <2>2 DEF DigestApart
<1>10. ASSUME NEW r \in Run, Morning!send_digest(r) PROVE DigestApart'
  <2>1. UNCHANGED <<queued, origin, digest_born, met>> /\
          \A q \in Run : digest_pc[q] = "done" => digest_pc'[q] = "done"
    BY <1>10 DEF DigestTyped, Morning!send_digest, Morning!goto
  <2>2. \A q \in Run : DigestTold(q)' = DigestTold(q)
    BY <2>1 DEF DigestTold
  <2> QED BY <2>1, <2>2 DEF DigestApart
<1>11. ASSUME NEW r \in Run, Morning!send_digest_queues(r) PROVE DigestApart'
  BY <1>11 DEF DigestTyped, DigestRowFirst, DigestApart, DigestTold, Morning!Day,
     Morning!send_digest_queues, Morning!goto, Morning!enqueue
<1>12. ASSUME NEW r \in Run, Morning!synthesized(r) PROVE DigestApart'
  <2>1. UNCHANGED <<queued, origin, digest_born, met>> /\
          \A q \in Run : digest_pc[q] = "done" => digest_pc'[q] = "done"
    BY <1>12 DEF DigestTyped, Morning!synthesized, Morning!goto
  <2>2. \A q \in Run : DigestTold(q)' = DigestTold(q)
    BY <2>1 DEF DigestTold
  <2> QED BY <2>1, <2>2 DEF DigestApart
<1>13. ASSUME NEW r \in Run, Morning!finalize_completed(r) PROVE DigestApart'
  <2>1. UNCHANGED <<queued, origin, digest_born, met>> /\
          \A q \in Run : digest_pc[q] = "done" => digest_pc'[q] = "done"
    BY <1>13 DEF DigestTyped, Morning!finalize_completed, Morning!goto
  <2>2. \A q \in Run : DigestTold(q)' = DigestTold(q)
    BY <2>1 DEF DigestTold
  <2> QED BY <2>1, <2>2 DEF DigestApart
<1>14. ASSUME NEW r \in Run, Morning!fallback_stores(r) PROVE DigestApart'
  <2>1. UNCHANGED <<queued, origin, digest_born, met>> /\
          \A q \in Run : digest_pc[q] = "done" => digest_pc'[q] = "done"
    BY <1>14 DEF DigestTyped, Morning!fallback_stores, Morning!goto
  <2>2. \A q \in Run : DigestTold(q)' = DigestTold(q)
    BY <2>1 DEF DigestTold
  <2> QED BY <2>1, <2>2 DEF DigestApart
<1>15. ASSUME NEW r \in Run, Morning!fallback_queues(r) PROVE DigestApart'
  BY <1>15 DEF DigestTyped, DigestRowFirst, DigestApart, DigestTold, Morning!Day,
     Morning!fallback_queues, Morning!goto, Morning!enqueue
<1>16. ASSUME NEW r \in Run, Morning!finalize_error(r) PROVE DigestApart'
  <2>1. UNCHANGED <<queued, origin, digest_born, met>> /\
          \A q \in Run : digest_pc[q] = "done" => digest_pc'[q] = "done"
    BY <1>16 DEF DigestTyped, Morning!finalize_error, Morning!goto
  <2>2. \A q \in Run : DigestTold(q)' = DigestTold(q)
    BY <2>1 DEF DigestTold
  <2> QED BY <2>1, <2>2 DEF DigestApart
<1> QED BY <1>1, <1>2, <1>3, <1>4, <1>5, <1>6, <1>7, <1>8, <1>9, <1>10, <1>11, <1>12, <1>13,
           <1>14, <1>15, <1>16 DEF Morning!Next, Morning!pipeline

\* DigestInv holds in every reachable state.
LEMMA DigestInductive ==
  ASSUME Morning!DigestAssumption PROVE Morning!Spec => []DigestInv
<1>1. Morning!Init => DigestInv
  <2> SUFFICES ASSUME Morning!Init PROVE DigestInv
    OBVIOUS
  <2>1. DigestTyped
    <3>1. day \in Morning!Day
      BY DEF Morning!Init, Morning!Day, Morning!DigestAssumption
    <3> QED BY <3>1 DEF Morning!Init, DigestTyped, Morning!Place
  <2>2. DigestShown /\ DigestFailed /\ DigestFirstHeld
    BY DEF Morning!Init, DigestShown, DigestFailed, DigestFirstHeld, DigestPast,
       Morning!DigestAssumption
  <2>3. DigestRowFirst /\ DigestApart
    BY DEF Morning!Init, DigestRowFirst, DigestTold, DigestApart, Morning!DigestAssumption,
       Morning!Origin
  <2> QED BY <2>1, <2>2, <2>3 DEF DigestInv
<1>2. DigestInv /\ [Morning!Next]_(Morning!vars) => DigestInv'
  BY DigestTypedStep, DigestShownStep, DigestFailedStep, DigestFirstHeldStep,
     DigestRowFirstStep, DigestApartStep DEF DigestInv
<1> QED BY <1>1, <1>2, PTL DEF Morning!Spec

\* A digest that failed is not silent, and a completed one was queued (run_daily_digest).
THEOREM FailuresShown ==
  ASSUME Morning!DigestAssumption
  PROVE  Morning!Spec => []Morning!NoSilentFailure
<1>1. DigestInv => Morning!NoSilentFailure
  BY DEF DigestInv, DigestShown, DigestFailed, DigestGoodOut, Morning!NoSilentFailure
<1> QED BY <1>1, DigestInductive, PTL

\* One digest a morning and one first briefing at a time, unless runs overlapped.
THEOREM DigestOnce ==
  ASSUME Morning!DigestAssumption
  PROVE  Morning!Spec => []Morning!NoDoubleDigest
<1>1. DigestInv => Morning!NoDoubleDigest
  <2> SUFFICES ASSUME DigestInv PROVE Morning!NoDoubleDigest
    OBVIOUS
  <2>1. Morning!OneDigestPerDay
    <3> SUFFICES ASSUME NEW r \in Run, NEW s \in Run, r # s,
                        origin[r] = "scheduled", origin[s] = "scheduled", {r, s} \notin met,
                        NEW m \in queued[r], NEW n \in queued[s],
                        m.day = n.day, {m.day} = {digest_born[r], digest_born[s]}
                 PROVE  FALSE
      BY DEF Morning!OneDigestPerDay
    <3>1. digest_born[r] = m.day /\ digest_born[s] = n.day /\ digest_born[r] = digest_born[s]
      OBVIOUS
    <3>2. DigestTold(r) /\ DigestTold(s)
      BY <3>1 DEF DigestTold
    <3> QED BY <3>1, <3>2 DEF DigestInv, DigestApart
  <2>2. Morning!OneFirstBriefing
    <3> SUFFICES ASSUME NEW r \in Run, NEW s \in Run, r # s,
                        origin[r] = "first", origin[s] = "first",
                        {digest_pc[r], digest_pc[s]} \cap {"idle", "done", "f_check"} = {}
                 PROVE  FALSE
      BY DEF Morning!OneFirstBriefing
    <3>1. DigestPast(r) /\ DigestPast(s)
      BY DEF DigestPast
    <3> QED BY <3>1 DEF DigestInv, DigestFirstHeld
  <2> QED BY <2>1, <2>2 DEF Morning!NoDoubleDigest
<1> QED BY <1>1, DigestInductive, PTL

-----------------------------------------------------------------------------
(***************************************************************************)
(* Forecasts: the claims the nightly job enters and settles                *)
(***************************************************************************)

\* The type invariant; bars need no bound here.
LedgerTyped ==
    /\ ledger_day \in Ledger!Day /\ bench \in Int /\ bars \in Int
    /\ published \in [Claim -> Ledger!Day \cup {None}] /\
       \A c \in Claim : published[c] # None => published[c] <= ledger_day
    /\ DOMAIN ledger_ledger = Claim
    /\ ledger_pc \in [Ledger!Job -> {"idle", "insert", "list", "resolve"}]
    /\ rows \in [Ledger!Job -> SUBSET Claim] /\ due \in [Ledger!Job -> SUBSET Claim]
    /\ ran \in BOOLEAN /\ ledger_raced \in BOOLEAN
    /\ lacking \in [Claim -> SUBSET Ledger!Day] /\ offered \subseteq Claim

\* What a job goes by was published.
LedgerExtracted ==
    /\ \A j \in Ledger!Job : \A c \in rows[j] : published[c] # None
    /\ \A c \in Claim : ledger_ledger[c] = [status |-> "open"] => published[c] # None

\* What a sweep still has to look at is open, unless another one settles rows too.
LedgerSwept ==
    /\ \A j \in Ledger!Job : due[j] # {} => ledger_pc[j] = "resolve"
    /\ \A j \in Ledger!Job : \A c \in due[j] : published[c] # None
    /\ \/ ledger_raced
       \/ /\ \A i, j \in Ledger!Job : ledger_pc[i] = "resolve" /\ ledger_pc[j] = "resolve" =>
             i = j
          /\ \A j \in Ledger!Job : \A c \in due[j] : ledger_ledger[c] = [status |-> "open"]

\* No night was missed for c, or one of a Tuesday, a Wednesday or a Thursday.
LedgerMidweek(c) ==
    lacking[c] = {} \/ \E d \in Ledger!Day : lacking[c] = {d} /\ d % 7 \in 1 .. 3

\* The nightly run of weekday w has entered c if it was published before.
LedgerEntered(c, w) == c \notin Ledger!entered /\ published[c] # None => published[c] >= w

\* The nightly run is of a weekday.
LedgerPlace ==
    /\ ledger_pc["nightly"] # "idle" => ran
    /\ ledger_pc["nightly"] = "insert" => Ledger!Weekday(ledger_day)

\* A night that was not missed for c has entered it if it was published before, as long
\* as one night at most was missed for it and that of a Tuesday, a Wednesday or a Thursday.
LedgerOf(c) ==
    /\ ledger_pc["nightly"] = "insert" /\ published[c] # None /\ published[c] < ledger_day /\
       published[c] >= ledger_day - Lookback
          => c \in rows["nightly"] \/ ledger_day \in lacking[c]
    /\ LedgerMidweek(c) =>
          /\ \A w \in FirstDay .. ledger_day - 1 : Ledger!Weekday(w) /\ w \notin lacking[c] =>
             LedgerEntered(c, w)
          /\ ran /\ ledger_pc["nightly"] # "insert" /\ ledger_day \notin lacking[c] =>
             LedgerEntered(c, ledger_day)
          /\ c \in offered => c \in Ledger!entered

LedgerNightly == LedgerPlace /\ \A c \in Claim : LedgerOf(c)

\* What is inductive about the ledger.
LedgerInv == LedgerTyped /\ LedgerExtracted /\ LedgerSwept /\ LedgerNightly

\* The last trading day up to d is a day, and no later than d.
LEMMA LedgerTradingDayFact ==
  ASSUME NEW d \in Int
  PROVE  Ledger!TradingDay(d) \in Int /\ Ledger!TradingDay(d) <= d
<1> DEFINE P(t) == Ledger!Weekday(t) /\ \A u \in {d - 2, d - 1, d} : Ledger!Weekday(u) => u <= t
<1>1. \E t \in {d - 2, d - 1, d} : P(t)
  <2>1. Ledger!Weekday(d) \/ Ledger!Weekday(d - 1) \/ Ledger!Weekday(d - 2)
    BY DEF Ledger!Weekday
  <2>2. CASE Ledger!Weekday(d)
    BY <2>2
  <2>3. CASE ~Ledger!Weekday(d) /\ Ledger!Weekday(d - 1)
    BY <2>3
  <2>4. CASE ~Ledger!Weekday(d) /\ ~Ledger!Weekday(d - 1) /\ Ledger!Weekday(d - 2)
    BY <2>4
  <2> QED BY <2>1, <2>2, <2>3, <2>4
<1>2. Ledger!TradingDay(d) = CHOOSE t \in {d - 2, d - 1, d} : P(t)
  BY DEF Ledger!TradingDay
<1> HIDE DEF P
<1>3. Ledger!TradingDay(d) \in {d - 2, d - 1, d}
  BY <1>1, <1>2
<1> QED BY <1>3

\* Among the three days before a weekday is a weekday that was not missed.
LEMMA LedgerNightBefore ==
  ASSUME NEW d \in Nat, Ledger!Weekday(d), NEW c \in Claim, LedgerMidweek(c)
  PROVE  \E w \in {d - 1, d - 2, d - 3} : Ledger!Weekday(w) /\ w \notin lacking[c]
<1>1. CASE lacking[c] = {}
  <2>1. Ledger!Weekday(d - 1) \/ Ledger!Weekday(d - 2) \/ Ledger!Weekday(d - 3)
    BY DEF Ledger!Weekday
  <2> QED BY <1>1, <2>1
<1>2. ASSUME NEW m \in Int, lacking[c] = {m}, m % 7 \in 1 .. 3
      PROVE  \E w \in {d - 1, d - 2, d - 3} : Ledger!Weekday(w) /\ w \notin lacking[c]
  <2>1. \/ Ledger!Weekday(d - 1) /\ d - 1 # m
        \/ Ledger!Weekday(d - 2) /\ d - 2 # m
        \/ Ledger!Weekday(d - 3) /\ d - 3 # m
    BY <1>2 DEF Ledger!Weekday
  <2> QED BY <1>2, <2>1
<1> QED BY <1>1, <1>2 DEF LedgerMidweek, Ledger!Day, Ledger!ForecastsAssumption

\* The days of a claim stay days.
LEMMA LedgerLacking ==
  ASSUME LedgerTyped, NEW S, Ledger!miss(S)
  PROVE  lacking' \in [Claim -> SUBSET Ledger!Day]
<1> DEFINE to(c) == IF c \notin S THEN lacking[c]
                    ELSE IF lacking[c] \subseteq {ledger_day} THEN {ledger_day} ELSE Ledger!Day
<1>1. lacking' = [c \in Claim |-> to(c)]
  BY DEF Ledger!miss
<1>2. \A c \in Claim : to(c) \in SUBSET Ledger!Day
  BY DEF LedgerTyped
<1> HIDE DEF to
<1> QED BY <1>1, <1>2

\* A night missed for the claims of S, and what a second one ends.
LEMMA LedgerMissed ==
  ASSUME LedgerTyped, NEW S, Ledger!miss(S), NEW c \in Claim
  PROVE  /\ lacking[c] \subseteq lacking'[c]
         /\ c \in S => ledger_day \in lacking'[c]
         /\ LedgerMidweek(c)' => LedgerMidweek(c)
<1>1. lacking'[c] = IF c \notin S THEN lacking[c]
                    ELSE IF lacking[c] \subseteq {ledger_day} THEN {ledger_day} ELSE Ledger!Day
  BY DEF Ledger!miss
<1>2. ledger_day \in Ledger!Day /\ lacking[c] \subseteq Ledger!Day
  BY DEF LedgerTyped
<1>3. lacking[c] \subseteq lacking'[c] /\ (c \in S => ledger_day \in lacking'[c])
  BY <1>1, <1>2
<1>4. ASSUME LedgerMidweek(c)' PROVE LedgerMidweek(c)
  <2>1. lacking'[c] = {} \/ \E d \in Ledger!Day : lacking'[c] = {d} /\ d % 7 \in 1 .. 3
    BY <1>4 DEF LedgerMidweek
  <2>2. CASE c \notin S \/ lacking[c] = {}
    BY <1>1, <2>1, <2>2 DEF LedgerMidweek
  <2>3. CASE c \in S /\ lacking[c] # {} /\ lacking[c] \subseteq {ledger_day}
    <3>1. lacking[c] = {ledger_day} /\ lacking'[c] = {ledger_day}
      BY <1>1, <2>3
    <3> QED BY <2>1, <3>1 DEF LedgerMidweek
  <2>4. CASE c \in S /\ ~(lacking[c] \subseteq {ledger_day})
    <3>1. lacking'[c] = Ledger!Day /\ \E d, e \in Ledger!Day : d # e
      BY <1>1, <1>2, <2>4
    <3> QED BY <2>1, <3>1
  <2> QED BY <2>2, <2>3, <2>4
<1> QED BY <1>3, <1>4

\* Every step keeps the types.
LEMMA LedgerTypedStep ==
  ASSUME Ledger!ForecastsAssumption, LedgerTyped, [Ledger!Next]_(Ledger!vars)
  PROVE  LedgerTyped'
<1>1. CASE UNCHANGED <<ledger_day, bench, bars, published, ledger_ledger, ledger_pc, rows, due,
                       ran, ledger_raced, lacking, offered>>
  BY <1>1 DEF LedgerTyped, Ledger!Job
<1>2. UNCHANGED Ledger!vars =>
        UNCHANGED <<ledger_day, bench, bars, published, ledger_ledger, ledger_pc, rows, due,
                    ran, ledger_raced, lacking, offered>>
  BY DEF Ledger!vars, Ledger!job, Ledger!history
<1>3. CASE Ledger!midnight
  <2>1. ledger_day' = ledger_day + 1 /\ ledger_day < LedgerDays /\ ledger_day \in Ledger!Day /\
          LedgerDays \in Nat /\ FirstDay \in Nat
    BY <1>3 DEF LedgerTyped, Ledger!midnight, Ledger!ForecastsAssumption
  <2>2. ledger_day' \in Ledger!Day /\ ledger_day < ledger_day'
    BY <2>1 DEF Ledger!Day
  <2>3. lacking' \in [Claim -> SUBSET Ledger!Day]
    BY <1>3, LedgerLacking DEF LedgerTyped, Ledger!midnight
  <2>4. ASSUME NEW c \in Claim, published'[c] # None PROVE published'[c] <= ledger_day'
    <3>1. published[c] \in Ledger!Day /\ published[c] <= ledger_day /\ published' = published
      BY <1>3, <2>4 DEF LedgerTyped, Ledger!midnight
    <3> QED BY <2>1, <2>2, <3>1 DEF Ledger!Day
  <2>5. UNCHANGED <<bench, bars, published, ledger_ledger, ledger_pc, rows, due,
                    ledger_raced, offered>> /\ ran' = FALSE
    BY <1>3 DEF Ledger!midnight, Ledger!job
  <2> QED BY <2>2, <2>3, <2>4, <2>5 DEF LedgerTyped
<1>4. CASE Ledger!prices_sync
  <2>1. ledger_day \in Int
    BY DEF LedgerTyped, Ledger!Day, Ledger!ForecastsAssumption
  <2>2. bench' \in Int /\ bars' \in Int
    BY <1>4, <2>1, LedgerTradingDayFact DEF LedgerTyped, Ledger!prices_sync
  <2>3. UNCHANGED <<ledger_day, published, ledger_ledger, ledger_pc, rows, due, ran, lacking,
                    offered, ledger_raced>>
    BY <1>4 DEF Ledger!prices_sync, Ledger!job, Ledger!history
  <2> QED BY <2>2, <2>3 DEF LedgerTyped
<1>5. ASSUME NEW c \in Claim, Ledger!publish(c) PROVE LedgerTyped'
  <2>1. UNCHANGED <<ledger_day, bench, bars, ledger_ledger, ledger_pc, rows, due, ran, lacking,
                    offered, ledger_raced>>
        /\ published' = [published EXCEPT ![c] = ledger_day]
    BY <1>5 DEF Ledger!publish, Ledger!job, Ledger!history
  <2>2. ledger_day <= ledger_day
    BY DEF LedgerTyped, Ledger!Day, Ledger!ForecastsAssumption
  <2>3. published' \in [Claim -> Ledger!Day \cup {None}]
    BY <2>1 DEF LedgerTyped
  <2>4. \A q \in Claim : published'[q] # None => published'[q] <= ledger_day'
    BY <2>1, <2>2 DEF LedgerTyped
  <2> QED BY <2>1, <2>3, <2>4 DEF LedgerTyped
<1>6. ASSUME NEW j \in Ledger!Job, Ledger!extract(j) PROVE LedgerTyped'
  <2>1. \A left : Ledger!window(j) \ left \in SUBSET Claim
    BY DEF Ledger!window
  <2> HIDE DEF Ledger!window
  <2>2. rows' \in [Ledger!Job -> SUBSET Claim] /\
          ledger_pc' \in [Ledger!Job -> {"idle", "insert", "list", "resolve"}] /\ ran' \in BOOLEAN
    BY <1>6, <2>1 DEF LedgerTyped, Ledger!extract, Ledger!goto
  <2>3. lacking' \in [Claim -> SUBSET Ledger!Day]
    BY <1>6, LedgerLacking DEF LedgerTyped, Ledger!extract
  <2> QED BY <1>6, <2>2, <2>3 DEF LedgerTyped, Ledger!extract
<1>7. ASSUME NEW j \in Ledger!Job, Ledger!insert_forecasts_if_new(j) PROVE LedgerTyped'
  BY <1>7 DEF LedgerTyped, Ledger!Job, Ledger!insert_forecasts_if_new, Ledger!goto, Ledger!job,
     Ledger!history
<1>8. ASSUME NEW j \in Ledger!Job, Ledger!list_due_forecasts(j) PROVE LedgerTyped'
  <2>1. Ledger!sweep \in SUBSET Claim
    BY DEF Ledger!sweep
  <2>2. due' \in [Ledger!Job -> SUBSET Claim] /\
          ledger_pc' \in [Ledger!Job -> {"idle", "insert", "list", "resolve"}] /\
          ledger_raced' \in BOOLEAN
    BY <1>8, <2>1 DEF LedgerTyped, Ledger!list_due_forecasts, Ledger!goto
  <2> QED BY <1>8, <2>2 DEF LedgerTyped, Ledger!list_due_forecasts
<1>9. ASSUME NEW j \in Ledger!Job, NEW c \in Claim, Ledger!resolve_forecast(j, c)
      PROVE LedgerTyped'
  BY <1>9 DEF LedgerTyped, Ledger!Job, Ledger!resolve_forecast, Ledger!job, Ledger!history
<1>10. ASSUME NEW j \in Ledger!Job, Ledger!end(j) PROVE LedgerTyped'
  BY <1>10 DEF LedgerTyped, Ledger!Job, Ledger!end, Ledger!goto, Ledger!job, Ledger!history
<1>11. ASSUME NEW j \in Ledger!Job, Ledger!fail(j) PROVE LedgerTyped'
  <2>1. lacking' \in [Claim -> SUBSET Ledger!Day]
    BY <1>11, LedgerLacking DEF LedgerTyped, Ledger!fail
  <2> QED BY <1>11, <2>1 DEF LedgerTyped, Ledger!Job, Ledger!fail, Ledger!goto
<1> QED BY <1>1, <1>2, <1>3, <1>4, <1>5, <1>6, <1>7, <1>8, <1>9, <1>10, <1>11 DEF Ledger!Next

\* extract takes published claims only, and only those are entered.
LEMMA LedgerExtractedStep ==
  ASSUME Ledger!ForecastsAssumption, LedgerTyped, LedgerExtracted, [Ledger!Next]_(Ledger!vars)
  PROVE  LedgerExtracted'
<1>1. CASE UNCHANGED <<rows, published, ledger_ledger>>
  BY <1>1 DEF LedgerExtracted
<1>2. (UNCHANGED Ledger!vars \/ Ledger!midnight \/ Ledger!prices_sync \/
        (\E j \in Ledger!Job : Ledger!list_due_forecasts(j))) =>
        UNCHANGED <<rows, published, ledger_ledger>>
  BY DEF Ledger!vars, Ledger!job, Ledger!history, Ledger!midnight,
     Ledger!prices_sync, Ledger!list_due_forecasts, Ledger!goto
<1>3. ASSUME NEW c \in Claim, Ledger!publish(c) PROVE LedgerExtracted'
  BY <1>3 DEF LedgerTyped, LedgerExtracted, Ledger!publish, Ledger!job, Ledger!history
<1>4. ASSUME NEW j \in Ledger!Job, Ledger!extract(j) PROVE LedgerExtracted'
  <2>1. \A c \in Ledger!window(j) : published[c] # None
    BY DEF Ledger!window
  <2>2. UNCHANGED <<published, ledger_ledger>> /\
          \A i \in Ledger!Job : rows'[i] \subseteq IF i = j THEN Ledger!window(j) ELSE rows[i]
    BY <1>4 DEF LedgerTyped, Ledger!extract
  <2> QED BY <2>1, <2>2 DEF LedgerExtracted
<1>5. ASSUME NEW j \in Ledger!Job, Ledger!insert_forecasts_if_new(j) PROVE LedgerExtracted'
  BY <1>5 DEF LedgerTyped, LedgerExtracted, Ledger!insert_forecasts_if_new, Ledger!goto,
     Ledger!job, Ledger!history
<1>6. ASSUME NEW j \in Ledger!Job, NEW c \in Claim, Ledger!resolve_forecast(j, c)
      PROVE LedgerExtracted'
  <2>1. UNCHANGED <<published, rows>> /\
          \A q \in Claim : ledger_ledger'[q] = ledger_ledger[q] \/
          ledger_ledger'[q].status # "open"
    BY <1>6 DEF LedgerTyped, Ledger!resolve_forecast, Ledger!outcome
  <2>2. \A q \in Claim : ledger_ledger'[q] = [status |-> "open"] =>
          ledger_ledger[q] = [status |-> "open"]
    BY <2>1
  <2> QED BY <2>1, <2>2 DEF LedgerExtracted
<1>7. ASSUME NEW j \in Ledger!Job, Ledger!end(j) PROVE LedgerExtracted'
  BY <1>7 DEF LedgerTyped, LedgerExtracted, Ledger!end, Ledger!goto, Ledger!job, Ledger!history
<1>8. ASSUME NEW j \in Ledger!Job, Ledger!fail(j) PROVE LedgerExtracted'
  BY <1>8 DEF LedgerTyped, LedgerExtracted, Ledger!fail, Ledger!goto, Ledger!miss, Ledger!job,
     Ledger!history
<1> QED BY <1>1, <1>2, <1>3, <1>4, <1>5, <1>6, <1>7, <1>8 DEF Ledger!Next

\* list_due_forecasts takes open rows, and each is settled once by one sweep.
LEMMA LedgerSweptStep ==
  ASSUME Ledger!ForecastsAssumption, LedgerTyped, LedgerExtracted, LedgerSwept,
    [Ledger!Next]_(Ledger!vars)
  PROVE  LedgerSwept'
<1>1. CASE UNCHANGED <<due, ledger_pc, ledger_raced, published, ledger_ledger>>
  BY <1>1 DEF LedgerSwept
<1>2. (UNCHANGED Ledger!vars \/ Ledger!midnight \/ Ledger!prices_sync) =>
        UNCHANGED <<due, ledger_pc, ledger_raced, published, ledger_ledger>>
  BY DEF Ledger!vars, Ledger!job, Ledger!history, Ledger!midnight, Ledger!miss, Ledger!Weekday,
     Ledger!prices_sync
<1>3. ASSUME NEW c \in Claim, Ledger!publish(c) PROVE LedgerSwept'
  BY <1>3 DEF LedgerTyped, LedgerExtracted, LedgerSwept, Ledger!publish, Ledger!job,
     Ledger!history
<1>4. ASSUME NEW j \in Ledger!Job, Ledger!extract(j) PROVE LedgerSwept'
  BY <1>4 DEF LedgerTyped, LedgerExtracted, LedgerSwept, Ledger!extract, Ledger!goto,
     Ledger!job, Ledger!history
<1>5. ASSUME NEW j \in Ledger!Job, Ledger!insert_forecasts_if_new(j) PROVE LedgerSwept'
  BY <1>5 DEF LedgerTyped, LedgerExtracted, LedgerSwept, Ledger!insert_forecasts_if_new,
     Ledger!goto, Ledger!job, Ledger!history
<1>6. ASSUME NEW j \in Ledger!Job, Ledger!list_due_forecasts(j) PROVE LedgerSwept'
  <2>1. /\ UNCHANGED <<published, ledger_ledger>> /\ ledger_pc[j] = "list" /\
          due' = [due EXCEPT ![j] = Ledger!sweep]
        /\ ledger_pc' = [ledger_pc EXCEPT ![j] = "resolve"]
        /\ ledger_raced' = (ledger_raced \/ \E i \in Ledger!Job \ {j} : ledger_pc[i] = "resolve")
    BY <1>6 DEF Ledger!list_due_forecasts, Ledger!goto
  <2>2. \A c \in Ledger!sweep : ledger_ledger[c] = [status |-> "open"] /\ published[c] # None
    BY DEF Ledger!sweep, LedgerExtracted
  <2>3. \A i \in Ledger!Job : due'[i] = (IF i = j THEN Ledger!sweep ELSE due[i]) /\
          ledger_pc'[i] = (IF i = j THEN "resolve" ELSE ledger_pc[i])
    BY <2>1 DEF LedgerTyped
  <2>4. Ledger!sweep \subseteq Claim
    BY DEF Ledger!sweep
  <2> HIDE DEF Ledger!sweep
  <2>5. ledger_raced' \/ \A i \in Ledger!Job \ {j} : ledger_pc'[i] # "resolve"
    BY <2>1, <2>3 DEF LedgerTyped
  <2>6. ledger_raced' \/ (~ledger_raced /\
          \A i, k \in Ledger!Job : ledger_pc'[i] = "resolve" /\ ledger_pc'[k] = "resolve" =>
          i = k)
    BY <2>1, <2>5 DEF LedgerTyped
  <2> QED BY <2>1, <2>2, <2>3, <2>6 DEF LedgerSwept
<1>7. ASSUME NEW j \in Ledger!Job, NEW c \in Claim, Ledger!resolve_forecast(j, c)
      PROVE LedgerSwept'
  BY <1>7 DEF LedgerTyped, LedgerExtracted, LedgerSwept, Ledger!resolve_forecast, Ledger!job,
     Ledger!history
<1>8. ASSUME NEW j \in Ledger!Job, Ledger!end(j) PROVE LedgerSwept'
  BY <1>8 DEF LedgerTyped, LedgerExtracted, LedgerSwept, Ledger!end, Ledger!goto, Ledger!job,
     Ledger!history
<1>9. ASSUME NEW j \in Ledger!Job, Ledger!fail(j) PROVE LedgerSwept'
  BY <1>9 DEF LedgerTyped, LedgerExtracted, LedgerSwept, Ledger!fail, Ledger!goto, Ledger!miss,
     Ledger!job, Ledger!history
<1> QED BY <1>1, <1>2, <1>3, <1>4, <1>5, <1>6, <1>7, <1>8, <1>9 DEF Ledger!Next

\* Where the nightly run is.
LEMMA LedgerPlaceStep ==
  ASSUME LedgerTyped, LedgerSwept, LedgerPlace, [Ledger!Next]_(Ledger!vars)
  PROVE  LedgerPlace'
<1>1. CASE UNCHANGED <<ledger_pc, ran, ledger_day>>
  BY <1>1 DEF LedgerPlace
<1>2. (UNCHANGED Ledger!vars \/ Ledger!prices_sync \/ (\E c \in Claim : Ledger!publish(c)) \/
        (\E j \in Ledger!Job, c \in Claim : Ledger!resolve_forecast(j, c))) =>
        UNCHANGED <<ledger_pc, ran, ledger_day>>
  BY DEF Ledger!vars, Ledger!job, Ledger!prices_sync, Ledger!publish, Ledger!resolve_forecast
<1>3. CASE Ledger!midnight
  BY <1>3 DEF LedgerPlace, Ledger!midnight, Ledger!job, Ledger!Job
<1>4. ASSUME NEW j \in Ledger!Job, Ledger!extract(j) PROVE LedgerPlace'
  BY <1>4 DEF LedgerTyped, LedgerPlace, Ledger!Job, Ledger!extract, Ledger!goto
<1>5. ASSUME NEW j \in Ledger!Job, NEW to \in {"idle", "list", "resolve"},
        ledger_pc[j] # "idle", Ledger!goto(j, to), UNCHANGED <<ran, ledger_day>>
      PROVE  LedgerPlace'
  BY <1>5 DEF LedgerTyped, LedgerPlace, Ledger!Job, Ledger!goto
<1>6. ASSUME NEW j \in Ledger!Job,
        Ledger!insert_forecasts_if_new(j) \/ Ledger!list_due_forecasts(j) \/ Ledger!end(j) \/
        Ledger!fail(j)
      PROVE  LedgerPlace'
  <2>1. /\ ledger_pc[j] # "idle" /\ UNCHANGED <<ran, ledger_day>>
        /\ \E to \in {"idle", "list", "resolve"} : Ledger!goto(j, to)
    BY <1>6 DEF Ledger!insert_forecasts_if_new, Ledger!list_due_forecasts, Ledger!end, Ledger!fail
  <2> QED BY <1>5, <2>1
<1> QED BY <1>1, <1>2, <1>3, <1>4, <1>6 DEF Ledger!Next

\* The lookback of a nightly run reaches the weekday before, or the one before that.
LEMMA LedgerOfStep ==
  ASSUME Ledger!ForecastsAssumption, LedgerTyped, LedgerSwept, LedgerPlace,
    [Ledger!Next]_(Ledger!vars), NEW c \in Claim, LedgerOf(c)
  PROVE  LedgerOf(c)'
<1>1. CASE UNCHANGED <<ledger_pc, ran, ledger_day, rows, published, lacking, ledger_ledger,
                       offered>>
  BY <1>1 DEF LedgerOf, LedgerEntered, Ledger!entered, LedgerMidweek
<1>2. (UNCHANGED Ledger!vars \/ Ledger!prices_sync) =>
        UNCHANGED <<ledger_pc, ran, ledger_day, rows, published, lacking, ledger_ledger, offered>>
  BY DEF Ledger!vars, Ledger!job, Ledger!history, Ledger!prices_sync
<1>3. CASE Ledger!midnight
  <2>1. /\ UNCHANGED <<published, ledger_ledger, rows, ledger_pc, offered>> /\
          ledger_day' = ledger_day + 1 /\ ran' = FALSE
        /\ ledger_pc["nightly"] = "idle"
    BY <1>3 DEF Ledger!midnight, Ledger!job, Ledger!Job
  <2>2. /\ LedgerMidweek(c)' => LedgerMidweek(c)
        /\ lacking[c] \subseteq lacking'[c]
        /\ Ledger!Weekday(ledger_day) /\ ~ran => ledger_day \in lacking'[c]
    <3>1. CASE Ledger!Weekday(ledger_day) /\ ~ran
      BY <1>3, <3>1, LedgerMissed DEF Ledger!midnight
    <3>2. CASE ~(Ledger!Weekday(ledger_day) /\ ~ran)
      BY <1>3, <3>2 DEF Ledger!midnight, LedgerMidweek
    <3> QED BY <3>1, <3>2
  <2>3. \A w : LedgerEntered(c, w)' = LedgerEntered(c, w)
    BY <2>1 DEF LedgerEntered, Ledger!entered
  <2>4. \A w \in FirstDay .. ledger_day' - 1 : w \in FirstDay .. ledger_day - 1 \/ w = ledger_day
    BY <2>1 DEF LedgerTyped, Ledger!Day, Ledger!ForecastsAssumption
  <2>5. ASSUME LedgerMidweek(c)', NEW w \in FirstDay .. ledger_day' - 1, Ledger!Weekday(w),
          w \notin lacking'[c]
        PROVE  LedgerEntered(c, w)'
    <3>1. CASE w \in FirstDay .. ledger_day - 1
      BY <2>2, <2>3, <2>5, <3>1 DEF LedgerOf
    <3>2. CASE w = ledger_day
      BY <2>1, <2>2, <2>3, <2>5, <3>2 DEF LedgerOf
    <3> QED BY <2>4, <2>5, <3>1, <3>2
  <2>6. LedgerMidweek(c)' => (c \in offered => c \in Ledger!entered)'
    BY <2>1, <2>2 DEF LedgerOf, Ledger!entered
  <2>7. ledger_pc' = ledger_pc
    BY <2>1
  <2> QED BY <2>1, <2>5, <2>6, <2>7 DEF LedgerOf
<1>4. ASSUME NEW q \in Claim, Ledger!publish(q) PROVE LedgerOf(c)'
  <2>1. /\ UNCHANGED <<ledger_day, ledger_ledger, rows, ledger_pc, ran, lacking, offered>>
        /\ published' = [published EXCEPT ![q] = ledger_day]
    BY <1>4 DEF Ledger!publish, Ledger!job, Ledger!history
  <2>2. published'[c] = published[c] \/ published'[c] = ledger_day
    BY <2>1 DEF LedgerTyped
  <2>3. \A w \in FirstDay .. ledger_day : LedgerEntered(c, w) => LedgerEntered(c, w)'
    BY <2>1, <2>2 DEF LedgerEntered, Ledger!entered, LedgerTyped, Ledger!Day,
       Ledger!ForecastsAssumption
  <2>4. ledger_day \in FirstDay .. ledger_day /\
          \A w \in FirstDay .. ledger_day - 1 : w \in FirstDay .. ledger_day
    BY DEF LedgerTyped, Ledger!Day, Ledger!ForecastsAssumption
  <2>5. LedgerMidweek(c)' = LedgerMidweek(c) /\ Ledger!entered' = Ledger!entered /\
          ~(ledger_day < ledger_day)
    BY <2>1 DEF LedgerMidweek, Ledger!entered, LedgerTyped, Ledger!Day, Ledger!ForecastsAssumption
  <2>6. ledger_pc["nightly"] = "insert" /\ published'[c] # None /\ published'[c] < ledger_day /\
          published'[c] >= ledger_day - Lookback
                => c \in rows["nightly"] \/ ledger_day \in lacking[c]
    BY <2>2, <2>5 DEF LedgerOf
  <2>7. LedgerMidweek(c) => \A w \in FirstDay .. ledger_day - 1 : Ledger!Weekday(w) /\
          w \notin lacking[c] => LedgerEntered(c, w)'
    BY <2>3, <2>4 DEF LedgerOf
  <2>8. ledger_day' = ledger_day
    BY <2>1
  <2>9. LedgerMidweek(c) => (ran /\ ledger_pc["nightly"] # "insert" /\
          ledger_day \notin lacking[c] => LedgerEntered(c, ledger_day)')
    <3>1. \A w : w = ledger_day => (LedgerEntered(c, w) => LedgerEntered(c, w)')
      BY <2>3, <2>4
    <3>2. LedgerEntered(c, ledger_day) => LedgerEntered(c, ledger_day)'
      BY <3>1, <2>8 DEF LedgerEntered, Ledger!entered
    <3> QED BY <3>2 DEF LedgerOf
  <2>10. c \in Ledger!entered' <=> c \in Ledger!entered
    BY <2>5
  <2> QED BY <2>1, <2>5, <2>6, <2>7, <2>9, <2>10 DEF LedgerOf
<1>5. ASSUME NEW j \in Ledger!Job, Ledger!extract(j) PROVE LedgerOf(c)'
  <2>1. /\ UNCHANGED <<ledger_day, ledger_ledger, published, offered>>
        /\ ledger_pc' = [ledger_pc EXCEPT ![j] = "insert"]
        /\ ran' = (ran \/ j = "nightly")
    BY <1>5 DEF Ledger!extract, Ledger!goto
  <2>2. CASE j = "backfill"
    <3>1. ledger_pc'["nightly"] = ledger_pc["nightly"] /\ (ran' <=> ran) /\ lacking' = lacking
      BY <1>5, <2>1, <2>2 DEF LedgerTyped, Ledger!Job, Ledger!extract
    <3>2. rows'["nightly"] = rows["nightly"]
      BY <1>5, <2>2 DEF LedgerTyped, Ledger!Job, Ledger!extract
    <3> QED BY <2>1, <3>1, <3>2 DEF LedgerOf, LedgerMidweek, LedgerEntered, Ledger!entered
  <2>3. CASE j = "nightly"
    <3>1. PICK left \in SUBSET Prose : rows' = [rows EXCEPT !["nightly"] =
            Ledger!window("nightly") \ left] /\ Ledger!miss(Ledger!window("nightly") \cap left)
      BY <1>5, <2>3 DEF Ledger!extract
    <3>2. published[c] # None /\ published[c] >= ledger_day - Lookback =>
            c \in Ledger!window("nightly")
      BY DEF Ledger!window
    <3>3. ledger_pc'["nightly"] = "insert" /\ rows'["nightly"] = Ledger!window("nightly") \ left
      BY <2>1, <2>3, <3>1 DEF LedgerTyped, Ledger!Job
    <3> HIDE DEF Ledger!window
    <3>4. /\ LedgerMidweek(c)' => LedgerMidweek(c)
          /\ lacking[c] \subseteq lacking'[c]
          /\ c \in Ledger!window("nightly") \cap left => ledger_day \in lacking'[c]
      BY <3>1, LedgerMissed
    <3>5. \A w : LedgerEntered(c, w)' = LedgerEntered(c, w)
      BY <2>1 DEF LedgerEntered, Ledger!entered
    <3>6. Ledger!entered' = Ledger!entered
      BY <2>1 DEF Ledger!entered
    <3> QED BY <2>1, <3>2, <3>3, <3>4, <3>5, <3>6 DEF LedgerOf
  <2> QED BY <2>2, <2>3 DEF Ledger!Job
<1>6. ASSUME NEW j \in Ledger!Job, Ledger!insert_forecasts_if_new(j) PROVE LedgerOf(c)'
  <2>1. /\ UNCHANGED <<ledger_day, published, rows, ran, lacking>> /\ ledger_pc[j] = "insert" /\
          ledger_pc' = [ledger_pc EXCEPT ![j] = "list"]
        /\ c \in offered' <=> \/ c \in offered
             \/ /\ j = "nightly" /\ published[c] \in FirstDay .. ledger_day - 1
                /\ ledger_day \notin lacking[c]
    BY <1>6 DEF Ledger!insert_forecasts_if_new, Ledger!goto
  <2>2. c \in Ledger!entered' <=> c \in Ledger!entered \/ c \in rows[j]
    <3>1. [status |-> "open"] # None
      BY DEF Ledger!ForecastsAssumption
    <3> QED BY <1>6, <3>1 DEF Ledger!insert_forecasts_if_new, Ledger!entered
  <2>3. \A w : LedgerEntered(c, w) => LedgerEntered(c, w)'
    BY <2>1, <2>2 DEF LedgerEntered
  <2>4. LedgerMidweek(c)' = LedgerMidweek(c)
    BY <2>1 DEF LedgerMidweek
  <2>5. CASE j = "backfill"
    <3>1. ledger_pc'["nightly"] = ledger_pc["nightly"] /\ (c \in offered' <=> c \in offered)
      BY <2>1, <2>5 DEF LedgerTyped, Ledger!Job
    <3> QED BY <2>1, <2>2, <2>3, <2>4, <3>1 DEF LedgerOf
  <2>6. CASE j = "nightly"
    <3>1. ledger_pc'["nightly"] = "list" /\ ran /\ Ledger!Weekday(ledger_day)
      BY <2>1, <2>6 DEF LedgerTyped, Ledger!Job, LedgerPlace
    <3>2. ASSUME LedgerMidweek(c), ledger_day \notin lacking[c], c \notin Ledger!entered',
                 published[c] # None
          PROVE  published[c] >= ledger_day
      <4>1. c \notin Ledger!entered /\ c \notin rows["nightly"]
        BY <2>2, <2>6, <3>2
      <4>2. published[c] \in Nat /\ ledger_day \in Nat /\ FirstDay \in Nat /\
              published[c] >= FirstDay /\ ledger_day <= LedgerDays
            /\ ledger_day >= FirstDay
        BY <3>2 DEF LedgerTyped, Ledger!Day, Ledger!ForecastsAssumption
      <4>3. published[c] < ledger_day => published[c] < ledger_day - Lookback
        BY <2>1, <2>6, <3>2, <4>1, <4>2 DEF LedgerOf, Ledger!ForecastsAssumption
      <4>4. \A w \in FirstDay .. ledger_day - 1 : Ledger!Weekday(w) /\ w \notin lacking[c] =>
              published[c] >= w
        BY <3>2, <4>1 DEF LedgerOf, LedgerEntered
      <4>5. published[c] < ledger_day =>
              \E w \in {ledger_day - 1, ledger_day - 2, ledger_day - 3} : Ledger!Weekday(w) /\
              w \notin lacking[c]
        BY <3>1, <3>2, <4>2, LedgerNightBefore
      <4>6. Lookback \in Nat /\ Lookback >= 3
        BY DEF Ledger!ForecastsAssumption
      <4>7. ASSUME published[c] < ledger_day PROVE FALSE
        <5>1. PICK w \in {ledger_day - 1, ledger_day - 2,
                ledger_day - 3} : Ledger!Weekday(w) /\ w \notin lacking[c]
          BY <4>5, <4>7
        <5>2. published[c] < w
          BY <4>2, <4>3, <4>6, <4>7
        <5>3. w \in FirstDay .. ledger_day - 1
          BY <4>2, <5>2
        <5> QED BY <4>2, <4>4, <5>1, <5>2, <5>3
      <4> QED BY <4>2, <4>7
    <3>3. LedgerMidweek(c) /\ ledger_day \notin lacking[c] => LedgerEntered(c, ledger_day)'
      BY <2>1, <3>2 DEF LedgerEntered
    <3>4. ASSUME LedgerMidweek(c), c \in offered' PROVE c \in Ledger!entered'
      <4>1. CASE c \in offered
        BY <2>2, <3>4, <4>1 DEF LedgerOf
      <4>2. CASE published[c] \in FirstDay .. ledger_day - 1 /\ ledger_day \notin lacking[c]
        <5>1. published[c] # None /\ ~(published[c] >= ledger_day)
          BY <4>2 DEF Ledger!ForecastsAssumption, LedgerTyped, Ledger!Day
        <5> QED BY <3>2, <3>4, <4>2, <5>1
      <4> QED BY <2>1, <3>4, <4>1, <4>2
    <3> QED BY <2>1, <2>3, <2>4, <3>1, <3>3, <3>4 DEF LedgerOf
  <2> QED BY <2>5, <2>6 DEF Ledger!Job
<1>7. ASSUME NEW j \in Ledger!Job, Ledger!list_due_forecasts(j) PROVE LedgerOf(c)'
  <2>1. /\ UNCHANGED <<ledger_day, ledger_ledger, published, rows, ran, lacking, offered>>
        /\ ledger_pc'["nightly"] = "insert" <=> ledger_pc["nightly"] = "insert"
    BY <1>7 DEF LedgerTyped, Ledger!list_due_forecasts, Ledger!goto
  <2> QED BY <2>1 DEF LedgerOf, LedgerEntered, Ledger!entered, LedgerMidweek
<1>8. ASSUME NEW j \in Ledger!Job, NEW q \in Claim, Ledger!resolve_forecast(j, q)
      PROVE LedgerOf(c)'
  <2>1. UNCHANGED <<ledger_day, published, rows, ledger_pc, ran, lacking, offered>>
    BY <1>8 DEF Ledger!resolve_forecast, Ledger!history
  <2>2. ledger_ledger[c] # None => ledger_ledger'[c] # None
    <3>1. [status |-> "expired"] # None
      BY DEF Ledger!ForecastsAssumption
    <3>2. ASSUME q \notin unscored, Ledger!measurable(q) PROVE Ledger!outcome(q) # None
      <4>1. published[q] \in Int /\ Horizon \in Int /\ ledger_day \in Int /\ bars \in Int
        BY <1>8 DEF LedgerTyped, Ledger!Day, Ledger!ForecastsAssumption,
           Ledger!resolve_forecast, LedgerSwept
      <4>2. Ledger!TradingDay(published[q] - 1) \in Int /\
              Ledger!TradingDay(published[q] + Horizon) \in Int
        BY <4>1, LedgerTradingDayFact
      <4>3. Ledger!outcome(q) \in [status : {"resolved"}, entry : Int, exit : Int, on : Int]
        BY <4>1, <4>2 DEF Ledger!outcome, Ledger!earlier
      <4> QED BY <4>3 DEF Ledger!ForecastsAssumption
    <3> QED BY <1>8, <3>1, <3>2 DEF LedgerTyped, Ledger!resolve_forecast
  <2>3. c \in Ledger!entered => c \in Ledger!entered'
    BY <2>2 DEF Ledger!entered
  <2>4. \A w : LedgerEntered(c, w) => LedgerEntered(c, w)'
    BY <2>1, <2>3 DEF LedgerEntered
  <2>5. LedgerMidweek(c)' = LedgerMidweek(c)
    BY <2>1 DEF LedgerMidweek
  <2> QED BY <2>1, <2>3, <2>4, <2>5 DEF LedgerOf
<1>9. ASSUME NEW j \in Ledger!Job, Ledger!end(j) PROVE LedgerOf(c)'
  <2>1. /\ UNCHANGED <<ledger_day, ledger_ledger, published, ran, lacking, offered>>
        /\ ledger_pc'["nightly"] = "insert" <=> ledger_pc["nightly"] = "insert"
        /\ ledger_pc["nightly"] = "insert" => rows'["nightly"] = rows["nightly"]
    BY <1>9 DEF LedgerTyped, Ledger!end, Ledger!goto, Ledger!history
  <2> QED BY <2>1 DEF LedgerOf, LedgerEntered, Ledger!entered, LedgerMidweek
<1>10. ASSUME NEW j \in Ledger!Job, Ledger!fail(j) PROVE LedgerOf(c)'
  <2>1. /\ UNCHANGED <<ledger_day, published, ledger_ledger, ran, offered>> /\
          ledger_pc' = [ledger_pc EXCEPT ![j] = "idle"]
        /\ rows' = [rows EXCEPT ![j] = {}] /\ ledger_pc[j] # "idle"
    BY <1>10 DEF Ledger!fail, Ledger!goto, Ledger!job
  <2>2. /\ LedgerMidweek(c)' => LedgerMidweek(c)
        /\ lacking[c] \subseteq lacking'[c]
        /\ j = "nightly" /\ ledger_pc[j] = "insert" => ledger_day \in lacking'[c]
    <3>1. CASE j = "nightly" /\ ledger_pc[j] = "insert"
      BY <1>10, <3>1, LedgerMissed DEF Ledger!fail
    <3>2. CASE ~(j = "nightly" /\ ledger_pc[j] = "insert")
      BY <1>10, <3>2 DEF Ledger!fail, LedgerMidweek
    <3> QED BY <3>1, <3>2
  <2>3. Ledger!entered' = Ledger!entered
    BY <2>1 DEF Ledger!entered
  <2>4. \A w : LedgerEntered(c, w)' = LedgerEntered(c, w)
    BY <2>1, <2>3 DEF LedgerEntered
  <2>5. CASE j = "backfill"
    <3>1. ledger_pc'["nightly"] = ledger_pc["nightly"] /\ rows'["nightly"] = rows["nightly"]
      BY <2>1, <2>5 DEF LedgerTyped, Ledger!Job
    <3>2. lacking' = lacking
      BY <1>10, <2>5 DEF Ledger!fail
    <3> QED BY <2>1, <2>2, <2>3, <2>4, <3>1, <3>2 DEF LedgerOf
  <2>6. CASE j = "nightly"
    <3>1. ledger_pc'["nightly"] = "idle" /\ (ledger_pc["nightly"] = "insert" =>
            ledger_day \in lacking'[c])
      BY <2>1, <2>2, <2>6 DEF LedgerTyped, Ledger!Job
    <3> QED BY <2>1, <2>2, <2>3, <2>4, <3>1 DEF LedgerOf
  <2> QED BY <2>5, <2>6 DEF Ledger!Job
<1> QED BY <1>1, <1>2, <1>3, <1>4, <1>5, <1>6, <1>7, <1>8, <1>9, <1>10 DEF Ledger!Next

\* LedgerInv holds in every reachable state.
LEMMA LedgerInductive ==
  ASSUME Ledger!ForecastsAssumption PROVE Ledger!Spec => []LedgerInv
<1>1. Ledger!Init => LedgerInv
  <2> SUFFICES ASSUME Ledger!Init PROVE LedgerInv
    OBVIOUS
  <2>1. ledger_day \in Ledger!Day /\ ledger_day = FirstDay /\ FirstDay \in Int
    BY DEF Ledger!Init, Ledger!Day, Ledger!ForecastsAssumption
  <2>2. bench \in Int /\ bars \in Int
    <3>1. ledger_day - 1 \in Int
      BY <2>1
    <3> QED BY <3>1, LedgerTradingDayFact DEF Ledger!Init
  <2>3. \A c \in Claim : published[c] = None /\ ledger_ledger[c] = None
    BY DEF Ledger!Init
  <2>4. LedgerTyped
    BY <2>1, <2>2, <2>3 DEF Ledger!Init, LedgerTyped
  <2>5. LedgerExtracted /\ LedgerSwept
    <3>1. None # [status |-> "open"]
      BY DEF Ledger!ForecastsAssumption
    <3> QED BY <2>3, <3>1 DEF Ledger!Init, LedgerExtracted, LedgerSwept
  <2>6. LedgerNightly
    <3>1. \A c \in Claim : \A w : LedgerEntered(c, w)
      BY <2>3 DEF LedgerEntered
    <3>2. ledger_pc["nightly"] = "idle" /\ offered = {}
      BY DEF Ledger!Init, Ledger!Job
    <3> QED BY <3>1, <3>2 DEF LedgerNightly, LedgerPlace, LedgerOf
  <2> QED BY <2>4, <2>5, <2>6 DEF LedgerInv
<1>2. LedgerInv /\ [Ledger!Next]_(Ledger!vars) => LedgerInv'
  BY LedgerTypedStep, LedgerExtractedStep, LedgerSweptStep, LedgerPlaceStep, LedgerOfStep
     DEF LedgerInv, LedgerNightly
<1> QED BY <1>1, <1>2, PTL DEF Ledger!Spec

\* A set of at most one element.
LEMMA SmallSet ==
  ASSUME NEW S, IsFiniteSet(S), Cardinality(S) <= 1
  PROVE  S = {} \/ \E d : S = {d}
<1>1. Cardinality(S) \in Nat
  BY FS_CardinalityType
<1>2. CASE Cardinality(S) = 0
  BY <1>2, FS_EmptySet
<1>3. CASE Cardinality(S) = 1
  BY <1>3, FS_Singleton
<1>4. \A n \in Nat : n <= 1 => n = 0 \/ n = 1
  OBVIOUS
<1>5. Cardinality(S) = 0 \/ Cardinality(S) = 1
  <2> HIDE DEF Cardinality
  <2> QED BY <1>1, <1>4
<1> QED BY <1>2, <1>3, <1>5

\* A missed night heals on the next run (run_forecast_ledger).
THEOREM NightsHeal ==
  ASSUME Ledger!ForecastsAssumption
  PROVE  Ledger!Spec => []Ledger!MidweekHeals
<1>1. LedgerInv => Ledger!MidweekHeals
  <2> SUFFICES ASSUME LedgerInv, NEW c \in offered, Cardinality(lacking[c]) <= 1,
                      \A d \in lacking[c] : d % 7 \in 1 .. 3
               PROVE  c \in Ledger!entered
    <3>1. \A S : Ledger!Cardinality(S) = Cardinality(S)
      BY DEF Ledger!Cardinality, Cardinality
    <3> QED BY <3>1 DEF Ledger!MidweekHeals
  <2>1. c \in Claim /\ lacking[c] \subseteq Ledger!Day
    BY DEF LedgerInv, LedgerTyped
  <2>2. IsFiniteSet(lacking[c])
    <3>1. FirstDay \in Int /\ LedgerDays \in Int
      BY DEF Ledger!ForecastsAssumption
    <3>2. IsFiniteSet(Ledger!Day)
      BY <3>1, FS_Interval DEF Ledger!Day
    <3> QED BY <2>1, <3>2, FS_Subset
  <2>3. lacking[c] = {} \/ \E d : lacking[c] = {d}
    BY <2>2, SmallSet
  <2>4. LedgerMidweek(c)
    BY <2>1, <2>3 DEF LedgerMidweek
  <2> QED BY <2>1, <2>4 DEF LedgerInv, LedgerNightly, LedgerOf
<1> QED BY <1>1, LedgerInductive, PTL

\* A claim is settled without hindsight, not early and not twice (resolve_forecast).
THEOREM HindsightNever ==
  ASSUME Ledger!ForecastsAssumption
  PROVE  Ledger!Spec => Ledger!NoHindsight
<1> DEFINE Good(c) == /\ ledger_ledger'[c].entry < published[c] /\
                         ledger_ledger'[c].exit <= published[c] + Horizon
                      /\ bench >= published[c] + Horizon
                      /\ ledger_raced \/ ledger_ledger[c] = [status |-> "open"]
<1>1. ASSUME LedgerInv, Ledger!Next, NEW c \in Claim, ledger_ledger[c] # ledger_ledger'[c],
        ledger_ledger'[c].status = "resolved"
      PROVE  Good(c)
  <2>1. ASSUME ledger_ledger' = ledger_ledger PROVE FALSE
    BY <1>1, <2>1
  <2>2. ASSUME NEW j \in Ledger!Job, Ledger!insert_forecasts_if_new(j) PROVE FALSE
    <3>1. ledger_ledger'[c] = [status |-> "open"]
      BY <1>1, <2>2 DEF Ledger!insert_forecasts_if_new
    <3> QED BY <1>1, <3>1
  <2>3. ASSUME NEW j \in Ledger!Job, NEW q \in Claim, Ledger!resolve_forecast(j, q) PROVE Good(c)
    <3>1. DOMAIN ledger_ledger = Claim
      BY <1>1 DEF LedgerInv, LedgerTyped
    <3>2. q = c /\ ledger_pc[j] = "resolve" /\ c \in due[j]
      BY <1>1, <2>3, <3>1 DEF Ledger!resolve_forecast
    <3>3. c \notin unscored
      <4>1. CASE c \in unscored
        <5>1. ledger_ledger'[c] = [status |-> "expired"]
          BY <2>3, <3>1, <3>2, <4>1 DEF Ledger!resolve_forecast
        <5> QED BY <1>1, <5>1
      <4> QED BY <4>1
    <3>4. Ledger!measurable(c) /\ ledger_ledger'[c] = Ledger!outcome(c)
      BY <1>1, <2>3, <3>1, <3>2, <3>3 DEF Ledger!resolve_forecast
    <3>5. published[c] \in Int /\ Horizon \in Int /\ bars \in Int
      <4>1. published[c] # None /\ published[c] \in Ledger!Day \cup {None}
        BY <1>1, <3>2 DEF LedgerInv, LedgerTyped, LedgerSwept
      <4> QED BY <1>1, <4>1 DEF LedgerInv, LedgerTyped, Ledger!Day, Ledger!ForecastsAssumption
    <3>6. /\ Ledger!TradingDay(published[c] - 1) \in Int /\
            Ledger!TradingDay(published[c] - 1) <= published[c] - 1
          /\ Ledger!TradingDay(published[c] + Horizon) \in Int
          /\ Ledger!TradingDay(published[c] + Horizon) <= published[c] + Horizon
      BY <3>5, LedgerTradingDayFact
    <3>7. /\ ledger_ledger'[c].entry = Ledger!earlier(bars, Ledger!TradingDay(published[c] - 1))
          /\ ledger_ledger'[c].exit = Ledger!earlier(bars,
             Ledger!TradingDay(published[c] + Horizon))
      BY <3>4 DEF Ledger!outcome
    <3>8. ledger_ledger'[c].entry < published[c] /\
            ledger_ledger'[c].exit <= published[c] + Horizon
      BY <3>5, <3>6, <3>7 DEF Ledger!earlier
    <3>9. ledger_raced \/ ledger_ledger[c] = [status |-> "open"]
      BY <1>1, <3>2 DEF LedgerInv, LedgerSwept
    <3> QED BY <3>4, <3>8, <3>9 DEF Ledger!measurable
  <2>4. (Ledger!midnight \/ Ledger!prices_sync \/ (\E q \in Claim : Ledger!publish(q))
           \/ (\E j \in Ledger!Job : Ledger!extract(j) \/ Ledger!list_due_forecasts(j) \/
              Ledger!end(j) \/ Ledger!fail(j))) => ledger_ledger' = ledger_ledger
    BY DEF Ledger!midnight, Ledger!prices_sync, Ledger!publish, Ledger!extract,
       Ledger!list_due_forecasts, Ledger!end, Ledger!fail
  <2> QED BY <1>1, <2>1, <2>2, <2>3, <2>4 DEF Ledger!Next
<1>2. LedgerInv /\ [Ledger!Next]_(Ledger!vars) =>
        [\A c \in Claim : ledger_ledger[c] # ledger_ledger'[c] /\
          ledger_ledger'[c].status = "resolved" => Good(c)]_(Ledger!vars)
  <2>1. LedgerInv /\ Ledger!Next =>
          \A c \in Claim : ledger_ledger[c] # ledger_ledger'[c] /\
          ledger_ledger'[c].status = "resolved" => Good(c)
    BY <1>1
  <2> QED BY <2>1
<1> QED BY <1>2, LedgerInductive, PTL DEF Ledger!Spec, Ledger!NoHindsight

-----------------------------------------------------------------------------
(***************************************************************************)
(* JobHealth: what /health says of a job                                   *)
(***************************************************************************)

\* The type invariant; nothing succeeded in the future.
HealthTyped ==
    /\ health_now \in Nat /\ health_now <= HealthTicks /\ handled \in Nat /\
       field \in Field \cup {None}
    /\ health_pc \in {"idle", "running", "ok", "failed"} /\ blind \in BOOLEAN
    /\ last_success \in Nat \cup {None} /\ failures \in Nat
    /\ succeeded \in Nat \cup {None} /\ failed_runs \in Nat
    /\ succeeded # None => succeeded <= health_now

\* The row tells the last success and the failures since, but for the result that is about
\* to be written, and those that could not be.
HealthRecorded ==
    /\ last_success # None => succeeded # None /\ last_success <= succeeded
    /\ health_pc = "ok" => succeeded = health_now /\ failed_runs = 0
    /\ \/ blind \/ health_pc = "ok"
       \/ last_success = succeeded /\ failed_runs = failures + (IF health_pc = "failed" THEN 1 ELSE 0)

\* What is inductive about a job and its heartbeat.
HealthInv == HealthTyped /\ HealthRecorded

\* A set of natural numbers has a least one.
LEMMA LeastNumber ==
  ASSUME NEW S \in SUBSET Nat, S # {} PROVE \E x \in S : \A y \in S : x <= y
<1> DEFINE Rel == {ss \in Nat \X Nat : ss[1] < ss[2]}
<1>1. IsWellFoundedOn(Rel, Nat)
  BY NatLessThanWellFounded DEF OpToRel
<1>2. \A x, y \in S : <<y, x>> \in Rel <=> y < x
  OBVIOUS
<1> HIDE DEF Rel
<1>3. \E x \in S : \A y \in S : ~ (<<y, x>> \in Rel)
  BY <1>1, WFMin
<1>4. \E x \in S : \A y \in S : ~ (y < x)
  BY <1>2, <1>3
<1> QED BY <1>4

\* translate_crontab_dow keeps the days that cron means.
LEMMA HealthSameDays ==
  ASSUME Health!JobAssumption, field \in Field, NEW t \in Nat, t > 0
  PROVE  Health!is_fire(t) <=> Health!is_cron_fire(t)
<1>1. field # None
  BY DEF Health!JobAssumption
<1>2. \A d \in Health!numbers(field) : d \in Nat
  <2>1. \A k \in field : k.lo \in Nat /\ k.hi \in Nat
    BY DEF Health!JobAssumption
  <2>2. \A k \in field : \A d \in k.lo .. k.hi : d \in Nat
    BY <2>1
  <2> QED BY <2>2 DEF Health!numbers
<1>3. t \div TicksPerDay \in Nat
  <2>1. \A a \in Nat, b \in Nat \ {0} : a \div b \in Nat
    OBVIOUS
  <2> QED BY <2>1 DEF Health!JobAssumption
<1>4. \A q, d \in Nat : ((q % 7) + 6) % 7 = ((d % 7) - 1) % 7 <=> d % 7 = q % 7
  OBVIOUS
<1>5. \A d \in Health!numbers(field) : Health!aps_weekday(t) = ((d % 7) - 1) % 7 <=> d % 7 = Health!weekday(t)
  BY <1>2, <1>3, <1>4 DEF Health!aps_weekday, Health!weekday
<1>6. Health!aps_weekday(t) \in Health!translate_crontab_dow(field)
        <=> \E d \in Health!numbers(field) : Health!aps_weekday(t) = ((d % 7) - 1) % 7
  BY DEF Health!translate_crontab_dow
<1> QED BY <1>1, <1>5, <1>6 DEF Health!is_fire, Health!is_cron_fire

\* next_fire finds a fire when there is one, and none later than it.
LEMMA HealthNextFire ==
  ASSUME Health!JobAssumption, NEW a \in Nat, NEW t \in a .. HealthTicks, Health!is_fire(t)
  PROVE  Health!next_fire(a) \in a .. HealthTicks /\ Health!is_fire(Health!next_fire(a)) /\
    Health!next_fire(a) <= t
<1> DEFINE later == {f \in a .. HealthTicks : Health!is_fire(f)}
<1>1. later \in SUBSET Nat /\ t \in later
  BY DEF Health!JobAssumption
<1>2. Health!next_fire(a) = IF later = {} THEN None ELSE CHOOSE f \in later : \A g \in later : f <= g
  BY DEF Health!next_fire
<1>3. \A f \in later : f \in a .. HealthTicks /\ Health!is_fire(f)
  OBVIOUS
<1> HIDE DEF later
<1>4. Health!next_fire(a) \in later /\ \A g \in later : Health!next_fire(a) <= g
  BY <1>1, <1>2, LeastNumber
<1> QED BY <1>1, <1>3, <1>4

\* What next_fire finds is a fire.
LEMMA HealthFireFound ==
  ASSUME Health!JobAssumption, NEW a \in Nat, Health!next_fire(a) # None
  PROVE  Health!next_fire(a) \in a .. HealthTicks /\ Health!is_fire(Health!next_fire(a))
<1>1. \E t \in a .. HealthTicks : Health!is_fire(t)
  BY DEF Health!next_fire
<1> QED BY <1>1, HealthNextFire

\* Every step keeps the types.
LEMMA HealthTypedStep ==
  ASSUME Health!JobAssumption, HealthTyped, [Health!Next]_(Health!vars)
  PROVE  HealthTyped'
<1>1. CASE UNCHANGED Health!vars
  BY <1>1 DEF HealthTyped, Health!vars, Health!row, Health!history
<1>2. CASE Health!tick
  BY <1>2 DEF HealthTyped, Health!tick, Health!row, Health!history, Health!JobAssumption
<1>3. CASE Health!start
  BY <1>3 DEF HealthTyped, Health!start, Health!row, Health!history
<1>4. CASE Health!skip
  BY <1>4 DEF HealthTyped, Health!skip, Health!row, Health!history
<1>5. CASE Health!job
  BY <1>5 DEF HealthTyped, Health!job, Health!row
<1>6. CASE Health!record_job_result
  <2>1. CASE health_pc = "ok"
    <3>1. blind' \in BOOLEAN
      BY <1>6, <2>1 DEF Health!record_job_result
    <3> QED BY <1>6, <2>1, <3>1 DEF HealthTyped, Health!record_job_result
  <2>2. CASE health_pc # "ok"
    BY <1>6, <2>2 DEF HealthTyped, Health!record_job_result
  <2> QED BY <2>1, <2>2
<1>7. CASE Health!result_lost
  BY <1>7 DEF HealthTyped, Health!result_lost, Health!row
<1> QED BY <1>1, <1>2, <1>3, <1>4, <1>5, <1>6, <1>7 DEF Health!Next

\* record_job_result writes the result of the run, and what is lost leaves the row blind.
LEMMA HealthRecordedStep ==
  ASSUME Health!JobAssumption, HealthTyped, HealthRecorded, [Health!Next]_(Health!vars)
  PROVE  HealthRecorded'
<1>1. CASE UNCHANGED Health!vars
  BY <1>1 DEF HealthRecorded, Health!vars, Health!row, Health!history
<1>2. CASE Health!tick
  BY <1>2 DEF HealthTyped, HealthRecorded, Health!tick, Health!row, Health!history
<1>3. CASE Health!start
  BY <1>3 DEF HealthTyped, HealthRecorded, Health!start, Health!row, Health!history
<1>4. CASE Health!skip
  BY <1>4 DEF HealthTyped, HealthRecorded, Health!skip, Health!row, Health!history
<1>5. CASE Health!job
  BY <1>5 DEF HealthTyped, HealthRecorded, Health!job, Health!row, Health!JobAssumption
<1>6. CASE Health!record_job_result
  BY <1>6 DEF HealthTyped, HealthRecorded, Health!record_job_result, Health!JobAssumption
<1>7. CASE Health!result_lost
  BY <1>7 DEF HealthTyped, HealthRecorded, Health!result_lost, Health!row
<1> QED BY <1>1, <1>2, <1>3, <1>4, <1>5, <1>6, <1>7 DEF Health!Next

\* HealthInv holds in every reachable state.
LEMMA HealthInductive ==
  ASSUME Health!JobAssumption PROVE Health!Spec => []HealthInv
<1>1. Health!Init => HealthInv
  <2>1. HealthTicks \in Nat
    BY DEF Health!JobAssumption
  <2>2. Health!Init => HealthTyped
    <3>1. Health!Init => blind \in BOOLEAN /\ field \in Field \cup {None}
      BY DEF Health!Init
    <3> QED BY <2>1, <3>1 DEF Health!Init, HealthTyped
  <2>3. Health!Init => HealthRecorded
    BY DEF Health!Init, HealthRecorded
  <2> QED BY <2>2, <2>3 DEF HealthInv
<1>2. HealthInv /\ [Health!Next]_(Health!vars) => HealthInv'
  BY HealthTypedStep, HealthRecordedStep DEF HealthInv
<1> QED BY <1>1, <1>2, PTL DEF Health!Spec

\* cron_state and interval_state say live of no job that let a fire go by.
LEMMA HealthLive ==
  ASSUME Health!JobAssumption, HealthInv PROVE Health!LiveIsTrue
<1> SUFFICES ASSUME Health!job_health = "live" PROVE Health!LiveIsTrue
  BY DEF Health!LiveIsTrue
<1>1. /\ last_success # None /\ ~(failures >= 3)
      /\ field = None => Health!interval_state = "live"
      /\ field # None => Health!cron_state = "live"
  BY DEF Health!job_health
<1>2. /\ last_success \in Nat /\ succeeded \in Nat /\ succeeded # None /\
        last_success <= succeeded
      /\ health_now \in Nat /\ health_now <= HealthTicks /\ succeeded <= health_now
  BY <1>1 DEF HealthInv, HealthTyped, HealthRecorded
<1>3. failed_runs < 3 \/ blind \/ health_pc = "failed"
  BY <1>1 DEF HealthInv, HealthTyped, HealthRecorded
<1>4. CASE field = None
  <2>1. Interval * DegradedFactor \in Nat /\ Interval * OfflineFactor \in Nat
    BY DEF Health!JobAssumption
  <2>2. ~(health_now - last_success > Interval * OfflineFactor)
        /\ ~(health_now - last_success > Interval * DegradedFactor
               /\ health_now - last_success <= Interval * OfflineFactor)
    BY <1>1, <1>4 DEF Health!interval_state
  <2>3. health_now - last_success <= Interval * DegradedFactor
    BY <1>2, <2>1, <2>2
  <2>4. health_now - succeeded <= Interval * DegradedFactor
    BY <1>2, <2>1, <2>3
  <2> QED BY <1>2, <1>3, <1>4, <2>4 DEF Health!LiveIsTrue
<1>5. CASE field # None
  <2>1. ~(Health!next_fire(last_success) # None /\
          Health!next_fire(last_success) <= health_now - GraceTicks)
    BY <1>1, <1>5 DEF Health!cron_state
  <2>2. ASSUME NEW t \in Health!missed PROVE FALSE
    <3>1. t \in 1 .. health_now - GraceTicks /\ Health!is_cron_fire(t) /\ succeeded <= t
      BY <2>2 DEF Health!missed
    <3>2. t \in Nat /\ t > 0 /\ t <= health_now - GraceTicks /\ GraceTicks \in Nat /\
            HealthTicks \in Nat
      BY <1>2, <3>1 DEF Health!JobAssumption
    <3>3. Health!is_fire(t)
      BY <1>5, <3>1, <3>2, HealthSameDays DEF HealthInv, HealthTyped
    <3>4. t \in last_success .. HealthTicks
      BY <1>2, <3>1, <3>2
    <3>5. Health!next_fire(last_success) \in last_success .. HealthTicks /\
            Health!next_fire(last_success) <= t
      BY <1>2, <3>3, <3>4, HealthNextFire
    <3>6. Health!next_fire(last_success) \in Nat
      BY <1>2, <3>2, <3>5
    <3>7. Health!next_fire(last_success) # None
      BY <3>6 DEF Health!JobAssumption
    <3>8. Health!next_fire(last_success) <= health_now - GraceTicks
      BY <1>2, <3>2, <3>5, <3>6
    <3> QED BY <2>1, <3>7, <3>8
  <2>3. Health!missed = {}
    BY <2>2
  <2> QED BY <1>2, <1>3, <1>5, <2>3 DEF Health!LiveIsTrue
<1> QED BY <1>4, <1>5

\* The two fires that cron_state counts went by without a success.
LEMMA HealthAlarm ==
  ASSUME Health!JobAssumption, HealthInv PROVE Health!AlarmIsTrue
<1> SUFFICES ASSUME field # None, Health!job_health = "offline", ~blind, health_pc # "ok"
             PROVE  Cardinality(Health!missed) >= 2
  <2>1. \A S : Health!Cardinality(S) = Cardinality(S)
    BY DEF Health!Cardinality, Cardinality
  <2> QED BY <2>1 DEF Health!AlarmIsTrue
<1> DEFINE first == Health!next_fire(last_success)
           second == Health!next_fire(first + 1)
<1>1. last_success # None /\ Health!cron_state = "offline"
  BY DEF Health!job_health
<1>2. last_success \in Nat /\ last_success = succeeded /\ health_now \in Nat /\ GraceTicks \in Nat
      /\ HealthTicks \in Nat /\ field \in Field /\ succeeded # None
  BY <1>1 DEF HealthInv, HealthTyped, HealthRecorded, Health!JobAssumption
<1>3. first # None /\ first <= health_now - GraceTicks /\ second # None /\
        second <= health_now - GraceTicks
  BY <1>1 DEF Health!cron_state
<1>4. first \in last_success .. HealthTicks /\ Health!is_fire(first)
  BY <1>2, <1>3, HealthFireFound
<1> HIDE DEF first
<1>5. first + 1 \in Nat /\ first \in Nat /\ succeeded <= first
  BY <1>2, <1>4
<1>6. second \in first + 1 .. HealthTicks /\ Health!is_fire(second)
  BY <1>3, <1>5, HealthFireFound
<1> HIDE DEF second
<1>7. second \in Nat /\ first < second /\ succeeded <= second
  BY <1>2, <1>5, <1>6
<1>8. first > 0 /\ second > 0
  BY <1>4, <1>6 DEF Health!is_fire
<1>9. Health!is_cron_fire(first) /\ Health!is_cron_fire(second)
  BY <1>2, <1>4, <1>5, <1>6, <1>7, <1>8, HealthSameDays
<1>10. first \in 1 .. health_now - GraceTicks /\ second \in 1 .. health_now - GraceTicks
  BY <1>2, <1>3, <1>5, <1>7, <1>8
<1>11. {first, second} \subseteq Health!missed
  BY <1>2, <1>5, <1>7, <1>9, <1>10 DEF Health!missed
<1>12. IsFiniteSet(Health!missed)
  <2>1. IsFiniteSet(1 .. health_now - GraceTicks)
    BY <1>2, FS_Interval
  <2> QED BY <2>1, FS_Subset DEF Health!missed
<1>13. Cardinality({first, second}) = 2
  <2>1. IsFiniteSet({first}) /\ Cardinality({first}) = 1
    BY FS_Singleton
  <2>2. Cardinality({first} \cup {second}) = 2
    <3>1. second \notin {first}
      BY <1>5, <1>7
    <3>2. Cardinality({first} \cup {second}) = Cardinality({first}) + 1
      BY <2>1, <3>1, FS_AddElement
    <3> QED BY <2>1, <3>2
  <2>3. {first, second} = {first} \cup {second}
    OBVIOUS
  <2> QED BY <2>2, <2>3
<1>14. Cardinality({first, second}) <= Cardinality(Health!missed)
  BY <1>11, <1>12, FS_Subset
<1>15. Cardinality(Health!missed) \in Nat
  BY <1>12, FS_CardinalityType
<1>16. \A n \in Nat : 2 <= n => n >= 2
  OBVIOUS
<1> QED BY <1>13, <1>14, <1>15, <1>16

\* What /health says of a job is so, for every field and every interval (job_health).
THEOREM HealthKept ==
  ASSUME Health!JobAssumption
  PROVE  Health!Spec => []Health!HealthIsTrue
<1>1. HealthInv => Health!HealthIsTrue
  BY HealthLive, HealthAlarm DEF Health!HealthIsTrue
<1> QED BY <1>1, HealthInductive, PTL

-----------------------------------------------------------------------------
(***************************************************************************)
(* Picks: the budget, the row and the order of a run                       *)
(***************************************************************************)

\* The type invariant.
PicksTyped ==
    /\ stage \in {"new", "screen", "analysts", "movers", "critic", "overview", "entries",
                  "update", "finish", "failed", "gone"}
    /\ spent \in Nat /\ active \subseteq Screen!Rank /\ queue \in Seq(Screen!Rank)
    /\ DOMAIN analysis = Screen!Rank

\* What a run that is past its analysts may have spent.
PicksAdmitted == AdmissionCap - 1 + Concurrency * AnalystCost

\* The analysts that run were admitted below the cap, and so was what comes after them.
PicksBudget ==
    /\ stage \in {"new", "screen"} => spent = 0 /\ active = {}
    /\ stage = "analysts" => spent + Cardinality(active) * AnalystCost <= PicksAdmitted
    /\ stage = "movers" => spent <= PicksAdmitted
    /\ stage = "critic" => spent <= PicksAdmitted + MoversCost
    /\ stage = "overview" =>
          spent <= PicksAdmitted + MoversCost \/ spent <= AdmissionCap - 1 + CriticCost
    /\ \/ spent <= PicksAdmitted + MoversCost + OverviewCost
       \/ spent <= AdmissionCap - 1 + CriticCost + OverviewCost

\* A run is completed at its end, and nothing it lists changes after that.
PicksWhole ==
    status = "completed" =>
        /\ stage \in {"finish", "failed", "gone"}
        /\ checks # None /\ \A c \in Screen!Rank : analysis[c] = "ok"

\* The picks are listed at the end of a run, and the critic has no more to say then.
PicksListed == payload # None => stage \in {"finish", "failed", "gone"} /\ Screen!CleanFirst

\* What is inductive about a picks run.
PicksInv == PicksTyped /\ PicksBudget /\ PicksWhole /\ PicksListed

\* A sum of so many calls.
LEMMA PicksCalls ==
  ASSUME Screen!PicksAssumption
  PROVE  /\ {AdmissionCap, AnalystCost, MoversCost, CriticCost, OverviewCost} \subseteq Nat
         /\ AdmissionCap >= 1 /\ Concurrency \in Nat
         /\ Concurrency * AnalystCost \in Nat
         /\ \A n \in Nat : /\ n * AnalystCost \in Nat
                           /\ n <= Concurrency => n * AnalystCost <= Concurrency * AnalystCost
                           /\ (n + 1) * AnalystCost = n * AnalystCost + AnalystCost
<1>1. {AdmissionCap, AnalystCost, MoversCost, CriticCost, OverviewCost} \subseteq Nat
      /\ AdmissionCap >= 1 /\ Concurrency \in Nat
  BY DEF Screen!PicksAssumption
<1>2. \A a, c, n \in Nat : /\ n * a \in Nat /\ (n + 1) * a = n * a + a
                           /\ n <= c => n * a <= c * a
  OBVIOUS
<1> QED BY <1>1, <1>2

\* One analyst more, and one less.
LEMMA PicksActiveCount ==
  ASSUME Screen!PicksAssumption, NEW S \in SUBSET Screen!Rank, NEW x \in Screen!Rank
  PROVE  /\ Cardinality(S) \in Nat /\ Cardinality(S \cup {x}) \in Nat
         /\ Cardinality(S \cup {x}) <= Cardinality(S) + 1
         /\ x \in S => Cardinality(S \ {x}) \in Nat /\ Cardinality(S) = Cardinality(S \ {x}) + 1
<1>1. IsFiniteSet(S)
  <2>1. IsFiniteSet(Screen!Rank)
    BY FS_Interval DEF Screen!Rank, Screen!PicksAssumption
  <2> QED BY <2>1, FS_Subset
<1>2. Cardinality(S) \in Nat
  BY <1>1, FS_CardinalityType
<1>3. IsFiniteSet(S \cup {x})
      /\ Cardinality(S \cup {x}) = IF x \in S THEN Cardinality(S) ELSE Cardinality(S) + 1
  BY <1>1, FS_AddElement
<1>4. IsFiniteSet(S \ {x})
      /\ Cardinality(S \ {x}) = IF x \in S THEN Cardinality(S) - 1 ELSE Cardinality(S)
  BY <1>1, FS_RemoveElement
<1>5. Cardinality(S \ {x}) \in Nat
  BY <1>4, FS_CardinalityType
<1> QED BY <1>2, <1>3, <1>4, <1>5

\* The candidates queue in the order of the screen.
LEMMA PicksRanksAreSeq ==
  ASSUME Screen!PicksAssumption PROVE Screen!Ranks \in Seq(Screen!Rank)
<1>1. Candidates \in Nat
  BY DEF Screen!PicksAssumption
<1>2. Screen!Ranks \in [1 .. Candidates -> Screen!Rank]
  BY DEF Screen!Ranks, Screen!Rank
<1> QED BY <1>1, <1>2

\* There are as many ranks as candidates.
LEMMA PicksRankFinite ==
  ASSUME Screen!PicksAssumption
  PROVE IsFiniteSet(Screen!Rank) /\ Cardinality(Screen!Rank) = Candidates
BY FS_Interval DEF Screen!Rank, Screen!PicksAssumption

\* A map of the ranks that keeps them apart leaves none out.
LEMMA PicksInjectiveIsOnto ==
  ASSUME Screen!PicksAssumption, NEW f \in [Screen!Rank -> Screen!Rank],
         \A c, d \in Screen!Rank : f[c] = f[d] => c = d
  PROVE  \A t \in Screen!Rank : \E c \in Screen!Rank : f[c] = t
<1>1. f \in Injection(Screen!Rank, Screen!Rank)
  BY DEF Injection, IsInjective
<1>2. f \in Surjection(Screen!Rank, Screen!Rank)
  BY <1>1, PicksRankFinite, FS_Injection
<1> QED BY <1>2 DEF Surjection

\* The key orders the candidates: the place of each is the number of those above it.
LEMMA PicksSortExists ==
  ASSUME Screen!PicksAssumption
  PROVE  \E order \in [Screen!Rank -> Screen!Rank] :
             \A i, j \in Screen!Rank : i < j => Screen!above(order[i], order[j])
<1> DEFINE B(c) == {d \in Screen!Rank : Screen!above(d, c)}
           r == [c \in Screen!Rank |-> Cardinality(B(c)) + 1]
<1>1. Screen!Rank \subseteq Nat /\ Candidates \in Nat /\
        \A i : i \in Screen!Rank <=> i \in Nat /\ 1 <= i /\ i <= Candidates
  BY DEF Screen!Rank, Screen!PicksAssumption
<1>2. \A c, d \in Screen!Rank : c # d => Screen!above(c, d) \/ Screen!above(d, c)
  BY <1>1 DEF Screen!above
<1>3. \A c \in Screen!Rank : ~Screen!above(c, c)
  BY <1>1 DEF Screen!above
<1>4. \A c, d, e \in Screen!Rank : Screen!above(c, d) /\ Screen!above(d, e) => Screen!above(c, e)
  BY <1>1 DEF Screen!above
<1>5. ASSUME NEW c \in Screen!Rank, NEW S \in SUBSET Screen!Rank, NEW T \in SUBSET S, c \in S,
        c \notin T
      PROVE  Cardinality(T) \in Nat /\ Cardinality(S) \in Nat /\
        Cardinality(T) + 1 <= Cardinality(S)
  <2>1. IsFiniteSet(S) /\ IsFiniteSet(T)
    BY PicksRankFinite, FS_Subset
  <2>2. Cardinality(S) \in Nat /\ Cardinality(T) \in Nat
    BY <2>1, FS_CardinalityType
  <2>3. Cardinality(T) <= Cardinality(S) /\ Cardinality(S) # Cardinality(T)
    BY <1>5, <2>1, FS_Subset
  <2> QED BY <2>2, <2>3
<1>6. \A c \in Screen!Rank : B(c) \in SUBSET Screen!Rank /\ c \notin B(c)
  BY <1>3
<1>7. \A c, d \in Screen!Rank : Screen!above(d, c) => d \in B(c) /\ B(d) \in SUBSET B(c)
  BY <1>4
<1> HIDE DEF B
<1>8. \A c \in Screen!Rank : r[c] \in Screen!Rank
  <2> SUFFICES ASSUME NEW c \in Screen!Rank PROVE Cardinality(B(c)) + 1 \in Screen!Rank
    OBVIOUS
  <2>1. Cardinality(B(c)) \in Nat /\ Cardinality(B(c)) + 1 <= Cardinality(Screen!Rank)
    BY <1>5, <1>6
  <2> QED BY <1>1, <2>1, PicksRankFinite
<1>9. \A c, d \in Screen!Rank : Screen!above(d, c) => r[d] < r[c]
  <2> SUFFICES ASSUME NEW c \in Screen!Rank, NEW d \in Screen!Rank, Screen!above(d, c)
               PROVE  Cardinality(B(d)) + 1 < Cardinality(B(c)) + 1
    OBVIOUS
  <2>1. /\ Cardinality(B(d)) \in Nat /\ Cardinality(B(c)) \in Nat
        /\ Cardinality(B(d)) + 1 <= Cardinality(B(c))
    BY <1>5, <1>6, <1>7
  <2> QED BY <2>1
<1>10. r \in [Screen!Rank -> Screen!Rank]
  <2>1. r \in [Screen!Rank -> {r[c] : c \in Screen!Rank}]
    OBVIOUS
  <2> HIDE DEF r
  <2> QED BY <1>8, <2>1
<1> HIDE DEF r
<1>11. \A c, d \in Screen!Rank : r[c] = r[d] => c = d
  <2> SUFFICES ASSUME NEW c \in Screen!Rank, NEW d \in Screen!Rank, r[c] = r[d], c # d PROVE FALSE
    OBVIOUS
  <2>1. r[c] < r[d] \/ r[d] < r[c]
    BY <1>2, <1>9
  <2>2. r[c] \in Nat /\ r[d] \in Nat
    BY <1>1, <1>8
  <2> QED BY <2>1, <2>2
<1>12. \A t \in Screen!Rank : \E c \in Screen!Rank : r[c] = t
  BY <1>10, <1>11, PicksInjectiveIsOnto
<1> DEFINE order == [i \in Screen!Rank |-> CHOOSE c \in Screen!Rank : r[c] = i]
<1>13. \A i \in Screen!Rank : order[i] \in Screen!Rank /\ r[order[i]] = i
  BY <1>12
<1>14. order \in [Screen!Rank -> Screen!Rank]
  BY <1>13
<1> HIDE DEF order
<1>15. ASSUME NEW i \in Screen!Rank, NEW j \in Screen!Rank, i < j
       PROVE Screen!above(order[i], order[j])
  <2>1. i \in Nat /\ j \in Nat
    BY <1>1
  <2>2. order[i] # order[j]
    BY <1>13, <1>15, <2>1
  <2>3. ~Screen!above(order[j], order[i])
    <3>1. Screen!above(order[j], order[i]) => j < i
      BY <1>9, <1>13
    <3> QED BY <1>15, <2>1, <3>1
  <2> QED BY <1>2, <1>13, <2>2, <2>3
<1> QED BY <1>14, <1>15

\* picks.sort orders them so.
LEMMA PicksSorted ==
  ASSUME Screen!PicksAssumption
  PROVE  Screen!sorted \in [Screen!Rank -> Screen!Rank] /\ \A i, j \in Screen!Rank : i < j =>
    Screen!above(Screen!sorted[i], Screen!sorted[j])
BY PicksSortExists DEF Screen!sorted

\* What is cut from the sorted list has the clean picks first.
LEMMA PicksClean ==
  ASSUME Screen!PicksAssumption, NEW c \in Screen!Rank \ Screen!demoted,
    NEW i \in DOMAIN Screen!picks, Screen!picks[i] \in Screen!demoted
  PROVE  \E j \in 1 .. i - 1 : Screen!picks[j] = c
<1> DEFINE n == IF FinalCount < Candidates THEN FinalCount ELSE Candidates
<1>1. n \in Nat /\ n <= Candidates /\ Candidates \in Nat
  BY DEF Screen!PicksAssumption
<1>2. \A k \in 1 .. n : k \in Screen!Rank
  BY <1>1 DEF Screen!Rank
<1>3. Screen!picks = [k \in 1 .. n |-> Screen!sorted[k]]
  BY DEF Screen!picks
<1> HIDE DEF n
<1>4. i \in 1 .. n /\ Screen!sorted[i] \in Screen!demoted /\ i \in Screen!Rank
  BY <1>2, <1>3
<1>5. \A k, m \in Screen!Rank : Screen!sorted[k] = Screen!sorted[m] => k = m
  <2> SUFFICES ASSUME NEW k \in Screen!Rank, NEW m \in Screen!Rank,
        Screen!sorted[k] = Screen!sorted[m], k # m PROVE FALSE
    OBVIOUS
  <2>1. k \in Nat /\ m \in Nat /\ (k < m \/ m < k)
    BY DEF Screen!Rank
  <2>2. Screen!above(Screen!sorted[k], Screen!sorted[k])
    BY <2>1, PicksSorted
  <2>3. Screen!sorted[k] \in Nat
    BY PicksSorted DEF Screen!Rank
  <2> QED BY <2>2, <2>3 DEF Screen!above
<1>6. PICK j \in Screen!Rank : Screen!sorted[j] = c
  BY <1>5, PicksInjectiveIsOnto, PicksSorted
<1>7. ~(i < j)
  <2>1. ~Screen!above(Screen!sorted[i], Screen!sorted[j])
    BY <1>4, <1>6 DEF Screen!above
  <2> QED BY <1>4, <1>6, <2>1, PicksSorted
<1>8. j # i
  BY <1>4, <1>6
<1>9. j \in 1 .. i - 1 /\ j \in 1 .. n
  BY <1>1, <1>4, <1>6, <1>7, <1>8 DEF Screen!Rank
<1> QED BY <1>3, <1>6, <1>9

\* Every step keeps the types.
LEMMA PicksTypedStep ==
  ASSUME Screen!PicksAssumption, PicksTyped, [Screen!Next]_(Screen!vars)
  PROVE  PicksTyped'
<1>1. CASE UNCHANGED Screen!vars
  BY <1>1 DEF PicksTyped, Screen!vars
<1>2. CASE Screen!create_picks_run
  BY <1>2 DEF PicksTyped, Screen!create_picks_run, Screen!local
<1>3. CASE Screen!score_universe
  BY <1>3, PicksRanksAreSeq DEF PicksTyped, Screen!score_universe, Screen!row
<1>4. CASE Screen!analyze
  <2>1. Head(queue) \in Screen!Rank /\ Tail(queue) \in Seq(Screen!Rank)
    BY <1>4 DEF PicksTyped, Screen!analyze
  <2> QED BY <1>4, <2>1 DEF PicksTyped, Screen!analyze, Screen!row
<1>5. ASSUME NEW c \in Screen!Rank, Screen!run_analyst(c) PROVE PicksTyped'
  <2>1. spent' \in Nat
    BY <1>5, PicksCalls DEF PicksTyped, Screen!run_analyst, Screen!spend
  <2> QED BY <1>5, <2>1 DEF PicksTyped, Screen!run_analyst, Screen!row
<1>6. CASE Screen!gather
  BY <1>6 DEF PicksTyped, Screen!gather, Screen!local, Screen!row
<1>7. CASE Screen!explain_movers
  BY <1>7, PicksCalls DEF PicksTyped, Screen!explain_movers, Screen!spend, Screen!local,
     Screen!row
<1>8. CASE Screen!run_critic
  <2>1. spent' \in Nat
    <3>1. spent' = spent \/ \E usd \in 0 .. CriticCost : spent' = spent + usd
      BY <1>8 DEF Screen!run_critic, Screen!spend
    <3>2. spent \in Nat /\ CriticCost \in Nat
      BY PicksCalls DEF PicksTyped
    <3> HIDE DEF PicksTyped
    <3> QED BY <3>1, <3>2
  <2> QED BY <1>8, <2>1 DEF PicksTyped, Screen!run_critic, Screen!row
<1>9. CASE Screen!synthesize_overview
  BY <1>9, PicksCalls DEF PicksTyped, Screen!synthesize_overview, Screen!spend, Screen!local,
     Screen!row
<1>10. CASE Screen!insert_pick_entries
  BY <1>10 DEF PicksTyped, Screen!insert_pick_entries, Screen!local
<1>11. CASE Screen!update_picks_run
  BY <1>11 DEF PicksTyped, Screen!update_picks_run, Screen!local
<1>12. CASE Screen!finalize_run \/ Screen!fail \/ Screen!finalize_error \/ Screen!stop
  BY <1>12 DEF PicksTyped, Screen!finalize_run, Screen!fail, Screen!finalize_error,
     Screen!stop, Screen!local, Screen!row
<1> QED BY <1>1, <1>2, <1>3, <1>4, <1>5, <1>6, <1>7, <1>8, <1>9, <1>10, <1>11, <1>12
           DEF Screen!Next

\* An analyst is admitted below the cap, and spends its most at most.
LEMMA PicksBudgetStep ==
  ASSUME Screen!PicksAssumption, PicksTyped, PicksBudget, [Screen!Next]_(Screen!vars)
  PROVE  PicksBudget'
<1>0. /\ Concurrency * AnalystCost \in Nat /\ AdmissionCap \in Nat /\ AdmissionCap >= 1
      /\ AnalystCost \in Nat /\ MoversCost \in Nat /\ CriticCost \in Nat /\ OverviewCost \in Nat
  BY PicksCalls
<1>1. spent \in Nat /\ AdmissionCap - 1 \in Nat /\ PicksAdmitted \in Nat
      /\ PicksAdmitted = AdmissionCap - 1 + Concurrency * AnalystCost
  BY <1>0 DEF PicksTyped, PicksAdmitted
<1> HIDE DEF PicksAdmitted
<1>2. CASE UNCHANGED <<stage, spent, active>>
  BY <1>2 DEF PicksBudget, PicksAdmitted
<1>3. CASE Screen!create_picks_run
  BY <1>0, <1>1, <1>3 DEF PicksBudget, Screen!create_picks_run, Screen!local
<1>4. CASE Screen!score_universe
  <2>1. spent' = 0 /\ stage' \in {"analysts", "failed"} /\ active' = {}
    BY <1>4 DEF PicksBudget, Screen!score_universe
  <2>2. Cardinality(active') * AnalystCost = 0
    BY <1>0, <2>1, FS_EmptySet
  <2> QED BY <1>0, <1>1, <2>1, <2>2 DEF PicksBudget
<1>5. CASE Screen!analyze
  <2>1. Head(queue) \in Screen!Rank
    BY <1>5 DEF PicksTyped, Screen!analyze
  <2>2. stage' = "analysts" /\ stage = "analysts" /\ spent' = spent
    BY <1>5 DEF Screen!analyze
  <2>3. CASE active' = active
    BY <1>0, <1>1, <2>2, <2>3 DEF PicksBudget
  <2>4. CASE active' = active \cup {Head(queue)} /\ Screen!admits
    <3>1. Cardinality(active') \in Nat /\ Cardinality(active') <= Cardinality(active) + 1
          /\ Cardinality(active) \in Nat
      BY <2>1, <2>4, PicksActiveCount DEF PicksTyped
    <3>2. Cardinality(active) < Concurrency /\ Concurrency \in Nat
      <4>1. \A S : Screen!Cardinality(S) = Cardinality(S)
        BY DEF Screen!Cardinality, Cardinality
      <4> QED BY <1>5, <4>1, PicksCalls DEF Screen!analyze
    <3>3. Cardinality(active') <= Concurrency
      BY <3>1, <3>2
    <3>4. Cardinality(active') * AnalystCost <= Concurrency * AnalystCost
          /\ Cardinality(active') * AnalystCost \in Nat
      BY <3>1, <3>3, PicksCalls
    <3>5. spent <= AdmissionCap - 1
      BY <1>0, <1>1, <2>4 DEF Screen!admits
    <3> QED BY <1>0, <1>1, <2>2, <3>4, <3>5 DEF PicksBudget
  <2> QED BY <1>5, <2>3, <2>4 DEF Screen!analyze
<1>6. ASSUME NEW c \in Screen!Rank, Screen!run_analyst(c) PROVE PicksBudget'
  <2>1. stage = "analysts" /\ stage' = "analysts" /\ c \in active /\ active' = active \ {c}
    BY <1>6 DEF Screen!run_analyst
  <2>2. PICK usd \in 0 .. AnalystCost : spent' = spent + usd
    BY <1>6 DEF Screen!run_analyst, Screen!spend
  <2>3. Cardinality(active') \in Nat /\ Cardinality(active) = Cardinality(active') + 1
    BY <2>1, PicksActiveCount DEF PicksTyped
  <2>4. Cardinality(active) * AnalystCost = Cardinality(active') * AnalystCost + AnalystCost
        /\ Cardinality(active') * AnalystCost \in Nat
    BY <2>3, PicksCalls
  <2>5. spent + Cardinality(active) * AnalystCost <= PicksAdmitted
    BY <2>1 DEF PicksBudget
  <2>6. spent' + Cardinality(active') * AnalystCost <= PicksAdmitted /\ spent' \in Nat
    BY <1>0, <1>1, <2>2, <2>4, <2>5
  <2> QED BY <1>0, <1>1, <2>1, <2>4, <2>6 DEF PicksBudget
<1>7. CASE Screen!gather
  <2>1. stage = "analysts" /\ stage' = "movers" /\ spent' = spent /\ active = {}
    BY <1>7 DEF Screen!gather
  <2>2. Cardinality(active) * AnalystCost = 0
    BY <1>0, <2>1, FS_EmptySet
  <2>3. spent + Cardinality(active) * AnalystCost <= PicksAdmitted
    BY <2>1 DEF PicksBudget
  <2> QED BY <1>0, <1>1, <2>1, <2>2, <2>3 DEF PicksBudget
<1>8. CASE Screen!explain_movers
  <2>1. stage = "movers" /\ stage' = "critic"
    BY <1>8 DEF Screen!explain_movers
  <2>2. PICK usd \in 0 .. MoversCost : spent' = spent + usd
    BY <1>8 DEF Screen!explain_movers, Screen!spend
  <2> QED BY <1>0, <1>1, <2>1, <2>2 DEF PicksBudget
<1>9. CASE Screen!run_critic
  <2>1. stage = "critic" /\ stage' = "overview" /\ spent <= PicksAdmitted + MoversCost
    BY <1>9 DEF PicksBudget, Screen!run_critic
  <2>2. CASE spent' = spent
    BY <1>0, <1>1, <2>1, <2>2 DEF PicksBudget
  <2>3. ASSUME spent < AdmissionCap, NEW usd \in 0 .. CriticCost, spent' = spent + usd
        PROVE PicksBudget'
    BY <1>0, <1>1, <2>1, <2>3 DEF PicksBudget
  <2> QED BY <1>9, <2>2, <2>3 DEF Screen!run_critic, Screen!spend
<1>10. CASE Screen!synthesize_overview
  <2>1. stage = "overview" /\ stage' = "entries"
    BY <1>10 DEF Screen!synthesize_overview
  <2>2. PICK usd \in 0 .. OverviewCost : spent' = spent + usd
    BY <1>10 DEF Screen!synthesize_overview, Screen!spend
  <2> QED BY <1>0, <1>1, <2>1, <2>2 DEF PicksBudget
<1>11. (Screen!insert_pick_entries \/ Screen!update_picks_run \/ Screen!finalize_run \/
         Screen!fail \/ Screen!finalize_error \/ Screen!stop)
         => stage' \in {"update", "finish", "failed", "gone"} /\ spent' = spent
  BY DEF Screen!insert_pick_entries, Screen!update_picks_run, Screen!finalize_run, Screen!fail,
     Screen!finalize_error, Screen!stop
<1>12. CASE stage' \in {"update", "finish", "failed", "gone"} /\ spent' = spent
  BY <1>12 DEF PicksBudget, PicksAdmitted
<1> QED BY <1>2, <1>3, <1>4, <1>5, <1>6, <1>7, <1>8, <1>9, <1>10, <1>11, <1>12 DEF Screen!Next,
           Screen!vars

\* update_picks_run says completed of a list that is whole.
LEMMA PicksWholeStep ==
  ASSUME Screen!PicksAssumption, PicksTyped, PicksWhole, [Screen!Next]_(Screen!vars)
  PROVE  PicksWhole'
<1>1. CASE UNCHANGED <<stage, status, checks, analysis>>
  BY <1>1 DEF PicksWhole
<1>2. (Screen!create_picks_run \/ Screen!score_universe \/ Screen!analyze \/
        (\E c \in Screen!Rank : Screen!run_analyst(c)) \/ Screen!gather
         \/ Screen!explain_movers \/ Screen!run_critic \/ Screen!synthesize_overview \/
            Screen!insert_pick_entries)
        => stage \notin {"finish", "failed", "gone"} /\ status' \in {status, "running"}
  BY DEF Screen!create_picks_run, Screen!score_universe, Screen!analyze, Screen!run_analyst,
     Screen!gather, Screen!explain_movers,
         Screen!run_critic, Screen!synthesize_overview, Screen!insert_pick_entries, Screen!row,
           Screen!spend
<1>3. CASE stage \notin {"finish", "failed", "gone"} /\ status' \in {status, "running"}
  BY <1>3 DEF PicksWhole
<1>4. CASE Screen!update_picks_run
  <2>1. ~Screen!degraded => checks # None /\ \A c \in Screen!Rank : analysis[c] = "ok"
    BY DEF Screen!degraded
  <2>2. stage' = "finish" /\ (status' = "completed" =>
          ~Screen!degraded) /\ UNCHANGED <<checks, analysis>>
    BY <1>4 DEF Screen!update_picks_run, Screen!local
  <2> QED BY <2>1, <2>2 DEF PicksWhole
<1>5. CASE Screen!finalize_error
  BY <1>5 DEF PicksWhole, Screen!finalize_error
<1>6. CASE Screen!finalize_run \/ Screen!fail \/ Screen!stop
  BY <1>6 DEF PicksWhole, Screen!finalize_run, Screen!fail, Screen!stop, Screen!local, Screen!row
<1> QED BY <1>1, <1>2, <1>3, <1>4, <1>5, <1>6 DEF Screen!Next, Screen!vars

\* update_picks_run lists the picks, after which no critic runs.
LEMMA PicksListedStep ==
  ASSUME Screen!PicksAssumption, PicksTyped, PicksListed, [Screen!Next]_(Screen!vars)
  PROVE  PicksListed'
<1>1. CASE UNCHANGED <<stage, checks, payload>>
  BY <1>1 DEF PicksListed, Screen!CleanFirst, Screen!demoted
<1>2. (Screen!create_picks_run \/ Screen!score_universe \/ Screen!analyze \/
        (\E c \in Screen!Rank : Screen!run_analyst(c)) \/ Screen!gather
         \/ Screen!explain_movers \/ Screen!run_critic \/ Screen!synthesize_overview \/
            Screen!insert_pick_entries)
        => stage \notin {"finish", "failed", "gone"} /\ payload' = payload
  BY DEF Screen!create_picks_run, Screen!score_universe, Screen!analyze, Screen!run_analyst,
     Screen!gather, Screen!explain_movers,
         Screen!run_critic, Screen!synthesize_overview, Screen!insert_pick_entries, Screen!row
<1>3. CASE stage \notin {"finish", "failed", "gone"} /\ payload' = payload
  BY <1>3 DEF PicksListed
<1>4. CASE Screen!update_picks_run
  <2>1. stage' = "finish" /\ payload' = Screen!picks /\ Screen!demoted' = Screen!demoted
    BY <1>4 DEF Screen!update_picks_run, Screen!local, Screen!demoted
  <2>2. Screen!CleanFirst'
    BY <2>1, PicksClean DEF Screen!CleanFirst
  <2> QED BY <2>1, <2>2 DEF PicksListed
<1>5. (Screen!finalize_run \/ Screen!fail \/ Screen!finalize_error \/ Screen!stop) =>
        stage' \in {"finish", "failed", "gone"} /\ UNCHANGED <<payload, checks>>
  BY DEF Screen!finalize_run, Screen!fail, Screen!finalize_error, Screen!stop, Screen!local,
     Screen!row
<1>6. CASE stage' \in {"finish", "failed", "gone"} /\ UNCHANGED <<payload, checks>>
  BY <1>6 DEF PicksListed, Screen!CleanFirst, Screen!demoted
<1> QED BY <1>1, <1>2, <1>3, <1>4, <1>5, <1>6 DEF Screen!Next, Screen!vars

\* PicksInv holds in every reachable state.
LEMMA PicksInductive ==
  ASSUME Screen!PicksAssumption PROVE Screen!Spec => []PicksInv
<1>1. Screen!Init => PicksInv
  <2> SUFFICES ASSUME Screen!Init PROVE PicksInv
    OBVIOUS
  <2>1. <<>> \in Seq(Screen!Rank)
    OBVIOUS
  <2>2. PicksTyped /\ PicksWhole /\ PicksListed
    BY <2>1 DEF Screen!Init, PicksTyped, PicksWhole, PicksListed
  <2>3. /\ Concurrency * AnalystCost \in Nat /\ AdmissionCap \in Nat /\ AdmissionCap >= 1
        /\ MoversCost \in Nat /\ OverviewCost \in Nat
    BY PicksCalls
  <2>4. spent = 0 /\ active = {} /\ stage = "new"
    BY DEF Screen!Init
  <2>5. PicksBudget
    BY <2>3, <2>4 DEF PicksBudget, PicksAdmitted
  <2> QED BY <2>2, <2>5 DEF PicksInv
<1>2. PicksInv /\ [Screen!Next]_(Screen!vars) => PicksInv'
  BY PicksTypedStep, PicksBudgetStep, PicksWholeStep, PicksListedStep DEF PicksInv
<1> QED BY <1>1, <1>2, PTL DEF Screen!Spec

\* The budget, the status and the order of a picks run (run_stock_picks).
THEOREM PicksKept ==
  ASSUME Screen!PicksAssumption
  PROVE  Screen!Spec => []Screen!PicksHonest
<1>1. PicksInv => Screen!SpendHeld
  <2> SUFFICES ASSUME PicksInv PROVE Screen!SpendHeld
    OBVIOUS
  <2>1. /\ Concurrency * AnalystCost \in Nat /\ AdmissionCap \in Nat /\ AdmissionCap >= 1
        /\ MoversCost \in Nat /\ CriticCost \in Nat /\ OverviewCost \in Nat /\ spent \in Nat
    BY PicksCalls DEF PicksInv, PicksTyped
  <2>2. \/ spent <= PicksAdmitted + MoversCost + OverviewCost
        \/ spent <= AdmissionCap - 1 + CriticCost + OverviewCost
    BY DEF PicksInv, PicksBudget
  <2> QED BY <2>1, <2>2 DEF Screen!SpendHeld, PicksAdmitted
<1>2. PicksInv => Screen!CompletedIsWhole
  BY DEF PicksInv, PicksWhole, Screen!CompletedIsWhole
<1>3. PicksInv => Screen!CleanFirst
  BY DEF PicksInv, PicksListed, Screen!CleanFirst
<1>4. PicksInv => Screen!PicksHonest
  BY <1>1, <1>2, <1>3 DEF Screen!PicksHonest
<1> QED BY <1>4, PicksInductive, PTL

-----------------------------------------------------------------------------
(***************************************************************************)
(* The components side by side                                             *)
(***************************************************************************)

\* Every behaviour of the run is one of the account and of each job, up to steps that
\* change nothing of theirs.
LEMMA SumImplements ==
  SumSpec => /\ Spec /\ Offer!Spec /\ Scans!Spec /\ Morning!Spec
             /\ Ledger!Spec /\ Health!Spec /\ Screen!Spec
<1>1. SumInit => Init /\ Offer!Init /\ Scans!Init /\ Morning!Init /\ Ledger!Init
             /\ Health!Init /\ Screen!Init
  BY DEF SumInit
<1>2. [SumNext]_all => [Next]_vars
  BY DEF SumNext, all
<1>3. [SumNext]_all => [Offer!Next]_(Offer!vars)
  BY DEF SumNext, all, trial_vars, Offer!vars, Offer!user
<1>4. [SumNext]_all => [Scans!Next]_(Scans!vars)
  BY DEF SumNext, all, alerts_vars, Scans!vars
<1>5. [SumNext]_all => [Morning!Next]_(Morning!vars)
  BY DEF SumNext, all, digest_vars, Morning!vars
<1>6. [SumNext]_all => [Ledger!Next]_(Ledger!vars)
  BY DEF SumNext, all, ledger_vars, Ledger!vars
<1>7. [SumNext]_all => [Health!Next]_(Health!vars)
  BY DEF SumNext, all, health_vars, Health!vars
<1>8. [SumNext]_all => [Screen!Next]_(Screen!vars)
  BY DEF SumNext, all, picks_vars, Screen!vars
<1> QED BY <1>1, <1>2, <1>3, <1>4, <1>5, <1>6, <1>7, <1>8, PTL
        DEF SumSpec, Spec, Offer!Spec, Scans!Spec, Morning!Spec, Ledger!Spec, Health!Spec,
            Screen!Spec

\* A request acts for the account its token belongs to, no token is provisioned after its
\* account was deleted, and no cache names another account, however requests interleave.
THEOREM IdentityHolds == SumSpec => []IdentitySound
BY SumImplements, IdentityKept, PTL

\* A subscription that goes on charging has an account that can cancel it, except where
\* a checkout overlapped the deletion.
THEOREM NoZombie == SumSpec => []NoPayingZombie
BY SumImplements, SubscriptionDies, PTL

\* The one trial of an account is armed once and stays settled, and its notices are sent
\* once and in order.
THEOREM TrialHolds == SumSpec => []TrialRight
<1>1. Offer!TrialRight => TrialRight
  BY DEF TrialRight
<1> QED BY <1>1, SumImplements, TrialKept, PartsAssumption, PTL

\* No event and no ticker is announced twice, unless two scans ran at once.
THEOREM AlertsHold == SumSpec => []AlertsOnce
<1>1. Scans!AlertsOnce => AlertsOnce
  BY DEF AlertsOnce
<1> QED BY <1>1, SumImplements, AlertsKept, PartsAssumption, PTL

\* A digest that failed is not silent, and one that is completed was queued.
THEOREM FailuresTold == SumSpec => []NoSilentFailure
<1>1. Morning!NoSilentFailure => NoSilentFailure
  BY DEF NoSilentFailure
<1> QED BY <1>1, SumImplements, FailuresShown, PartsAssumption, PTL

\* One message a morning and one first briefing at a time, unless runs overlapped.
THEOREM OneDigest == SumSpec => []NoDoubleDigest
<1>1. Morning!NoDoubleDigest => NoDoubleDigest
  BY DEF NoDoubleDigest
<1> QED BY <1>1, SumImplements, DigestOnce, PartsAssumption, PTL

\* After one missed night, of a Tuesday, a Wednesday or a Thursday, the next run has
\* entered every claim that was published before it.
THEOREM LedgerHeals == SumSpec => []MidweekHeals
<1>1. Ledger!MidweekHeals => MidweekHeals
  BY DEF MidweekHeals
<1> QED BY <1>1, SumImplements, NightsHeal, PartsAssumption, PTL

\* A claim is settled from bars it could not have known, not before it is due, and once
\* unless two runs settle rows at once.
THEOREM LedgerHonest == SumSpec => NoHindsight
BY SumImplements, HindsightNever, PartsAssumption, PTL DEF NoHindsight

\* What /health says of a job is so: live if it did succeed after its last fire, offline
\* only if two fires went by.
THEOREM HealthHolds == SumSpec => []HealthIsTrue
<1>1. Health!HealthIsTrue => HealthIsTrue
  BY DEF HealthIsTrue
<1> QED BY <1>1, SumImplements, HealthKept, PartsAssumption, PTL

\* A picks run spends what was admitted and no more, says completed of a whole list only,
\* and lists no demoted pick above a clean one.
THEOREM PicksHold == SumSpec => []PicksHonest
<1>1. Screen!PicksHonest => PicksHonest
  BY DEF PicksHonest
<1> QED BY <1>1, SumImplements, PicksKept, PartsAssumption, PTL
=============================================================================
