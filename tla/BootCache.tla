------------------------------ MODULE BootCache ------------------------------
(***************************************************************************)
(* The pages of one browser and the dashboard's boot cache (webapp.py, the *)
(* shell's script, the dashboard's boot sequence, sign-in, sign-out and    *)
(* the deletion of an account).  Tabs share the stored session and the     *)
(* cache; each keeps a token of its own in memory.  What a payload holds   *)
(* is abstracted to the user whose data it is.                             *)
(***************************************************************************)
EXTENDS Naturals

CONSTANTS
    User,
    Tab,
    None,
    Repolls,      \* fetches of the bootstrap after the first (3 in the code)
    MaxSignIns    \* bound: sign-ins of a behaviour

BootCacheAssumption == {Repolls, MaxSignIns} \subseteq Nat /\ None \notin User

VARIABLES
    session,   \* the user of the session in the browser's storage, or None
    deleted,   \* accounts that were deleted
    cache,     \* cache[u]: the user whose payload is stored under u's key, or None
    tab,       \* tab[t]: page, token, key, boot (the boot sequence), owner of its request, ...
    signins,
    switched   \* the session changed while a page booted (history)

vars == <<session, deleted, cache, tab, signins, switched>>

Page == {"login", "dashboard", "settings", "leaving", "landing"}
Boot == {"idle", "read", "fetch", "asked", "timer"}
At(page) == [page |-> page, token |-> None, key |-> None, boot |-> "idle", owner |-> None,
             left |-> 0, shown |-> None]
TabState == [page : Page, token : User \cup {None}, key : User \cup {None}, boot : Boot,
             owner : User \cup {None}, left : 0..Repolls, shown : User \cup {None}]
Empty == [u \in User |-> None]

TypeOK ==
    /\ session \in User \cup {None} /\ deleted \subseteq User
    /\ cache \in [User -> User \cup {None}]
    /\ tab \in [Tab -> TabState]
    /\ signins \in 0..MaxSignIns /\ switched \in BOOLEAN

Init ==
    /\ session = None /\ deleted = {} /\ cache = Empty
    /\ tab = [t \in Tab |-> At("login")]
    /\ signins = 0 /\ switched = FALSE

booting == \E t \in Tab : tab[t].boot # "idle"

\* A page is left for another one: its script is gone, with all it was waiting for.
visit(t, page) == tab' = [tab EXCEPT ![t] = At(page)]

\* getToken: from memory, else from the session.
token(t) == IF tab[t].token # None THEN tab[t].token ELSE session

-----------------------------------------------------------------------------
(***************************************************************************)
(* Sign-in and the boot sequence                                           *)
(***************************************************************************)

\* The login page: a sign-in, or a session that is there already.
sign_in(t, u) ==
    /\ tab[t].page = "login" /\ session = None
    /\ u \notin deleted /\ signins < MaxSignIns
    /\ session' = u /\ signins' = signins + 1
    /\ switched' = (switched \/ booting)
    /\ UNCHANGED <<deleted, cache, tab>>

dashboard(t) ==
    /\ tab[t].page \in {"login", "landing", "settings"} /\ session # None
    /\ tab' = [tab EXCEPT ![t] = [At("dashboard") EXCEPT !.boot = "read", !.left = Repolls]]
    /\ UNCHANGED <<session, deleted, cache, signins, switched>>

settings(t) ==
    /\ tab[t].page = "dashboard"
    /\ visit(t, "settings")
    /\ UNCHANGED <<session, deleted, cache, signins, switched>>

\* requireSession: the token of the session, kept in memory.
requireSession(t) ==
    /\ tab[t].page \in {"dashboard", "settings"} /\ tab[t].token = None /\ session # None
    /\ tab' = [tab EXCEPT ![t].token = session]
    /\ UNCHANGED <<session, deleted, cache, signins, switched>>

\* The token is within a minute of its end: the next getToken asks the session.
expires(t) ==
    /\ tab[t].token # None
    /\ tab' = [tab EXCEPT ![t].token = None]
    /\ UNCHANGED <<session, deleted, cache, signins, switched>>

\* Mutant of key_of: one key for the browser.
key_shared(u) == IF u = None THEN None ELSE CHOOSE v \in User : TRUE

key_of(u) == u

\* The key of the session's user, and a first paint from what is stored under it.
readBootCache(t) ==
    LET k == key_of(session) IN
    /\ tab[t].boot = "read"
    /\ tab' = [tab EXCEPT ![t].boot = "fetch", ![t].key = k,
                          ![t].shown = IF k = None THEN None ELSE cache[k]]
    /\ UNCHANGED <<session, deleted, cache, signins, switched>>

clearBootCaches == cache' = Empty

\* api: without a token the caches are cleared and the page is left.
api(t) ==
    /\ tab[t].boot = "fetch"
    /\ IF token(t) = None
         THEN clearBootCaches /\ visit(t, "login")
         ELSE /\ tab' = [tab EXCEPT ![t].boot = "asked", ![t].token = token(t),
                                    ![t].owner = token(t)]
              /\ UNCHANGED cache
    /\ UNCHANGED <<session, deleted, signins, switched>>

\* 401, as the account of the token is gone.
refused(t) ==
    /\ tab[t].boot = "asked" /\ tab[t].owner \in deleted
    /\ clearBootCaches /\ visit(t, "login")
    /\ UNCHANGED <<session, deleted, signins, switched>>

\* The bootstrap comes, also when the account was deleted after it was served: it is
\* stored and painted, and asked for again while sections are being rebuilt.
fetchBootstrap(t) ==
    LET b == tab[t] IN
    /\ b.boot = "asked"
    /\ cache' = IF b.key = None THEN cache ELSE [cache EXCEPT ![b.key] = b.owner]
    /\ \/ /\ b.left > 0
          /\ tab' = [tab EXCEPT ![t].shown = b.owner, ![t].boot = "timer", ![t].left = @ - 1]
       \/ tab' = [tab EXCEPT ![t].shown = b.owner, ![t].boot = "idle"]
    /\ UNCHANGED <<session, deleted, signins, switched>>

repoll(t) ==
    /\ tab[t].boot = "timer"
    /\ tab' = [tab EXCEPT ![t].boot = "fetch"]
    /\ UNCHANGED <<session, deleted, cache, signins, switched>>

-----------------------------------------------------------------------------
(***************************************************************************)
(* The end of a session                                                    *)
(***************************************************************************)

\* signOut clears first, and leaves the page when Supabase has answered.
signOut(t) ==
    /\ tab[t].page \in {"dashboard", "settings"}
    /\ clearBootCaches
    /\ tab' = [tab EXCEPT ![t].page = "leaving", ![t].token = None]
    /\ UNCHANGED <<session, deleted, signins, switched>>

signed_out(t) ==
    /\ tab[t].page = "leaving"
    /\ session' = None /\ visit(t, "login")
    /\ switched' = (switched \/ \E s \in Tab \ {t} : tab[s].boot # "idle")
    /\ UNCHANGED <<deleted, cache, signins>>

\* The danger zone: DELETE /me, then the session ends, and the landing page.
delete_yes(t) ==
    /\ tab[t].page = "settings" /\ token(t) \notin deleted \cup {None}
    /\ deleted' = deleted \cup {token(t)} /\ session' = None
    /\ visit(t, "landing")
    /\ switched' = (switched \/ booting)
    /\ UNCHANGED <<cache, signins>>

Next ==
    \/ \E t \in Tab, u \in User : sign_in(t, u)
    \/ \E t \in Tab :
        \/ dashboard(t) \/ settings(t) \/ requireSession(t) \/ expires(t)
        \/ readBootCache(t) \/ api(t) \/ refused(t)
        \/ fetchBootstrap(t) \/ repoll(t)
        \/ signOut(t) \/ signed_out(t) \/ delete_yes(t)

Spec == Init /\ [][Next]_vars

-----------------------------------------------------------------------------
(***************************************************************************)
(* Properties                                                              *)
(***************************************************************************)

\* A page shows the data of the user whose session it was opened in, and no payload is
\* stored under the key of another user, through sign-outs, deletions and sign-ins of
\* several users in several tabs: unless the session changed while a page booted.
ShownIsOwn ==
    ~switched =>
        /\ \A t \in Tab : tab[t].shown \in {None, tab[t].key}
        /\ \A u \in User : cache[u] \in {None, u}
=============================================================================
