--------------------------- MODULE UserSideProofs ---------------------------
(***************************************************************************)
(* Theorems about the pages: BootCache (Boot), WebChat (Panel) and Views   *)
(* (View), as instances of MC_UserSide.  Each is proved of the instance's  *)
(* own specification; the last section carries them over to SumSpec, whose *)
(* steps either are steps of the instance or leave its variables alone.    *)
(***************************************************************************)
EXTENDS MC_UserSide, TLAPS

\* ---- BootCache: whose data a page shows.

\* A page that was just opened is well typed.
LEMMA BootOpened ==
  ASSUME Boot!BootCacheAssumption, NEW page \in Boot!Page
  PROVE Boot!At(page) \in Boot!TabState
<1>1. 0 \in 0..Repolls
  BY DEF Boot!BootCacheAssumption
<1>2. "idle" \in Boot!Boot
  BY DEF Boot!Boot
<1> QED BY <1>1, <1>2 DEF Boot!At, Boot!TabState

\* The variables keep their types.
THEOREM BootTypeCorrect == ASSUME Boot!BootCacheAssumption PROVE Boot!Spec => []Boot!TypeOK
<1>a. Repolls \in Nat /\ MaxSignIns \in Nat
  BY DEF Boot!BootCacheAssumption
<1>b. \A page \in Boot!Page : Boot!At(page) \in Boot!TabState
  BY BootOpened
<1>1. Boot!Init => Boot!TypeOK
  <2> SUFFICES ASSUME Boot!Init PROVE Boot!TypeOK
    OBVIOUS
  <2>1. tab \in [Tab -> Boot!TabState]
    BY <1>b DEF Boot!Init, Boot!Page
  <2>2. cache \in [PageUser -> PageUser \cup {None}]
    BY DEF Boot!Init, Boot!Empty
  <2>3. signins \in 0..MaxSignIns
    BY <1>a DEF Boot!Init
  <2> QED BY <2>1, <2>2, <2>3 DEF Boot!Init, Boot!TypeOK
<1>2. Boot!TypeOK /\ [Boot!Next]_(Boot!vars) => Boot!TypeOK'
  <2> SUFFICES ASSUME Boot!TypeOK, [Boot!Next]_(Boot!vars) PROVE Boot!TypeOK'
    OBVIOUS
  <2> USE <1>a, <1>b DEF Boot!TypeOK, Boot!Page, Boot!visit, Boot!clearBootCaches, Boot!Empty
  <2>1. ASSUME NEW t \in Tab, NEW u \in PageUser, Boot!sign_in(t, u) PROVE Boot!TypeOK'
    BY <2>1 DEF Boot!sign_in, Boot!booting
  <2>2. ASSUME NEW t \in Tab, Boot!dashboard(t) PROVE Boot!TypeOK'
    <3>1. [Boot!At("dashboard") EXCEPT !.boot = "read", !.left = Repolls] \in Boot!TabState
      <4>1. Boot!At("dashboard") \in Boot!TabState
        OBVIOUS
      <4>2. Repolls \in 0..Repolls
        BY <1>a
      <4> QED BY <4>1, <4>2 DEF Boot!TabState, Boot!Boot
    <3> QED BY <2>2, <3>1 DEF Boot!dashboard
  <2>3. ASSUME NEW t \in Tab, Boot!settings(t) PROVE Boot!TypeOK'
    BY <2>3 DEF Boot!settings
  <2>4. ASSUME NEW t \in Tab, Boot!requireSession(t) PROVE Boot!TypeOK'
    BY <2>4 DEF Boot!requireSession, Boot!TabState
  <2>5. ASSUME NEW t \in Tab, Boot!expires(t) PROVE Boot!TypeOK'
    BY <2>5 DEF Boot!expires, Boot!TabState
  <2>6. ASSUME NEW t \in Tab, Boot!readBootCache(t) PROVE Boot!TypeOK'
    <3> DEFINE k == Boot!key_of(session)
               held == IF k = None THEN None ELSE cache[k]
    <3>1. k \in PageUser \cup {None} /\ held \in PageUser \cup {None}
      BY DEF Boot!key_of
    <3> HIDE DEF k, held
    <3>2. [tab[t] EXCEPT !.boot = "fetch", !.key = k, !.shown = held] \in Boot!TabState
      <4>1. tab[t] \in Boot!TabState
        OBVIOUS
      <4> QED BY <3>1, <4>1 DEF Boot!TabState, Boot!Boot
    <3>3. tab' = [tab EXCEPT ![t] = [tab[t] EXCEPT !.boot = "fetch", !.key = k,
                                                   !.shown = held]]
      BY <2>6 DEF Boot!readBootCache, k, held
    <3> QED BY <2>6, <3>2, <3>3 DEF Boot!readBootCache
  <2>7. ASSUME NEW t \in Tab, Boot!api(t) PROVE Boot!TypeOK'
    <3>1. CASE Boot!token(t) = None
      BY <2>7, <3>1 DEF Boot!api
    <3>2. CASE Boot!token(t) # None
      BY <2>7, <3>2 DEF Boot!api, Boot!token, Boot!TabState, Boot!Boot
    <3> QED BY <3>1, <3>2
  <2>8. ASSUME NEW t \in Tab, Boot!refused(t) PROVE Boot!TypeOK'
    BY <2>8 DEF Boot!refused
  <2>9. ASSUME NEW t \in Tab, Boot!fetchBootstrap(t) PROVE Boot!TypeOK'
    BY <2>9 DEF Boot!fetchBootstrap, Boot!TabState, Boot!Boot
  <2>10. ASSUME NEW t \in Tab, Boot!repoll(t) PROVE Boot!TypeOK'
    BY <2>10 DEF Boot!repoll, Boot!TabState, Boot!Boot
  <2>11. ASSUME NEW t \in Tab, Boot!signOut(t) PROVE Boot!TypeOK'
    <3>1. [tab[t] EXCEPT !.page = "leaving", !.token = None] \in Boot!TabState
      BY DEF Boot!TabState
    <3> QED BY <2>11, <3>1 DEF Boot!signOut
  <2>12. ASSUME NEW t \in Tab, Boot!signed_out(t) PROVE Boot!TypeOK'
    BY <2>12 DEF Boot!signed_out
  <2>13. ASSUME NEW t \in Tab, Boot!delete_yes(t) PROVE Boot!TypeOK'
    BY <2>13 DEF Boot!delete_yes, Boot!token, Boot!booting, Boot!TabState
  <2>14. CASE UNCHANGED Boot!vars
    BY <2>14 DEF Boot!vars
  <2> QED BY <2>1, <2>2, <2>3, <2>4, <2>5, <2>6, <2>7, <2>8, <2>9, <2>10, <2>11, <2>12,
             <2>13, <2>14 DEF Boot!Next
<1> QED BY <1>1, <1>2, PTL DEF Boot!Spec

-----------------------------------------------------------------------------
\* A page that boots does so in the session it was opened in: its token, its key and the
\* owner of its request are of that session.
BootBooted(t) ==
    LET b == tab[t] IN
    /\ b.boot # "idle" => session # None /\ b.token \in {None, session}
    /\ b.boot \in {"fetch", "asked", "timer"} => b.key = session
    /\ b.boot = "asked" => b.owner = session

\* ShownIsOwn is not inductive by itself: what a fetch stores and paints is its owner's.
BootOwn ==
    ~switched =>
        /\ \A t \in Tab : BootBooted(t) /\ tab[t].shown \in {None, tab[t].key}
        /\ \A u \in PageUser : cache[u] \in {None, u}

\* No page shows, and no key of the cache holds, the data of another user than its own,
\* unless the session changed under a page that was booting (the boot sequence against
\* signOut, the deletion of the account and sign-ins in other tabs).
THEOREM BootOwnData == ASSUME Boot!BootCacheAssumption PROVE Boot!Spec => []Boot!ShownIsOwn
<1>1. Boot!Init => BootOwn
  BY DEF Boot!Init, BootOwn, BootBooted, Boot!At, Boot!Empty
<1>2. Boot!TypeOK /\ BootOwn /\ [Boot!Next]_(Boot!vars) => BootOwn'
  <2> SUFFICES ASSUME Boot!TypeOK, BootOwn, [Boot!Next]_(Boot!vars) PROVE BootOwn'
    OBVIOUS
  <2> USE DEF Boot!TypeOK, Boot!TabState, BootOwn, BootBooted, Boot!visit, Boot!At, Boot!clearBootCaches, Boot!Empty
  <2>1. ASSUME NEW t \in Tab, NEW u \in PageUser, Boot!sign_in(t, u) PROVE BootOwn'
    BY <2>1 DEF Boot!sign_in, Boot!booting
  <2>2. ASSUME NEW t \in Tab, Boot!dashboard(t) PROVE BootOwn'
    BY <2>2 DEF Boot!dashboard
  <2>3. ASSUME NEW t \in Tab, Boot!settings(t) PROVE BootOwn'
    BY <2>3 DEF Boot!settings
  <2>4. ASSUME NEW t \in Tab, Boot!requireSession(t) PROVE BootOwn'
    BY <2>4 DEF Boot!requireSession
  <2>5. ASSUME NEW t \in Tab, Boot!expires(t) PROVE BootOwn'
    BY <2>5 DEF Boot!expires
  <2>6. ASSUME NEW t \in Tab, Boot!readBootCache(t) PROVE BootOwn'
    BY <2>6 DEF Boot!readBootCache, Boot!key_of
  <2>7. ASSUME NEW t \in Tab, Boot!api(t) PROVE BootOwn'
    BY <2>7 DEF Boot!api, Boot!token
  <2>8. ASSUME NEW t \in Tab, Boot!refused(t) PROVE BootOwn'
    BY <2>8 DEF Boot!refused
  <2>9. ASSUME NEW t \in Tab, Boot!fetchBootstrap(t) PROVE BootOwn'
    BY <2>9 DEF Boot!fetchBootstrap
  <2>10. ASSUME NEW t \in Tab, Boot!repoll(t) PROVE BootOwn'
    BY <2>10 DEF Boot!repoll
  <2>11. ASSUME NEW t \in Tab, Boot!signOut(t) PROVE BootOwn'
    BY <2>11 DEF Boot!signOut
  <2>12. ASSUME NEW t \in Tab, Boot!signed_out(t) PROVE BootOwn'
    BY <2>12 DEF Boot!signed_out
  <2>13. ASSUME NEW t \in Tab, Boot!delete_yes(t) PROVE BootOwn'
    BY <2>13 DEF Boot!delete_yes, Boot!booting
  <2>14. CASE UNCHANGED Boot!vars
    BY <2>14 DEF Boot!vars
  <2> QED BY <2>1, <2>2, <2>3, <2>4, <2>5, <2>6, <2>7, <2>8, <2>9, <2>10, <2>11, <2>12,
             <2>13, <2>14 DEF Boot!Next
<1>3. BootOwn => Boot!ShownIsOwn
  BY DEF BootOwn, Boot!ShownIsOwn
<1> QED BY <1>1, <1>2, <1>3, BootTypeCorrect, PTL DEF Boot!Spec

-----------------------------------------------------------------------------
\* ---- WebChat: one answer per question.

\* The variables keep their types.
THEOREM PanelTypeCorrect == ASSUME Panel!WebChatAssumption PROVE Panel!Spec => []Panel!TypeOK
<1>1. Panel!Init => Panel!TypeOK
  BY DEF Panel!Init, Panel!TypeOK, Panel!Request, Panel!Run
<1>2. Panel!TypeOK /\ [Panel!Next]_(Panel!vars) => Panel!TypeOK'
  <2> SUFFICES ASSUME Panel!TypeOK, [Panel!Next]_(Panel!vars) PROVE Panel!TypeOK'
    OBVIOUS
  <2> USE DEF Panel!TypeOK, Panel!Request, Panel!Run, Panel!becomes, Panel!says, Panel!WebChatAssumption
  <2>1. ASSUME NEW q \in Question, NEW n \in Try, Panel!chat(q, n) PROVE Panel!TypeOK'
    <3>1. slot' \in (Question \X Try) \cup {None}
      BY <2>1 DEF Panel!chat
    <3>2. run' \in [Question -> [Try -> Panel!Run]]
      BY <2>1 DEF Panel!chat
    <3>3. request' \in [Question -> [Try -> Panel!Request]]
      BY <2>1 DEF Panel!chat
    <3> QED BY <2>1, <3>1, <3>2, <3>3 DEF Panel!chat
  <2>2. ASSUME NEW q \in Question, NEW n \in Try, Panel!drive(q, n) PROVE Panel!TypeOK'
    BY <2>2 DEF Panel!drive, Panel!page_vars
  <2>3. ASSUME NEW q \in Question, Panel!sendChat(q) PROVE Panel!TypeOK'
    BY <2>3 DEF Panel!sendChat
  <2>4. ASSUME NEW q \in Question, NEW n \in Try, Panel!refused(q, n) PROVE Panel!TypeOK'
    BY <2>4 DEF Panel!refused
  <2>5. ASSUME NEW q \in Question, Panel!handleEvent(q) PROVE Panel!TypeOK'
    BY <2>5 DEF Panel!handleEvent, Panel!handles
  <2>6. ASSUME NEW q \in Question, Panel!last_event(q) PROVE Panel!TypeOK'
    BY <2>6 DEF Panel!last_event
  <2>7. ASSUME NEW q \in Question, Panel!sendChatFallback(q) PROVE Panel!TypeOK'
    BY <2>7 DEF Panel!sendChatFallback
  <2>8. ASSUME NEW q \in Question, Panel!lost(q) PROVE Panel!TypeOK'
    BY <2>8 DEF Panel!lost
  <2>9. ASSUME NEW q \in Question, Panel!fallback_answers(q) PROVE Panel!TypeOK'
    BY <2>9 DEF Panel!fallback_answers
  <2>10. ASSUME NEW q \in Question, Panel!breaks(q) PROVE Panel!TypeOK'
    BY <2>10 DEF Panel!breaks
  <2>11. CASE UNCHANGED Panel!vars
    BY <2>11 DEF Panel!vars, Panel!page_vars
  <2> QED BY <2>1, <2>2, <2>3, <2>4, <2>5, <2>6, <2>7, <2>8, <2>9, <2>10, <2>11
          DEF Panel!Next, Panel!page
<1> QED BY <1>1, <1>2, PTL DEF Panel!Spec

-----------------------------------------------------------------------------
\* A run is there only for a request that was sent, and a second request only for a stream
\* of which nothing came; what was seen came from a run; the slot's run is under way.
PanelSound(q) ==
    /\ bubble[q] = "none" => request[q][2] = "none"
    /\ run[q][2] # "none" => request[q][2] # "none"
    /\ request[q][2] # "none" => request[q][1] = "broken" /\ q \notin got
    /\ request[q][1] \in {"streaming", "cut"} => q \in got
    /\ q \in got => run[q][1] # "none"
    /\ bubble[q] = "lost" => q \in got
    /\ bubble[q] = "answer" => \E n \in Try : run[q][n] = "answered"
    /\ \A n \in Try : slot = <<q, n>> => run[q][n] = "running"

\* A question of whose stream the page saw an event is run, and billed, once; a page that
\* refers to the history left a run behind; an answer on it is of a run of the question
\* (sendChat with its fallback against the endpoints' slot).
THEOREM PanelOnce == ASSUME Panel!WebChatAssumption PROVE Panel!Spec => []Panel!AnsweredOnce
<1> DEFINE Inv == \A q \in Question : PanelSound(q)
<1>1. Panel!Init => Inv
  <2> SUFFICES ASSUME Panel!Init, NEW q \in Question PROVE PanelSound(q)
    OBVIOUS
  <2>1. \A n \in Try : slot # <<q, n>>
    BY DEF Panel!Init, Panel!WebChatAssumption
  <2>2. \A n \in Try : request[q][n] = "none" /\ run[q][n] = "none"
    BY DEF Panel!Init
  <2> QED BY <2>1, <2>2 DEF Panel!Init, PanelSound, Panel!WebChatAssumption
<1>2. Panel!TypeOK /\ Inv /\ [Panel!Next]_(Panel!vars) => Inv'
  <2> SUFFICES ASSUME Panel!TypeOK, Inv, [Panel!Next]_(Panel!vars), NEW p \in Question PROVE PanelSound(p)'
    OBVIOUS
  <2> USE DEF Panel!TypeOK, Panel!becomes, Panel!says, Panel!WebChatAssumption, PanelSound
  <2>1. ASSUME NEW q \in Question, NEW n \in Try, Panel!chat(q, n) PROVE PanelSound(p)'
    BY <2>1 DEF Panel!chat
  <2>2. ASSUME NEW q \in Question, NEW n \in Try, Panel!drive(q, n) PROVE PanelSound(p)'
    BY <2>2 DEF Panel!drive, Panel!page_vars
  <2>3. ASSUME NEW q \in Question, Panel!sendChat(q) PROVE PanelSound(p)'
    BY <2>3 DEF Panel!sendChat
  <2>4. ASSUME NEW q \in Question, NEW n \in Try, Panel!refused(q, n) PROVE PanelSound(p)'
    BY <2>4 DEF Panel!refused
  <2>5. ASSUME NEW q \in Question, Panel!handleEvent(q) PROVE PanelSound(p)'
    BY <2>5 DEF Panel!handleEvent, Panel!handles
  <2>6. ASSUME NEW q \in Question, Panel!last_event(q) PROVE PanelSound(p)'
    BY <2>6 DEF Panel!last_event
  <2>7. ASSUME NEW q \in Question, Panel!sendChatFallback(q) PROVE PanelSound(p)'
    BY <2>7 DEF Panel!sendChatFallback
  <2>8. ASSUME NEW q \in Question, Panel!lost(q) PROVE PanelSound(p)'
    BY <2>8 DEF Panel!lost
  <2>9. ASSUME NEW q \in Question, Panel!fallback_answers(q) PROVE PanelSound(p)'
    BY <2>9 DEF Panel!fallback_answers
  <2>10. ASSUME NEW q \in Question, Panel!breaks(q) PROVE PanelSound(p)'
    BY <2>10 DEF Panel!breaks
  <2>11. CASE UNCHANGED Panel!vars
    BY <2>11 DEF Panel!vars, Panel!page_vars
  <2> QED BY <2>1, <2>2, <2>3, <2>4, <2>5, <2>6, <2>7, <2>8, <2>9, <2>10, <2>11
          DEF Panel!Next, Panel!page
<1>3. Panel!TypeOK /\ Inv => Panel!AnsweredOnce
  <2> SUFFICES ASSUME Panel!TypeOK, Inv, NEW q \in Question, request[q][1] \in {"streaming", "cut"}
               PROVE Panel!Runs(q) = {1}
    BY DEF Panel!AnsweredOnce, PanelSound
  <2>1. run[q][1] # "none" /\ run[q][2] = "none"
    BY DEF PanelSound
  <2> QED BY <2>1 DEF Panel!Runs, Panel!WebChatAssumption
<1> QED BY <1>1, <1>2, <1>3, PanelTypeCorrect, PTL DEF Panel!Spec

-----------------------------------------------------------------------------
\* ---- Views: the search box and the chart.

\* The requests under way are numbered, none higher than the last one made.
ViewNumbered ==
    /\ seq \in Nat
    /\ \A r \in asked : r \in [n : Nat, of : Value] /\ r.n <= seq
    /\ \A r, q \in asked : r.n = q.n => r = q

\* The input is settled: no request is due for it.
ViewQuiet == ~typing /\ chosen # "short"

\* The last request, while it is under way, is for the input as it is; once it is not, the
\* view shows its data, nothing or an error; and a search box without focus shows nothing.
ViewCurrent ==
    /\ view \in {"search", "chart"} /\ (view = "chart" => ~typing)
    /\ typing => chosen \in Value
    /\ ViewQuiet => \A r \in asked : r.n = seq => r.of = chosen
    /\ ViewQuiet /\ ~late => \/ \E r \in asked : r.n = seq
                             \/ shown \in {chosen, "nothing", "error"}
    /\ view = "search" /\ ~focused => shown = "nothing"

\* When nothing is under way a search box and a chart show what was chosen last, in whatever
\* order the answers came, but for the cases that LatestShown names (search with its counter
\* and its focus, loadChart with its comparison of ranges).
THEOREM ViewLatest == ASSUME View!ViewsAssumption PROVE View!Spec => []View!LatestShown
<1> DEFINE Inv == ViewNumbered /\ ViewCurrent
<1>1. View!Init => Inv
  BY DEF View!Init, ViewNumbered, ViewCurrent, ViewQuiet, View!ViewsAssumption
<1>2. Inv /\ [View!Next]_(View!vars) => Inv'
  <2> SUFFICES ASSUME Inv, [View!Next]_(View!vars) PROVE Inv'
    OBVIOUS
  <2>1. ASSUME NEW v \in Value, View!input(v) PROVE Inv'
    BY <2>1 DEF View!input, View!choose, ViewNumbered, ViewCurrent, ViewQuiet
  <2>2. CASE View!input_short
    BY <2>2 DEF View!input_short, View!choose, ViewNumbered, ViewCurrent, ViewQuiet
  <2>3. CASE View!blur
    BY <2>3 DEF View!blur, ViewNumbered, ViewCurrent, ViewQuiet
  <2>4. CASE View!search
    <3>1. seq' = seq + 1 /\ seq' \in Nat /\ seq' # seq
      BY <2>4 DEF View!search, View!ask, ViewNumbered
    <3> DEFINE last == [n |-> seq', of |-> chosen']
    <3>2. asked' = asked \cup {last} /\ last \in [n : Nat, of : Value] /\ last.n = seq' /\ last.of = chosen'
      BY <2>4, <3>1 DEF View!search, View!ask, ViewCurrent
    <3> HIDE DEF last
    <3>3. \A r \in asked : r.n \in Nat /\ r.n < seq'
      BY <3>1 DEF ViewNumbered
    <3>4. \A r \in asked' : r.n = seq' => r = last
      BY <3>2, <3>3
    <3>5. ViewNumbered'
      BY <3>1, <3>2, <3>3, <3>4 DEF ViewNumbered
    <3>6. ViewCurrent'
      BY <2>4, <3>2, <3>4 DEF View!search, View!ask, ViewCurrent, ViewQuiet
    <3> QED BY <3>5, <3>6
  <2>5. ASSUME NEW v \in Value, View!loadChart(v) PROVE Inv'
    <3>1. seq' = seq + 1 /\ seq' \in Nat /\ seq' # seq
      BY <2>5 DEF View!loadChart, View!ask, View!choose, ViewNumbered
    <3> DEFINE last == [n |-> seq', of |-> chosen']
    <3>2. asked' = asked \cup {last} /\ last \in [n : Nat, of : Value] /\ last.n = seq' /\ last.of = chosen'
      BY <2>5, <3>1 DEF View!loadChart, View!ask, View!choose, ViewCurrent
    <3> HIDE DEF last
    <3>3. \A r \in asked : r.n \in Nat /\ r.n < seq'
      BY <3>1 DEF ViewNumbered
    <3>4. \A r \in asked' : r.n = seq' => r = last
      BY <3>2, <3>3
    <3>5. ViewNumbered'
      BY <3>1, <3>2, <3>3, <3>4 DEF ViewNumbered
    <3>6. ViewCurrent'
      BY <2>5, <3>2, <3>4 DEF View!loadChart, View!ask, View!choose, ViewCurrent, ViewQuiet
    <3> QED BY <3>5, <3>6
  <2>6. ASSUME NEW r \in asked, View!answer(r) PROVE Inv'
    BY <2>6 DEF View!answer, View!renders, View!is_latest, View!is_wanted, ViewNumbered,
       ViewCurrent, ViewQuiet
  <2>7. ASSUME NEW r \in asked, View!fails(r) PROVE Inv'
    BY <2>7 DEF View!fails, ViewNumbered, ViewCurrent, ViewQuiet
  <2>8. CASE UNCHANGED View!vars
    BY <2>8 DEF View!vars, ViewNumbered, ViewCurrent, ViewQuiet
  <2> QED BY <2>1, <2>2, <2>3, <2>4, <2>5, <2>6, <2>7, <2>8 DEF View!Next
<1>3. Inv => View!LatestShown
  BY DEF ViewCurrent, ViewQuiet, View!LatestShown
<1> QED BY <1>1, <1>2, <1>3, PTL DEF View!Spec

-----------------------------------------------------------------------------
(***************************************************************************)
(* The components side by side                                             *)
(***************************************************************************)

\* Every behaviour of the run is one of the boot cache, of the chat panel and of the
\* views, up to steps that change nothing of theirs.
LEMMA SumImplements == SumSpec => Boot!Spec /\ Panel!Spec /\ View!Spec
<1>1. SumInit => Boot!Init /\ Panel!Init /\ View!Init
  BY DEF SumInit
<1>2. [SumNext]_all => [Boot!Next]_(Boot!vars)
  BY DEF SumNext, all, boot_vars, inputs_vars, brief_vars, setup_vars, panel_vars, Boot!vars
<1>3. [SumNext]_all => [Panel!Next]_(Panel!vars)
  BY DEF SumNext, all, boot_vars, inputs_vars, brief_vars, setup_vars, panel_vars,
         Panel!vars, Panel!page_vars
<1>4. [SumNext]_all => [View!Next]_(View!vars)
  BY DEF SumNext, all, boot_vars, inputs_vars, brief_vars, setup_vars, panel_vars, View!vars
<1> QED BY <1>1, <1>2, <1>3, <1>4, PTL DEF SumSpec, Boot!Spec, Panel!Spec, View!Spec

\* Through sign-outs, deletions of the account and switches of user in other tabs, a page
\* shows and stores the data of its own user only (portfolioBoot and its cache).
THEOREM OwnDataShown == SumSpec => []ShownIsOwn
BY SumImplements, BootOwnData, PartsAssumption, PTL DEF ShownIsOwn

\* A question is run a second time only when nothing of the first stream was seen
\* (the panel's fallback from /chat/stream to /chat).
THEOREM RunOnce == SumSpec => []AnsweredOnce
BY SumImplements, PanelOnce, PartsAssumption, PTL DEF AnsweredOnce

\* In whatever order the answers arrive, a search box and a chart end up with what was
\* chosen last, but for the cases that LatestShown names (the pages' sequence numbers).
THEOREM LatestWins == SumSpec => []LatestShown
BY SumImplements, ViewLatest, PartsAssumption, PTL DEF LatestShown
=============================================================================
