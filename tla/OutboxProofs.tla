---------------------------- MODULE OutboxProofs ----------------------------
(***************************************************************************)
(* Theorems about Outbox, for every number of rows, users, workers and     *)
(* retries.  The safety theorems assume Exclusive: there is one dispatcher *)
(* or every tick ends within its lease.                                    *)
(***************************************************************************)
EXTENDS Outbox, TLAPS

Exclusive == LeaseHolds \/ \A v, w \in Worker : v = w

-----------------------------------------------------------------------------
\* A retry is at least one tick away.
LEMMA RetryDelayType ==
    ASSUME NEW n \in Nat PROVE retry_delay(n) \in Nat \ {0}
  BY BackoffAssumption DEF retry_delay

\* What record_send_result leaves of a claimed row is a row.
LEMMA RecordedType ==
    ASSUME NEW r \in Row, NEW o \in Outcome \cup {None}, NEW delay \in Nat
    PROVE  Recorded(r, o, delay) \in Row
<1> DEFINE tried == [r EXCEPT !.attempts = @ + 1]
<1>1. tried \in Row /\ tried.attempts \in Nat
  BY DEF Row
<1>2. /\ [tried EXCEPT !.status = "sent"] \in Row
      /\ [tried EXCEPT !.status = "failed"] \in Row
      /\ [tried EXCEPT !.status = "queued", !.wait = delay] \in Row
  BY <1>1 DEF Row, Status
<1> QED BY <1>2 DEF Recorded, Tried, Spent

\* What enqueue_outbound writes is a row.
LEMMA NewRowType ==
    ASSUME NEW u \in User, NEW s \in Status, NEW c \in Channel \cup {None},
           NEW d \in Dest \cup {None}
    PROVE  NewRow(u, s, c, d) \in Row
  BY DEF NewRow, Row

\* Every field of every variable keeps its type.
THEOREM TypeCorrect == Spec => []TypeOK
<1>1. Init => TypeOK
  BY BoundsAssumption DEF Init, TypeOK, NoRow, Row, Status, Hist
<1>2. TypeOK /\ [Next]_vars => TypeOK'
  <2> SUFFICES ASSUME TypeOK, [Next]_vars PROVE TypeOK'
    OBVIOUS
  <2>1. CASE Enqueue
    <3> PICK u \in User, first \in Absent, S \in SUBSET Absent :
             \E primary \in Resolution(u), push \in Injections(S, Dest) :
                enqueue_outbound(u, primary, first, push)
      BY <2>1 DEF Enqueue
    <3> PICK primary \in Resolution(u), push \in Injections(S, Dest) :
                enqueue_outbound(u, primary, first, push)
      OBVIOUS
    <3>1. primary \in Row
      BY NewRowType DEF Resolution, Status
    <3>2. \A m \in DOMAIN push : NewRow(u, "queued", "push", push[m]) \in Row
      BY NewRowType, ChannelAssumption DEF Injections, Status
    <3>3. row' \in [Msg -> Row]
      BY <3>1, <3>2 DEF enqueue_outbound, TypeOK
    <3> QED BY <3>3 DEF enqueue_outbound, TypeOK
  <2>2. ASSUME NEW w \in Worker, claim_due_outbound(w) PROVE TypeOK'
    <3> PICK claimed \in Oldest(Due) :
          /\ row' = [m \in Msg |->
                       IF m \in claimed THEN [row[m] EXCEPT !.wait = Lease]
                       ELSE row[m]]
          /\ batch' = [batch EXCEPT ![w] = claimed]
          /\ seen' = [seen EXCEPT ![w] =
                        [m \in Msg |-> IF m \in claimed THEN row[m].attempts ELSE 0]]
      BY <2>2 DEF claim_due_outbound
    <3>1. claimed \in SUBSET Msg
      BY DEF Oldest, Due
    <3>2. row' \in [Msg -> Row]
      BY BoundsAssumption DEF TypeOK, Row
    <3>3. seen' \in [Worker -> [Msg -> Nat]]
      BY DEF TypeOK, Row
    <3> QED BY <2>2, <3>1, <3>2, <3>3 DEF claim_due_outbound, TypeOK
  <2>3. ASSUME NEW w \in Worker, NEW r \in Outcome, NEW accepted \in BOOLEAN,
               send(w, r, accepted)
        PROVE TypeOK'
    <3> PICK m \in Msg :
          /\ Next_in(w, m)
          /\ sending' = [sending EXCEPT ![w] = m]
          /\ outcome' = [outcome EXCEPT ![w] = r]
          /\ hist' = [hist EXCEPT
                        ![m].tries = @ + 1,
                        ![m].accepted = IF accepted THEN @ + 1 ELSE @,
                        ![m].ambiguous = IF accepted /\ r # "ok" THEN @ + 1 ELSE @]
      BY <2>3 DEF send
    <3>1. hist[m] \in Hist
      BY DEF TypeOK
    <3> DEFINE taken == IF accepted THEN hist[m].accepted + 1 ELSE hist[m].accepted
               unclear == IF accepted /\ r # "ok" THEN hist[m].ambiguous + 1
                          ELSE hist[m].ambiguous
               h == [hist[m] EXCEPT !.tries = @ + 1, !.accepted = taken,
                                    !.ambiguous = unclear]
    <3>2. h \in Hist
      <4>1. taken \in Nat /\ unclear \in Nat /\ hist[m].tries + 1 \in Nat
        BY <3>1 DEF Hist
      <4> HIDE DEF taken, unclear
      <4> QED BY <3>1, <4>1 DEF Hist
    <3>3. hist' \in [Msg -> Hist]
      BY <3>2 DEF TypeOK
    <3> QED BY <2>3, <3>3 DEF send, TypeOK
  <2>4. ASSUME NEW w \in Worker, record_send_result(w) PROVE TypeOK'
    <3> DEFINE m == sending[w]
    <3>1. m \in Msg /\ row[m] \in Row /\ seen[w][m] + 1 \in Nat
      BY <2>4 DEF record_send_result, TypeOK
    <3>2. Recorded(row[m], outcome[w], retry_delay(seen[w][m] + 1)) \in Row
      <4>1. retry_delay(seen[w][m] + 1) \in Nat
        BY <3>1, RetryDelayType
      <4> QED BY <3>1, <4>1, RecordedType, <2>4 DEF TypeOK
    <3>3. row' \in [Msg -> Row]
      BY <2>4, <3>1, <3>2 DEF record_send_result, TypeOK
    <3> QED BY <2>4, <3>1, <3>3 DEF record_send_result, advance, TypeOK
  <2>5. ASSUME NEW w \in Worker, record_unconfigured(w) PROVE TypeOK'
    <3> PICK m \in Msg : /\ row' = [row EXCEPT ![m] = Recorded(@, "permanent", 0)]
                         /\ advance(w, m)
      BY <2>5 DEF record_unconfigured
    <3>1. row' \in [Msg -> Row]
      BY RecordedType DEF TypeOK, Outcome
    <3> QED BY <2>5, <3>1 DEF record_unconfigured, advance, TypeOK
  <2>6. ASSUME NEW w \in Worker, abort(w) PROVE TypeOK'
    <3>0. \A m \in Msg : [hist[m] EXCEPT !.aborted = @ + 1] \in Hist
      BY DEF TypeOK, Hist
    <3>1. hist' \in [Msg -> Hist]
      BY <2>6, <3>0 DEF abort, TypeOK
    <3>2. aborts' \in 0..MaxAborts
      BY <2>6, BoundsAssumption DEF abort, TypeOK
    <3> QED BY <2>6, <3>1, <3>2 DEF abort, TypeOK
  <2>7. ASSUME NEW u \in User, delete_user_data(u) PROVE TypeOK'
    <3>0. \A m \in Msg : [row[m] EXCEPT !.status = "gone"] \in Row
      <4>1. ASSUME NEW r \in Row PROVE [r EXCEPT !.status = "gone"] \in Row
        BY DEF Row, Status
      <4>2. \A m \in Msg : row[m] \in Row
        BY DEF TypeOK
      <4> QED BY <4>1, <4>2
    <3>1. row' \in [Msg -> Row]
      BY <2>7, <3>0 DEF delete_user_data, TypeOK
    <3> QED BY <2>7, <3>1 DEF delete_user_data, TypeOK
  <2>8. CASE elapse
    <3>0. \A m \in Msg : row[m].wait > 0 => [row[m] EXCEPT !.wait = @ - 1] \in Row
      <4> SUFFICES ASSUME NEW m \in Msg, row[m].wait > 0
                   PROVE  [row[m] EXCEPT !.wait = @ - 1] \in Row
        OBVIOUS
      <4>1. row[m] \in Row
        BY DEF TypeOK
      <4>2. row[m].wait - 1 \in Nat
        BY <4>1 DEF Row
      <4> QED BY <4>1, <4>2 DEF Row
    <3>1. row' \in [Msg -> Row]
      BY <2>8, <3>0 DEF elapse, TypeOK
    <3> QED BY <2>8, <3>1 DEF elapse, TypeOK
  <2>9. CASE UNCHANGED vars
    BY <2>9 DEF vars, TypeOK
  <2> QED BY <2>1, <2>2, <2>3, <2>4, <2>5, <2>6, <2>7, <2>8, <2>9 DEF Next, tick
<1> QED BY <1>1, <1>2, PTL DEF Spec

-----------------------------------------------------------------------------
\* A row in a batch is still queued, or its user is gone; no other tick can
\* claim it, because a single dispatcher claims only when it is idle, and
\* otherwise the row's lease still runs.
Claimed ==
    \A w \in Worker : \A m \in batch[w] :
       /\ row[m].status \in {"queued", "gone"}
       /\ LeaseHolds => row[m].wait > 0

\* The provider call in progress is for a row of the tick's own batch.
Calling ==
    \A w \in Worker : sending[w] # None =>
       sending[w] \in batch[w] /\ outcome[w] \in Outcome

IInv == TypeOK /\ Claimed /\ WorkersDisjoint /\ Calling

\* The status a recorded result gives a row that was queued or gone.
LEMMA RecordedStatus ==
    ASSUME NEW r \in Row, NEW o \in Outcome, NEW delay \in Nat,
           r.status \in {"queued", "gone"}
    PROVE  /\ r.status = "gone" => Recorded(r, o, delay) = r
           /\ r.status = "queued" /\ o = "ok" =>
                 Recorded(r, o, delay).status = "sent"
           /\ r.status = "queued" /\ o # "ok" =>
                 Recorded(r, o, delay).status \in {"queued", "failed"}
  BY DEF Recorded, Tried, Spent, Row

\* No tick ends, starts or takes a row in a way that lets two batches meet.
LEMMA IInvInductive ==
    ASSUME Exclusive PROVE IInv /\ TypeOK' /\ [Next]_vars => IInv'
<1> SUFFICES ASSUME IInv, TypeOK', [Next]_vars
             PROVE  Claimed' /\ WorkersDisjoint' /\ Calling'
  BY DEF IInv
<1> USE DEF IInv
<1>1. CASE Enqueue
  <2> PICK u \in User, first \in Absent, S \in SUBSET Absent :
             \E primary \in Resolution(u), push \in Injections(S, Dest) :
                enqueue_outbound(u, primary, first, push)
    BY <1>1 DEF Enqueue
  <2> PICK primary \in Resolution(u), push \in Injections(S, Dest) :
                enqueue_outbound(u, primary, first, push)
    OBVIOUS
  <2>1. \A m \in Msg : row[m].status # "absent" => row'[m] = row[m]
    BY DEF enqueue_outbound, Absent
  <2>2. Claimed'
    BY <2>1 DEF Claimed, enqueue_outbound, TypeOK
  <2> QED BY <2>2 DEF WorkersDisjoint, Calling, enqueue_outbound
<1>2. ASSUME NEW w \in Worker, claim_due_outbound(w)
      PROVE  Claimed' /\ WorkersDisjoint' /\ Calling'
  <2> PICK claimed \in Oldest(Due) :
          /\ row' = [m \in Msg |->
                       IF m \in claimed THEN [row[m] EXCEPT !.wait = Lease]
                       ELSE row[m]]
          /\ batch' = [batch EXCEPT ![w] = claimed]
    BY <1>2 DEF claim_due_outbound
  <2>1. claimed \subseteq Due /\ Due \subseteq Msg
    BY DEF Oldest, Due
  <2>2. \A m \in claimed : row'[m].status = "queued" /\ row'[m].wait > 0
    BY <2>1, BoundsAssumption DEF Due, TypeOK, Row
  <2>3. \A m \in Msg : row'[m].status = row[m].status
    BY DEF TypeOK, Row
  <2>4. \A m \in Msg : m \notin claimed => row'[m] = row[m]
    OBVIOUS
  <2>5. \A v \in Worker : v # w => batch[v] \cap claimed = {}
    <3> SUFFICES ASSUME NEW v \in Worker, v # w, NEW m \in batch[v], m \in claimed
                 PROVE  FALSE
      OBVIOUS
    <3>1. LeaseHolds
      BY DEF Exclusive
    <3> QED BY <3>1, <2>1 DEF Claimed, Due, TypeOK, Row
  <2>6. Claimed'
    BY <2>2, <2>4, <2>5 DEF Claimed, TypeOK
  <2>7. WorkersDisjoint'
    BY <2>5 DEF WorkersDisjoint, TypeOK
  <2>8. Calling'
    BY <1>2 DEF Calling, claim_due_outbound, Idle, TypeOK
  <2> QED BY <2>6, <2>7, <2>8
<1>3. ASSUME NEW w \in Worker, NEW r \in Outcome, NEW accepted \in BOOLEAN,
             send(w, r, accepted)
      PROVE  Claimed' /\ WorkersDisjoint' /\ Calling'
  BY <1>3 DEF send, Next_in, Claimed, WorkersDisjoint, Calling, TypeOK
<1>4. ASSUME NEW w \in Worker, record_send_result(w)
      PROVE  Claimed' /\ WorkersDisjoint' /\ Calling'
  <2> DEFINE m == sending[w]
  <2>1. m \in batch[w] /\ m \in Msg /\ batch' = [batch EXCEPT ![w] = @ \ {m}]
    BY <1>4 DEF record_send_result, advance, Calling, TypeOK
  <2>2. \A n \in Msg : n # m => row'[n] = row[n]
    BY <1>4 DEF record_send_result, TypeOK
  <2>3. Claimed'
    BY <2>1, <2>2 DEF Claimed, WorkersDisjoint, TypeOK
  <2>4. WorkersDisjoint'
    BY <2>1 DEF WorkersDisjoint, TypeOK
  <2>5. Calling'
    BY <1>4, <2>1 DEF record_send_result, Calling, WorkersDisjoint, TypeOK
  <2> QED BY <2>3, <2>4, <2>5
<1>5. ASSUME NEW w \in Worker, record_unconfigured(w)
      PROVE  Claimed' /\ WorkersDisjoint' /\ Calling'
  <2> PICK m \in Msg : /\ Next_in(w, m)
                       /\ row' = [row EXCEPT ![m] = Recorded(@, "permanent", 0)]
                       /\ batch' = [batch EXCEPT ![w] = @ \ {m}]
    BY <1>5 DEF record_unconfigured, advance
  <2>1. \A n \in Msg : n # m => row'[n] = row[n]
    BY DEF TypeOK
  <2>2. Claimed'
    BY <2>1 DEF Claimed, WorkersDisjoint, TypeOK, Next_in
  <2>3. WorkersDisjoint'
    BY DEF WorkersDisjoint, TypeOK
  <2>4. Calling'
    BY <1>5 DEF record_unconfigured, Calling, WorkersDisjoint, TypeOK, Next_in
  <2> QED BY <2>2, <2>3, <2>4
<1>6. ASSUME NEW w \in Worker, abort(w)
      PROVE  Claimed' /\ WorkersDisjoint' /\ Calling'
  BY <1>6 DEF abort, Claimed, WorkersDisjoint, Calling, TypeOK
<1>7. ASSUME NEW u \in User, delete_user_data(u)
      PROVE  Claimed' /\ WorkersDisjoint' /\ Calling'
  <2>1. \A m \in Msg : /\ row'[m].wait = row[m].wait
                        /\ row'[m].status \in {row[m].status, "gone"}
    BY <1>7 DEF delete_user_data, TypeOK, Row
  <2>2. UNCHANGED <<batch, sending, outcome>>
    BY <1>7 DEF delete_user_data
  <2>3. Claimed'
    BY <2>1, <2>2 DEF Claimed, TypeOK
  <2> QED BY <2>2, <2>3 DEF WorkersDisjoint, Calling
<1>8. CASE elapse
  <2>1. \A m \in Msg : row'[m].status = row[m].status
    BY <1>8 DEF elapse, TypeOK, Row
  <2>2. ASSUME NEW w \in Worker, NEW m \in batch[w], LeaseHolds
        PROVE  row'[m].wait > 0
    <3>1. m \in Msg /\ row[m] \in Row /\ row[m].wait > 0 /\ row[m].wait # 1
      BY <1>8, <2>2 DEF elapse, Claimed, TypeOK
    <3>2. row'[m] = [row[m] EXCEPT !.wait = @ - 1]
      BY <1>8, <3>1 DEF elapse
    <3> QED BY <3>1, <3>2 DEF Row
  <2>3. UNCHANGED <<batch, sending, outcome>>
    BY <1>8 DEF elapse
  <2>4. Claimed'
    BY <2>1, <2>2, <2>3 DEF Claimed, TypeOK
  <2> QED BY <2>3, <2>4 DEF WorkersDisjoint, Calling
<1>9. CASE UNCHANGED vars
  BY <1>9 DEF vars, Claimed, WorkersDisjoint, Calling
<1> QED BY <1>1, <1>2, <1>3, <1>4, <1>5, <1>6, <1>7, <1>8, <1>9 DEF Next, tick

\* Exclusive batches in every reachable state.
LEMMA Invariance == ASSUME Exclusive PROVE Spec => []IInv
<1>1. Init => IInv
  <2>1. Init => TypeOK
    BY BoundsAssumption DEF Init, TypeOK, NoRow, Row, Status, Hist
  <2> QED BY <2>1 DEF Init, IInv, Claimed, WorkersDisjoint, Calling
<1> QED BY <1>1, IInvInductive, TypeCorrect, PTL DEF Spec

\* Batches of different ticks never share a row, for one dispatcher or for
\* ticks that end within their lease.
THEOREM Disjointness == ASSUME Exclusive PROVE Spec => []WorkersDisjoint
  BY Invariance, PTL DEF IInv

-----------------------------------------------------------------------------
\* How one step may change the status of a row: a new row appears, a queued
\* row is settled by the result of a call, or its user is deleted.
LEMMA StatusStep ==
    ASSUME IInv, [Next]_vars, NEW m \in Msg
    PROVE  \/ row'[m].status \in {row[m].status, "gone"}
           \/ row[m].status = "absent"
           \/ row[m].status = "queued" /\ row'[m].status \in {"sent", "failed"}
<1> USE DEF IInv
<1>1. CASE Enqueue
  BY <1>1 DEF Enqueue, enqueue_outbound, Absent
<1>2. ASSUME NEW w \in Worker, claim_due_outbound(w)
      PROVE  row'[m].status = row[m].status
  BY <1>2 DEF claim_due_outbound, TypeOK, Row
<1>3. ASSUME NEW w \in Worker, NEW r \in Outcome, NEW accepted \in BOOLEAN,
             send(w, r, accepted)
      PROVE  row'[m] = row[m]
  BY <1>3 DEF send
<1>4. ASSUME NEW w \in Worker, record_send_result(w)
      PROVE  \/ row'[m].status = row[m].status
             \/ row[m].status = "queued" /\ row'[m].status \in {"sent", "failed"}
  <2> DEFINE n == sending[w]
  <2>1. n \in Msg /\ row[n] \in Row /\ row[n].status \in {"queued", "gone"}
        /\ outcome[w] \in Outcome /\ seen[w][n] + 1 \in Nat
    BY <1>4 DEF record_send_result, Calling, Claimed, TypeOK
  <2>2. retry_delay(seen[w][n] + 1) \in Nat
    BY <2>1, RetryDelayType
  <2>3. row' = [row EXCEPT ![n] =
                  Recorded(row[n], outcome[w], retry_delay(seen[w][n] + 1))]
    BY <1>4 DEF record_send_result
  <2> QED BY <2>1, <2>2, <2>3, RecordedStatus DEF TypeOK
<1>5. ASSUME NEW w \in Worker, record_unconfigured(w)
      PROVE  \/ row'[m].status = row[m].status
             \/ row[m].status = "queued" /\ row'[m].status \in {"sent", "failed"}
  <2> PICK n \in Msg : /\ Next_in(w, n)
                       /\ row' = [row EXCEPT ![n] = Recorded(row[n], "permanent", 0)]
    BY <1>5 DEF record_unconfigured
  <2>1. row[n] \in Row /\ row[n].status \in {"queued", "gone"}
    BY DEF Next_in, Claimed, TypeOK
  <2> QED BY <2>1, RecordedStatus DEF TypeOK, Outcome
<1>6. ASSUME NEW w \in Worker, abort(w) PROVE row'[m] = row[m]
  BY <1>6 DEF abort
<1>7. ASSUME NEW u \in User, delete_user_data(u)
      PROVE  row'[m].status \in {row[m].status, "gone"}
  BY <1>7 DEF delete_user_data, TypeOK, Row
<1>8. CASE elapse
  BY <1>8 DEF elapse, TypeOK, Row
<1>9. CASE UNCHANGED vars
  BY <1>9 DEF vars
<1> QED BY <1>1, <1>2, <1>3, <1>4, <1>5, <1>6, <1>7, <1>8, <1>9 DEF Next, tick

\* A settled row stays as it is until its user is deleted, although
\* record_send_result overwrites whatever status it finds.
THEOREM Finality == ASSUME Exclusive PROVE Spec => SettledIsFinal
<1>1. IInv /\ [Next]_vars =>
        [\A m \in Msg : row[m].status \in Settled =>
           row'[m].status \in {row[m].status, "gone"}]_vars
  BY StatusStep DEF Settled
<1> QED BY <1>1, Invariance, PTL DEF Spec, SettledIsFinal

-----------------------------------------------------------------------------
\* A row is reported sent, or about to be, only if a provider took it.
Honest ==
    /\ \A m \in Msg : row[m].status = "sent" => hist[m].accepted > 0
    /\ \A w \in Worker : sending[w] # None /\ outcome[w] = "ok" =>
          hist[sending[w]].accepted > 0

\* Provider counts never fall.
LEMMA AcceptedGrows ==
    ASSUME TypeOK, [Next]_vars, NEW m \in Msg
    PROVE  hist[m].accepted > 0 => hist'[m].accepted > 0
<1>1. ASSUME NEW w \in Worker, NEW r \in Outcome, NEW accepted \in BOOLEAN,
             send(w, r, accepted)
      PROVE  hist[m].accepted > 0 => hist'[m].accepted > 0
  <2> PICK n \in Msg : hist' = [hist EXCEPT
                        ![n].tries = @ + 1,
                        ![n].accepted = IF accepted THEN @ + 1 ELSE @,
                        ![n].ambiguous = IF accepted /\ r # "ok" THEN @ + 1 ELSE @]
    BY <1>1 DEF send
  <2>1. hist[m].accepted \in Nat
    BY DEF TypeOK, Hist
  <2>2. hist'[m].accepted \in {hist[m].accepted, hist[m].accepted + 1}
    BY DEF TypeOK, Hist
  <2> QED BY <2>1, <2>2
<1>2. ASSUME NEW w \in Worker, abort(w)
      PROVE  hist'[m].accepted = hist[m].accepted
  BY <1>2 DEF abort, TypeOK, Hist
<1>3. CASE UNCHANGED hist
  BY <1>3
<1> QED BY <1>1, <1>2, <1>3 DEF Next, tick, Enqueue, enqueue_outbound, vars, elapse,
       claim_due_outbound, record_send_result, record_unconfigured, delete_user_data

\* A row becomes sent only by the result of a call that was accepted.
LEMMA HonestInductive ==
    ASSUME IInv, IInv', Honest, [Next]_vars PROVE Honest'
<1> USE DEF IInv
<1>1. ASSUME NEW m \in Msg, row[m].status = "sent" PROVE hist'[m].accepted > 0
  BY <1>1, AcceptedGrows DEF Honest
<1>2. ASSUME NEW w \in Worker, sending'[w] = sending[w], outcome'[w] = outcome[w],
             sending'[w] # None, outcome'[w] = "ok"
      PROVE  hist'[sending'[w]].accepted > 0
  BY <1>2, AcceptedGrows DEF Honest, TypeOK
<1>3. CASE Enqueue
  <2>1. \A m \in Msg : row'[m].status = "sent" => row[m].status = "sent"
    BY <1>3 DEF Enqueue, enqueue_outbound, Resolution, NewRow, Absent
  <2> QED BY <1>1, <1>2, <1>3, <2>1 DEF Enqueue, enqueue_outbound, Honest
<1>4. ASSUME NEW w \in Worker, claim_due_outbound(w) PROVE Honest'
  <2>1. \A m \in Msg : row'[m].status = row[m].status
    BY <1>4 DEF claim_due_outbound, TypeOK, Row
  <2> QED BY <1>1, <1>2, <1>4, <2>1 DEF claim_due_outbound, Honest
<1>5. ASSUME NEW w \in Worker, NEW r \in Outcome, NEW accepted \in BOOLEAN,
             send(w, r, accepted)
      PROVE  Honest'
  <2> PICK m \in Msg : /\ sending' = [sending EXCEPT ![w] = m]
                       /\ outcome' = [outcome EXCEPT ![w] = r]
                       /\ hist' = [hist EXCEPT
                        ![m].tries = @ + 1,
                        ![m].accepted = IF accepted THEN @ + 1 ELSE @,
                        ![m].ambiguous = IF accepted /\ r # "ok" THEN @ + 1 ELSE @]
    BY <1>5 DEF send
  <2>1. r = "ok" => hist'[m].accepted > 0
    <3> HAVE r = "ok"
    <3>1. accepted
      BY <1>5 DEF send
    <3>2. hist[m].accepted \in Nat /\ hist'[m].accepted = hist[m].accepted + 1
      BY <3>1 DEF TypeOK, Hist
    <3> QED BY <3>2
  <2>2. \A v \in Worker : v # w => sending'[v] = sending[v] /\ outcome'[v] = outcome[v]
    BY DEF TypeOK
  <2>3. sending'[w] = m /\ outcome'[w] = r
    BY DEF TypeOK
  <2>4. row' = row
    BY <1>5 DEF send
  <2> QED BY <1>1, <1>2, <2>1, <2>2, <2>3, <2>4 DEF Honest
<1>6. ASSUME NEW w \in Worker, record_send_result(w) PROVE Honest'
  <2> DEFINE n == sending[w]
  <2>1. n \in Msg /\ row[n] \in Row /\ row[n].status \in {"queued", "gone"}
        /\ outcome[w] \in Outcome /\ seen[w][n] + 1 \in Nat
    BY <1>6 DEF record_send_result, Calling, Claimed, TypeOK
  <2>2. row' = [row EXCEPT ![n] =
                  Recorded(row[n], outcome[w], retry_delay(seen[w][n] + 1))]
        /\ hist' = hist
    BY <1>6 DEF record_send_result
  <2>3. row'[n].status = "sent" => outcome[w] = "ok"
    BY <2>1, <2>2, RetryDelayType, RecordedStatus DEF TypeOK
  <2>4. \A m \in Msg : m # n => row'[m] = row[m]
    BY <2>2 DEF TypeOK
  <2>5. \A m \in Msg : row'[m].status = "sent" => hist'[m].accepted > 0
    BY <1>6, <2>1, <2>2, <2>3, <2>4 DEF Honest, record_send_result
  <2>6. \A v \in Worker : sending'[v] # None =>
           sending'[v] = sending[v] /\ outcome'[v] = outcome[v]
    BY <1>6 DEF record_send_result, TypeOK
  <2> QED BY <1>2, <2>5, <2>6 DEF Honest
<1>7. ASSUME NEW w \in Worker, record_unconfigured(w) PROVE Honest'
  <2> PICK n \in Msg : /\ Next_in(w, n)
                       /\ row' = [row EXCEPT ![n] = Recorded(row[n], "permanent", 0)]
                       /\ UNCHANGED <<sending, outcome, hist>>
    BY <1>7 DEF record_unconfigured
  <2>1. row[n] \in Row /\ row[n].status \in {"queued", "gone"}
    BY DEF Next_in, Claimed, TypeOK
  <2>2. \A m \in Msg : row'[m].status = "sent" => row[m].status = "sent"
    BY <2>1, RecordedStatus DEF TypeOK, Outcome
  <2> QED BY <1>1, <1>2, <2>2 DEF Honest
<1>8. ASSUME NEW w \in Worker, abort(w) PROVE Honest'
  <2>1. \A v \in Worker : sending'[v] # None =>
           sending'[v] = sending[v] /\ outcome'[v] = outcome[v]
    BY <1>8 DEF abort, TypeOK
  <2>2. row' = row
    BY <1>8 DEF abort
  <2> QED BY <1>1, <1>2, <2>1, <2>2 DEF Honest
<1>9. ASSUME NEW u \in User, delete_user_data(u) PROVE Honest'
  <2>1. \A m \in Msg : row'[m].status = "sent" => row[m].status = "sent"
    BY <1>9 DEF delete_user_data, TypeOK, Row
  <2>2. UNCHANGED <<sending, outcome>>
    BY <1>9 DEF delete_user_data
  <2> QED BY <1>1, <1>2, <2>1, <2>2 DEF Honest
<1>10. CASE elapse
  <2>1. \A m \in Msg : row'[m].status = row[m].status
    BY <1>10 DEF elapse, TypeOK, Row
  <2>2. UNCHANGED <<sending, outcome>>
    BY <1>10 DEF elapse
  <2> QED BY <1>1, <1>2, <2>1, <2>2 DEF Honest
<1>11. CASE UNCHANGED vars
  BY <1>11 DEF vars, Honest
<1> QED BY <1>3, <1>4, <1>5, <1>6, <1>7, <1>8, <1>9, <1>10, <1>11 DEF Next, tick

\* Every step of the queue is a step of the life cycle, or leaves it alone.
LEMMA StepSimulation ==
    ASSUME IInv, Honest, [Next]_vars
    PROVE  [Lifecycle!MNext]_<<[m \in Msg |-> row[m].status],
                               {m \in Msg : hist[m].accepted > 0}>>
<1> USE DEF IInv
<1> DEFINE st == [m \in Msg |-> row[m].status]
           tk == {m \in Msg : hist[m].accepted > 0}
           Goal == Lifecycle!MNext \/ (st' = st /\ tk' = tk)
<1> SUFFICES Goal
  OBVIOUS
<1>a. ASSUME hist' = hist PROVE tk' = tk
  BY <1>a
<1>1. CASE Enqueue
  <2> PICK u \in User, first \in Absent, S \in SUBSET Absent :
             \E primary \in Resolution(u), push \in Injections(S, Dest) :
                enqueue_outbound(u, primary, first, push)
    BY <1>1 DEF Enqueue
  <2> PICK primary \in Resolution(u), push \in Injections(S, Dest) :
                enqueue_outbound(u, primary, first, push)
    OBVIOUS
  <2> DEFINE T == {first} \cup S
             new == [m \in T |-> row'[m].status]
  <2>1. T \in SUBSET Msg /\ \A m \in T : st[m] = "absent"
    BY DEF Absent
  <2>2. DOMAIN push = S
    BY DEF Injections
  <2>3. primary.status \in {"queued", "skipped"}
    BY DEF Resolution, NewRow
  <2>4. row' = [m \in Msg |->
                    CASE m = first -> primary
                      [] m \in S -> NewRow(u, "queued", "push", push[m])
                      [] OTHER -> row[m]]
        /\ hist' = hist
    BY <2>2 DEF enqueue_outbound
  <2>5. \A m \in T : row'[m].status \in {"queued", "skipped"}
    BY <2>1, <2>3, <2>4 DEF NewRow
  <2>6. \A m \in Msg : m \notin T => row'[m] = row[m]
    BY <2>4
  <2>7. new \in [T -> {"queued", "skipped"}]
    BY <2>5
  <2>8. st' = [m \in Msg |-> IF m \in T THEN new[m] ELSE st[m]]
    BY <2>6
  <2>9. Lifecycle!Submit(T)
    BY <2>1, <2>4, <2>7, <2>8, <1>a DEF Lifecycle!Submit
  <2> QED BY <2>1, <2>9 DEF Lifecycle!MNext
<1>2. ASSUME NEW w \in Worker, claim_due_outbound(w) PROVE Goal
  <2>1. \A m \in Msg : row'[m].status = row[m].status
    BY <1>2 DEF claim_due_outbound, TypeOK, Row
  <2> QED BY <1>2, <1>a, <2>1 DEF claim_due_outbound
<1>3. ASSUME NEW w \in Worker, NEW r \in Outcome, NEW accepted \in BOOLEAN,
             send(w, r, accepted)
      PROVE  Goal
  <2> PICK m \in Msg : /\ Next_in(w, m)
                       /\ row' = row
                       /\ hist' = [hist EXCEPT
                        ![m].tries = @ + 1,
                        ![m].accepted = IF accepted THEN @ + 1 ELSE @,
                        ![m].ambiguous = IF accepted /\ r # "ok" THEN @ + 1 ELSE @]
    BY <1>3 DEF send
  <2>1. hist[m] \in Hist /\ \A n \in Msg : n # m => hist'[n] = hist[n]
    BY DEF TypeOK
  <2>2. st' = st /\ st[m] \in {"queued", "gone"}
    BY DEF Next_in, Claimed
  <2>3. CASE accepted
    <3>1. hist'[m].accepted = hist[m].accepted + 1
      BY <2>1, <2>3 DEF TypeOK, Hist
    <3>2. hist'[m].accepted > 0
      BY <2>1, <3>1 DEF Hist
    <3>3. tk' = tk \cup {m}
      BY <2>1, <3>2
    <3> QED BY <2>2, <3>3 DEF Lifecycle!MNext, Lifecycle!Take
  <2>4. CASE ~accepted
    <3>1. hist'[m].accepted = hist[m].accepted
      BY <2>1, <2>4 DEF TypeOK, Hist
    <3>2. \A n \in Msg : hist'[n].accepted = hist[n].accepted
      BY <2>1, <3>1
    <3> QED BY <2>2, <3>2
  <2> QED BY <2>3, <2>4
<1>4. ASSUME NEW w \in Worker, NEW n \in Msg, NEW o \in Outcome, NEW d \in Nat,
             row[n].status \in {"queued", "gone"},
             row' = [row EXCEPT ![n] = Recorded(row[n], o, d)],
             hist' = hist, o = "ok" => hist[n].accepted > 0
      PROVE  Goal
  <2>1. row[n] \in Row /\ \A m \in Msg : m # n => row'[m] = row[m]
    BY <1>4 DEF TypeOK
  <2>2. row'[n] = Recorded(row[n], o, d)
    BY <1>4 DEF TypeOK
  <2>3. CASE row'[n].status = row[n].status
    BY <1>4, <1>a, <2>1, <2>3
  <2>4. CASE row[n].status = "queued" /\ row'[n].status = "failed"
    <3>1. st' = [st EXCEPT ![n] = "failed"]
      BY <2>1, <2>4
    <3> QED BY <1>4, <1>a, <2>4, <3>1 DEF Lifecycle!MNext, Lifecycle!Settle
  <2>5. CASE row[n].status = "queued" /\ row'[n].status = "sent"
    <3>1. st' = [st EXCEPT ![n] = "sent"]
      BY <2>1, <2>5
    <3>2. o = "ok"
      BY <1>4, <2>1, <2>2, <2>5, RecordedStatus
    <3>3. n \in tk /\ tk' = tk
      BY <1>4, <1>a, <3>2
    <3> QED BY <2>5, <3>1, <3>3 DEF Lifecycle!MNext, Lifecycle!Settle
  <2>6. \/ row'[n].status = row[n].status
        \/ row[n].status = "queued" /\ row'[n].status \in {"failed", "sent"}
    BY <1>4, <2>1, <2>2, RecordedStatus
  <2> QED BY <2>3, <2>4, <2>5, <2>6
<1>5. ASSUME NEW w \in Worker, record_send_result(w) PROVE Goal
  <2> DEFINE n == sending[w]
             d == retry_delay(seen[w][n] + 1)
  <2>1. n \in Msg /\ row[n].status \in {"queued", "gone"}
        /\ outcome[w] \in Outcome /\ seen[w][n] + 1 \in Nat
    BY <1>5 DEF record_send_result, Calling, Claimed, TypeOK
  <2>2. d \in Nat
    BY <2>1, RetryDelayType
  <2>3. row' = [row EXCEPT ![n] = Recorded(row[n], outcome[w], d)] /\ hist' = hist
    BY <1>5 DEF record_send_result
  <2>4. outcome[w] = "ok" => hist[n].accepted > 0
    BY <1>5 DEF record_send_result, Honest
  <2> HIDE DEF n, d, Goal
  <2> QED BY <1>4, <2>1, <2>2, <2>3, <2>4
<1>6. ASSUME NEW w \in Worker, record_unconfigured(w) PROVE Goal
  <2> PICK n \in Msg : /\ Next_in(w, n)
                       /\ row' = [row EXCEPT ![n] = Recorded(row[n], "permanent", 0)]
                       /\ hist' = hist
    BY <1>6 DEF record_unconfigured
  <2>1. row[n].status \in {"queued", "gone"}
    BY DEF Next_in, Claimed
  <2> HIDE DEF Goal
  <2> QED BY <1>4, <1>6, <2>1 DEF Outcome
<1>7. ASSUME NEW w \in Worker, abort(w) PROVE Goal
  <2>1. row' = row /\ \A m \in Msg : hist'[m].accepted = hist[m].accepted
    BY <1>7 DEF abort, TypeOK, Hist
  <2> QED BY <2>1
<1>8. ASSUME NEW u \in User, delete_user_data(u) PROVE Goal
  <2> PICK S \in SUBSET Msg : S = {m \in Msg : row[m].user = u}
    OBVIOUS
  <2>1. st' = [m \in Msg |-> IF m \in S THEN "gone" ELSE st[m]] /\ tk' = tk
    BY <1>8, <1>a DEF delete_user_data, TypeOK, Row
  <2>2. Lifecycle!Delete(S)
    BY <2>1 DEF Lifecycle!Delete
  <2> QED BY <2>2 DEF Lifecycle!MNext
<1>9. CASE elapse
  <2>1. \A m \in Msg : row'[m].status = row[m].status
    BY <1>9 DEF elapse, TypeOK, Row
  <2> QED BY <1>9, <1>a, <2>1 DEF elapse
<1>10. CASE UNCHANGED vars
  BY <1>10 DEF vars
<1> QED BY <1>1, <1>2, <1>3, <1>5, <1>6, <1>7, <1>8, <1>9, <1>10 DEF Next, tick

\* The queue with its crashes, retries and leases implements the life cycle
\* a caller of enqueue_outbound is promised.
THEOREM Refinement == ASSUME Exclusive PROVE Spec => ImplementsLifecycle
<1>1. Init => Lifecycle!MInit
  <2> SUFFICES ASSUME Init PROVE Lifecycle!MInit
    OBVIOUS
  <2>1. \A m \in Msg : ~(hist[m].accepted > 0) /\ row[m].status = "absent"
    BY DEF Init, NoRow
  <2> QED BY <2>1 DEF Lifecycle!MInit
<1>2. Init => Honest
  BY DEF Init, Honest, NoRow
<1>3. Spec => []Honest
  BY <1>2, HonestInductive, Invariance, PTL DEF Spec
<1>4. IInv /\ Honest /\ [Next]_vars => [Lifecycle!MNext]_Lifecycle!mvars
  BY StepSimulation DEF Lifecycle!mvars
<1> QED BY <1>1, <1>3, <1>4, Invariance, PTL DEF Spec, ImplementsLifecycle, Lifecycle!MSpec

-----------------------------------------------------------------------------
\* What the attempts recorded on row m have to do with the calls made for it.
Held(m) == \E w \in Worker : m \in batch[w]
InCall(m) == \E w \in Worker : sending[w] = m
Answered(m) == \E w \in Worker : sending[w] = m /\ outcome[w] = "ok"
Open(m) == row[m].status = "queued" \/ Held(m)

\* tries: every call is recorded as an attempt, lost by an abort, or still in
\* progress.  accepted: on a row that may be sent again, every message the
\* provider took was lost by an abort or answered by an error.
Accounted(m) ==
    /\ row[m].status = "absent" =>
          hist[m].tries = 0 /\ hist[m].accepted = 0 /\ row[m].attempts = 0
    /\ row[m].attempts <= MaxAttempts
    /\ Open(m) => row[m].attempts < MaxAttempts
    /\ hist[m].tries <= MaxAttempts + hist[m].aborted
    /\ row[m].status # "gone" \/ Held(m) =>
          hist[m].tries <= row[m].attempts + hist[m].aborted
                             + (IF InCall(m) THEN 1 ELSE 0)
    /\ hist[m].accepted <= 1 + hist[m].aborted + hist[m].ambiguous
    /\ Open(m) /\ ~Answered(m) =>
          hist[m].accepted <= hist[m].aborted + hist[m].ambiguous

\* Row m keeps its accounts when no call for it starts or ends and it does not
\* leave the states it was in, except by deletion.
LEMMA AccountKept ==
    ASSUME NEW m \in Msg, Accounted(m), hist'[m] = hist[m],
           row'[m].status \in {row[m].status, "gone"},
           row'[m].attempts = row[m].attempts,
           Held(m)' => Open(m), Held(m)' => Held(m) \/ row[m].status # "gone",
           InCall(m)' <=> InCall(m), Answered(m)' <=> Answered(m)
    PROVE  Accounted(m)'
<1>1. Open(m)' => Open(m)
  BY DEF Open
<1>2. row'[m].status # "gone" \/ Held(m)' => row[m].status # "gone" \/ Held(m)
  OBVIOUS
<1> QED BY <1>1, <1>2 DEF Accounted

\* The counts of row m are numbers.
LEMMA AccountTypes ==
    ASSUME TypeOK, NEW m \in Msg
    PROVE  /\ row[m] \in Row /\ row[m].attempts \in Nat
           /\ hist[m] \in Hist /\ hist[m].tries \in Nat /\ hist[m].accepted \in Nat
           /\ hist[m].aborted \in Nat /\ hist[m].ambiguous \in Nat
           /\ MaxAttempts \in Nat \ {0} /\ m # None
  BY MsgAssumption, BoundsAssumption DEF TypeOK, Row, Hist

\* Only one tick holds a row, so the tick that calls for it is that one.
LEMMA OneHolder ==
    ASSUME IInv, NEW w \in Worker, NEW m \in batch[w]
    PROVE  /\ \A v \in Worker : m \in batch[v] => v = w
           /\ \A v \in Worker : sending[v] = m => v = w
<1>1. m \in Msg /\ m # None
  BY MsgAssumption DEF IInv, TypeOK
<1>2. \A v \in Worker : m \in batch[v] => v = w
  BY DEF IInv, WorkersDisjoint
<1> QED BY <1>1, <1>2 DEF IInv, Calling


\* The accounts survive a call by worker w for row n: one more try, and one more message
\* taken if the provider took it.
LEMMA AccountSend ==
    ASSUME IInv, NEW w \in Worker, NEW r \in Outcome, NEW accepted \in BOOLEAN,
           send(w, r, accepted), NEW m \in Msg, Accounted(m)
    PROVE  Accounted(m)'
<1> USE DEF IInv
<1> PICK n \in Msg : /\ Next_in(w, n)
                     /\ sending' = [sending EXCEPT ![w] = n]
                     /\ outcome' = [outcome EXCEPT ![w] = r]
                     /\ hist' = [hist EXCEPT
                        ![n].tries = @ + 1,
                        ![n].accepted = IF accepted THEN @ + 1 ELSE @,
                        ![n].ambiguous = IF accepted /\ r # "ok" THEN @ + 1 ELSE @]
  BY DEF send
<1>1. row' = row /\ batch' = batch /\ sending[w] = None
      /\ (r = "ok" => accepted) /\ n \in batch[w]
  BY DEF send, Next_in
<1>2. /\ sending'[w] = n /\ outcome'[w] = r
      /\ \A v \in Worker : v # w => sending'[v] = sending[v] /\ outcome'[v] = outcome[v]
  BY DEF TypeOK
<1>3. CASE m # n
  <2>1. hist'[m] = hist[m] /\ row'[m] = row[m] /\ (Held(m)' <=> Held(m))
    BY <1>1, <1>3 DEF TypeOK, Held
  <2>2. m # None
    BY AccountTypes
  <2>3. InCall(m)' <=> InCall(m)
    BY <1>1, <1>2, <1>3, <2>2 DEF InCall
  <2>4. Answered(m)' <=> Answered(m)
    BY <1>1, <1>2, <1>3, <2>2 DEF Answered
  <2> QED BY <2>1, <2>3, <2>4, AccountKept DEF Open
<1>4. CASE m = n
  <2>1. /\ hist'[m].tries = hist[m].tries + 1
        /\ hist'[m].aborted = hist[m].aborted
        /\ hist'[m].accepted = IF accepted THEN hist[m].accepted + 1
                               ELSE hist[m].accepted
        /\ hist'[m].ambiguous = IF accepted /\ r # "ok" THEN hist[m].ambiguous + 1
                                ELSE hist[m].ambiguous
    BY <1>4 DEF TypeOK, Hist
  <2>2. Held(m) /\ Held(m)' /\ Open(m)
    BY <1>1, <1>4 DEF Held, Open
  <2>3. ~InCall(m) /\ ~Answered(m)
    <3>1. \A v \in Worker : sending[v] = m => v = w
      BY <1>1, <1>4, OneHolder
    <3>2. m # None
      BY AccountTypes
    <3> QED BY <1>1, <3>1, <3>2 DEF InCall, Answered
  <2>4. InCall(m)' /\ (r = "ok" => Answered(m)')
    BY <1>2, <1>4 DEF InCall, Answered
  <2>5. /\ row[m].attempts < MaxAttempts /\ row[m].status \in {"queued", "gone"}
        /\ hist[m].tries <= row[m].attempts + hist[m].aborted
        /\ hist[m].accepted <= hist[m].aborted + hist[m].ambiguous
    <3>1. row[m].status \in {"queued", "gone"}
      BY <1>1, <1>4 DEF Claimed
    <3>2. hist[m].tries <= row[m].attempts + hist[m].aborted + 0
      BY <2>2, <2>3 DEF Accounted
    <3>3. hist[m].tries <= row[m].attempts + hist[m].aborted
      BY <3>2, AccountTypes
    <3> QED BY <2>2, <2>3, <3>1, <3>3 DEF Accounted
  <2>6. /\ hist'[m].tries <= row'[m].attempts + hist'[m].aborted + 1
        /\ hist'[m].tries <= MaxAttempts + hist'[m].aborted
        /\ row'[m].attempts < MaxAttempts /\ row'[m].attempts <= MaxAttempts
        /\ row'[m].status # "absent"
    BY <1>1, <2>1, <2>5, AccountTypes
  <2>7. hist'[m].accepted <= 1 + hist'[m].aborted + hist'[m].ambiguous
    BY <1>1, <2>1, <2>5, AccountTypes
  <2>8. r # "ok" => hist'[m].accepted <= hist'[m].aborted + hist'[m].ambiguous
    BY <1>1, <2>1, <2>5, AccountTypes
  <2> QED BY <2>4, <2>6, <2>7, <2>8 DEF Accounted
<1> QED BY <1>3, <1>4

\* The accounts survive a recorded result: the try becomes an attempt, and the tick
\* lets go of the row.
LEMMA AccountRecord ==
    ASSUME IInv, NEW w \in Worker, NEW n \in batch[w], NEW o \in Outcome,
           NEW d \in Nat, NEW m \in Msg, Accounted(m),
           row' = [row EXCEPT ![n] = Recorded(row[n], o, d)], hist' = hist,
           batch' = [batch EXCEPT ![w] = @ \ {n}],
           sending[w] \in {None, n}, sending' = [sending EXCEPT ![w] = None],
           outcome' = [outcome EXCEPT ![w] = None] \/ outcome' = outcome,
           sending[w] = n => outcome[w] = o, sending[w] = None => o = "permanent"
    PROVE  Accounted(m)'
<1> USE DEF IInv
<1>0. n \in Msg /\ n # None /\ m # None
  BY AccountTypes DEF TypeOK
<1>1. /\ \A v \in Worker : v # w => batch'[v] = batch[v] /\ sending'[v] = sending[v]
                                    /\ outcome'[v] = outcome[v]
      /\ batch'[w] = batch[w] \ {n} /\ sending'[w] = None
  BY DEF TypeOK
<1>2. CASE m # n
  <2>1. hist'[m] = hist[m] /\ row'[m] = row[m]
    BY <1>0, <1>2 DEF TypeOK
  <2>2. Held(m)' => Held(m)
    BY <1>1 DEF Held
  <2>3. InCall(m)' <=> InCall(m)
    BY <1>0, <1>1, <1>2 DEF InCall
  <2>4. Answered(m)' <=> Answered(m)
    BY <1>0, <1>1, <1>2 DEF Answered
  <2> QED BY <2>1, <2>2, <2>3, <2>4, AccountKept DEF Open
<1>3. CASE m = n
  <2>1. /\ \A v \in Worker : m \in batch[v] => v = w
        /\ \A v \in Worker : sending[v] = m => v = w
    BY <1>3, OneHolder
  <2>2. ~Held(m)' /\ ~InCall(m)' /\ ~Answered(m)'
    BY <1>0, <1>1, <1>3, <2>1 DEF Held, InCall, Answered
  <2>3. Held(m) /\ Open(m)
    BY <1>3 DEF Held, Open
  <2>4. row'[m] = Recorded(row[m], o, d) /\ row[m].status \in {"queued", "gone"}
    BY <1>0, <1>3 DEF TypeOK, Claimed
  <2>5. Answered(m) => o = "ok"
    BY <1>0, <1>3, <2>1 DEF Answered
  <2>6. /\ row[m].attempts < MaxAttempts
        /\ hist[m].tries <= row[m].attempts + hist[m].aborted + 1
        /\ hist[m].tries <= MaxAttempts + hist[m].aborted
        /\ hist[m].accepted <= 1 + hist[m].aborted + hist[m].ambiguous
        /\ o # "ok" => hist[m].accepted <= hist[m].aborted + hist[m].ambiguous
    BY <2>3, <2>5, AccountTypes DEF Accounted
  <2>7. CASE row[m].status = "gone"
    <3>1. row'[m] = row[m]
      BY <2>4, <2>7 DEF Recorded
    <3> QED BY <2>2, <2>6, <2>7, <3>1, AccountTypes DEF Accounted, Open
  <2>8. CASE row[m].status = "queued"
    <3> DEFINE tried == [row[m] EXCEPT !.attempts = @ + 1]
    <3>1. tried.attempts = row[m].attempts + 1 /\ tried \in Row
      BY AccountTypes DEF Row
    <3>2. /\ row'[m].attempts = row[m].attempts + 1
          /\ row'[m].status \in {"sent", "failed", "queued"}
          /\ row'[m].status = "queued" => o # "ok" /\ ~Spent(tried, o)
      <4>0. row'[m] = Tried(row[m], o, d)
        BY <2>4, <2>8 DEF Recorded
      <4> HIDE DEF tried
      <4>1. /\ [tried EXCEPT !.status = "sent"].attempts = tried.attempts
            /\ [tried EXCEPT !.status = "sent"].status = "sent"
            /\ [tried EXCEPT !.status = "failed"].attempts = tried.attempts
            /\ [tried EXCEPT !.status = "failed"].status = "failed"
            /\ [tried EXCEPT !.status = "queued", !.wait = d].attempts = tried.attempts
            /\ [tried EXCEPT !.status = "queued", !.wait = d].status = "queued"
        BY <3>1 DEF Row
      <4>2. row'[m] = CASE o = "ok" -> [tried EXCEPT !.status = "sent"]
                        [] o # "ok" /\ Spent(tried, o) -> [tried EXCEPT !.status = "failed"]
                        [] OTHER -> [tried EXCEPT !.status = "queued", !.wait = d]
        BY <4>0 DEF Tried, tried
      <4>3. CASE o = "ok"
        <5>1. row'[m] = [tried EXCEPT !.status = "sent"]
          BY <4>2, <4>3
        <5> QED BY <3>1, <4>1, <5>1
      <4>4. CASE o # "ok" /\ Spent(tried, o)
        <5>1. row'[m] = [tried EXCEPT !.status = "failed"]
          BY <4>2, <4>4
        <5> QED BY <3>1, <4>1, <5>1
      <4>5. CASE o # "ok" /\ ~Spent(tried, o)
        <5>1. row'[m] = [tried EXCEPT !.status = "queued", !.wait = d]
          BY <4>2, <4>5
        <5> QED BY <3>1, <4>1, <4>5, <5>1
      <4> QED BY <4>3, <4>4, <4>5
    <3>3. row'[m].status = "queued" => row'[m].attempts < MaxAttempts
      BY <3>1, <3>2, AccountTypes DEF Spent
    <3> QED BY <2>2, <2>6, <3>2, <3>3, AccountTypes DEF Accounted, Open
  <2> QED BY <2>4, <2>7, <2>8
<1> QED BY <1>2, <1>3


\* The account of a row's provider calls stays balanced, whatever is done to it.
LEMMA AccountedInductive ==
    ASSUME IInv, [Next]_vars, NEW m \in Msg, Accounted(m) PROVE Accounted(m)'
<1> USE DEF IInv
<1>1. CASE Enqueue
  <2> PICK u \in User, first \in Absent, S \in SUBSET Absent :
             \E primary \in Resolution(u), push \in Injections(S, Dest) :
                enqueue_outbound(u, primary, first, push)
    BY <1>1 DEF Enqueue
  <2> PICK primary \in Resolution(u), push \in Injections(S, Dest) :
                enqueue_outbound(u, primary, first, push)
    OBVIOUS
  <2>1. /\ UNCHANGED <<batch, sending, outcome, hist>>
        /\ DOMAIN push = S
        /\ row' = [n \in Msg |->
                    CASE n = first -> primary
                      [] n \in DOMAIN push -> NewRow(u, "queued", "push", push[n])
                      [] OTHER -> row[n]]
    BY DEF enqueue_outbound, Injections
  <2>2. CASE m \notin {first} \cup S
    <3>1. row'[m] = row[m]
      BY <2>1, <2>2
    <3> QED BY <2>1, <3>1, AccountKept DEF Held, InCall, Answered, Open
  <2>3. CASE m \in {first} \cup S
    <3>1. row[m].status = "absent"
      BY <2>3 DEF Absent
    <3>2. row'[m].status # "absent" /\ row'[m].attempts = 0
      BY <2>1, <2>3 DEF Resolution, NewRow
    <3>3. ~Held(m)
      BY <3>1 DEF Held, Claimed
    <3>4. ~Held(m)' /\ hist' = hist
      BY <2>1, <3>3 DEF Held
    <3>5. hist[m].tries = 0 /\ hist[m].accepted = 0
      BY <3>1 DEF Accounted
    <3>6. /\ row'[m].attempts < MaxAttempts
          /\ hist'[m].tries <= MaxAttempts + hist'[m].aborted
          /\ hist'[m].tries <= row'[m].attempts + hist'[m].aborted + 1
          /\ hist'[m].tries <= row'[m].attempts + hist'[m].aborted + 0
          /\ hist'[m].accepted <= 1 + hist'[m].aborted + hist'[m].ambiguous
          /\ hist'[m].accepted <= hist'[m].aborted + hist'[m].ambiguous
          /\ row'[m].attempts <= MaxAttempts
      BY <3>2, <3>4, <3>5, AccountTypes
    <3> QED BY <3>2, <3>6 DEF Accounted
  <2> QED BY <2>2, <2>3
<1>2. ASSUME NEW w \in Worker, claim_due_outbound(w) PROVE Accounted(m)'
  <2> PICK claimed \in Oldest(Due) :
          /\ row' = [n \in Msg |->
                       IF n \in claimed THEN [row[n] EXCEPT !.wait = Lease]
                       ELSE row[n]]
          /\ batch' = [batch EXCEPT ![w] = claimed]
    BY <1>2 DEF claim_due_outbound
  <2>1. UNCHANGED <<sending, outcome, hist>>
    BY <1>2 DEF claim_due_outbound
  <2>2. row'[m].status = row[m].status /\ row'[m].attempts = row[m].attempts
    BY AccountTypes DEF Row
  <2>3. Held(m)' => Held(m) \/ row[m].status = "queued"
    <3>1. \A n \in claimed : row[n].status = "queued"
      BY DEF Oldest, Due
    <3>2. \A v \in Worker : m \in batch'[v] => m \in batch[v] \/ m \in claimed
      BY DEF TypeOK
    <3> QED BY <3>1, <3>2 DEF Held
  <2> QED BY <2>1, <2>2, <2>3, AccountKept DEF InCall, Answered, Open
<1>3. ASSUME NEW w \in Worker, NEW r \in Outcome, NEW accepted \in BOOLEAN,
             send(w, r, accepted)
      PROVE  Accounted(m)'
  BY <1>3, AccountSend
<1>4. ASSUME NEW w \in Worker, record_send_result(w) PROVE Accounted(m)'
  <2> DEFINE n == sending[w]
             d == retry_delay(seen[w][n] + 1)
  <2>1. n \in batch[w] /\ outcome[w] \in Outcome /\ seen[w][n] + 1 \in Nat
        /\ sending[w] # None
    BY <1>4 DEF record_send_result, Calling, TypeOK
  <2>2. d \in Nat
    BY <2>1, RetryDelayType
  <2>3. /\ row' = [row EXCEPT ![n] = Recorded(row[n], outcome[w], d)]
        /\ hist' = hist
        /\ batch' = [batch EXCEPT ![w] = @ \ {n}]
        /\ sending' = [sending EXCEPT ![w] = None]
        /\ outcome' = [outcome EXCEPT ![w] = None]
    BY <1>4 DEF record_send_result, advance
  <2> HIDE DEF d
  <2> QED BY <2>1, <2>2, <2>3, AccountRecord
<1>5. ASSUME NEW w \in Worker, record_unconfigured(w) PROVE Accounted(m)'
  <2> PICK n \in Msg : /\ Next_in(w, n)
                       /\ row' = [row EXCEPT ![n] = Recorded(row[n], "permanent", 0)]
                       /\ batch' = [batch EXCEPT ![w] = @ \ {n}]
                       /\ UNCHANGED <<sending, outcome, hist>>
                       /\ sending[w] = None
    BY <1>5 DEF record_unconfigured, advance
  <2>1. n \in batch[w] /\ n # None
    BY MsgAssumption DEF Next_in
  <2>2. sending' = [sending EXCEPT ![w] = None]
    BY DEF TypeOK
  <2> QED BY <2>1, <2>2, AccountRecord DEF Outcome
<1>6. ASSUME NEW w \in Worker, abort(w) PROVE Accounted(m)'
  <2>1. /\ row' = row
        /\ \A v \in Worker : v # w => batch'[v] = batch[v] /\ sending'[v] = sending[v]
                                    /\ outcome'[v] = outcome[v]
        /\ batch'[w] = {} /\ sending'[w] = None
    BY <1>6 DEF abort, TypeOK
  <2>2. Held(m)' => Held(m)
    BY <2>1 DEF Held
  <2>3. m # None
    BY AccountTypes
  <2>4. CASE m # sending[w]
    <3>1. hist'[m] = hist[m]
      BY <1>6, <2>4 DEF abort
    <3>2. InCall(m)' <=> InCall(m)
      BY <2>1, <2>3, <2>4 DEF InCall
    <3>3. Answered(m)' <=> Answered(m)
      BY <2>1, <2>3, <2>4 DEF Answered
    <3> QED BY <2>1, <2>2, <3>1, <3>2, <3>3, AccountKept DEF Open
  <2>5. CASE m = sending[w]
    <3>1. /\ hist'[m].tries = hist[m].tries
          /\ hist'[m].accepted = hist[m].accepted
          /\ hist'[m].aborted = hist[m].aborted + 1
          /\ hist'[m].ambiguous = hist[m].ambiguous
      BY <1>6, <2>5 DEF abort, TypeOK, Hist
    <3>2. m \in batch[w]
      BY <2>3, <2>5 DEF Calling
    <3>3. Held(m) /\ Open(m)
      BY <3>2 DEF Held, Open
    <3>4. hist[m].tries <= row[m].attempts + hist[m].aborted + 1
      BY <3>3, AccountTypes DEF Accounted
    <3>5. /\ row[m].status = "absent" => hist'[m].tries = 0 /\ hist'[m].accepted = 0
                                         /\ row[m].attempts = 0
          /\ row[m].attempts <= MaxAttempts /\ row[m].attempts < MaxAttempts
          /\ hist[m].tries <= MaxAttempts + hist[m].aborted
          /\ hist[m].accepted <= 1 + hist[m].aborted + hist[m].ambiguous
      BY <3>1, <3>3 DEF Accounted
    <3>6. /\ hist'[m].tries <= MaxAttempts + hist'[m].aborted
          /\ hist'[m].tries <= row'[m].attempts + hist'[m].aborted + 1
          /\ hist'[m].tries <= row'[m].attempts + hist'[m].aborted + 0
          /\ hist'[m].accepted <= 1 + hist'[m].aborted + hist'[m].ambiguous
          /\ hist'[m].accepted <= hist'[m].aborted + hist'[m].ambiguous
      BY <2>1, <3>1, <3>4, <3>5, AccountTypes
    <3> QED BY <2>1, <3>5, <3>6 DEF Accounted
  <2> QED BY <2>4, <2>5
<1>7. ASSUME NEW u \in User, delete_user_data(u) PROVE Accounted(m)'
  <2>1. row'[m].status \in {row[m].status, "gone"} /\ row'[m].attempts = row[m].attempts
    BY <1>7, AccountTypes DEF delete_user_data, Row
  <2>2. UNCHANGED <<batch, sending, outcome, hist>>
    BY <1>7 DEF delete_user_data
  <2> QED BY <2>1, <2>2, AccountKept DEF Held, InCall, Answered, Open
<1>8. CASE elapse
  <2>1. row'[m].status = row[m].status /\ row'[m].attempts = row[m].attempts
    BY <1>8, AccountTypes DEF elapse, Row
  <2>2. UNCHANGED <<batch, sending, outcome, hist>>
    BY <1>8 DEF elapse
  <2> QED BY <2>1, <2>2, AccountKept DEF Held, InCall, Answered, Open
<1>9. CASE UNCHANGED vars
  BY <1>9, AccountKept DEF vars, Held, InCall, Answered, Open
<1> QED BY <1>1, <1>2, <1>3, <1>4, <1>5, <1>6, <1>7, <1>8, <1>9 DEF Next, tick

\* A provider takes a message twice only when an abort or an unclear answer
\* explains it, and no row is tried more often than its budget and the calls
\* an abort lost.
THEOREM Explained == ASSUME Exclusive PROVE Spec => []SendsExplained
<1> DEFINE Accounts == \A m \in Msg : Accounted(m)
<1>1. Init => Accounts
  <2> SUFFICES ASSUME Init, NEW m \in Msg PROVE Accounted(m)
    OBVIOUS
  <2>1. /\ row[m].status = "absent" /\ row[m].attempts = 0
        /\ hist[m].tries = 0 /\ hist[m].accepted = 0
        /\ hist[m].aborted = 0 /\ hist[m].ambiguous = 0
    BY DEF Init, NoRow
  <2> QED BY <2>1, BoundsAssumption DEF Accounted
<1>2. IInv /\ Accounts /\ [Next]_vars => Accounts'
  <2> SUFFICES ASSUME IInv, Accounts, [Next]_vars, NEW m \in Msg PROVE Accounted(m)'
    OBVIOUS
  <2> QED BY AccountedInductive
<1>3. Accounts => SendsExplained
  BY DEF Accounted, SendsExplained, DuplicatesExplained, SendBudget
<1> QED
  <2> HIDE DEF Accounts
  <2> QED BY <1>1, <1>2, <1>3, Invariance, PTL DEF Spec

=============================================================================
