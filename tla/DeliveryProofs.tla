-------------------------- MODULE DeliveryProofs --------------------------
(***************************************************************************)
(* Theorems about Delivery: its behaviours are behaviours of Outbox, whose *)
(* theorems therefore hold of it, and what it queues goes to a destination *)
(* that was verified.                                                      *)
(***************************************************************************)
EXTENDS Delivery, OutboxProofs

\* The variables of the registrations keep their types.
Registered ==
    /\ chan \in [User -> [CHANNELS -> Reg]]
    /\ preferred \in [User -> CHANNELS \cup {None}]
    /\ devices \in [Tokens -> User \cup {None}]
    /\ verified \in [User -> SUBSET (CHANNELS \X Dest)]

\* A registration that is written over stays one.
LEMMA RegType ==
  ASSUME NEW reg \in Reg, NEW d \in Dest \cup {None}
  PROVE  /\ Upserted(reg, d) \in Reg /\ MarkedVerified(reg) \in Reg /\ Unregistered \in Reg
         /\ \A flag \in BOOLEAN : [reg EXCEPT !.opted_out = flag] \in Reg
BY DEF Upserted, MarkedVerified, Unregistered, Reg

\* The registrations, the devices and the preferences keep their types.
LEMMA RegistrationTypes == DSpec => []Registered
<1>1. DInit => Registered
  BY DEF DInit, Registered, Unregistered, Reg
<1>2. Registered /\ [DNext]_allvars => Registered'
  <2> SUFFICES ASSUME Registered, [DNext]_allvars PROVE Registered'
    OBVIOUS
  <2> USE DEF Registered
  <2>1. ASSUME NEW u \in User, NEW c \in CHANNELS, NEW d \in Address, Register(u, c, d)
        PROVE Registered'
    <3>1. chan[u][c] \in Reg /\ d \in Dest \cup {None}
      BY DEF Address
    <3>2. Upserted(chan[u][c], d) \in Reg
      BY <3>1, RegType
    <3> QED BY <2>1, <3>2 DEF Register
  <2>2. ASSUME NEW u \in User, NEW c \in CHANNELS, Verify(u, c) PROVE Registered'
    <3>1. MarkedVerified(chan[u][c]) \in Reg
      BY RegType
    <3>2. chan[u][c].dest \in Dest
      BY <2>2 DEF Verify, Reg
    <3>3. <<c, chan[u][c].dest>> \in CHANNELS \X Dest
      BY <3>2
    <3> QED BY <2>2, <3>1, <3>3 DEF Verify
  <2>3. ASSUME NEW u \in User, NEW c \in CHANNELS \cup {None}, Prefer(u, c) PROVE Registered'
    BY <2>3 DEF Prefer
  <2>4. ASSUME NEW c \in CHANNELS, NEW d \in Address, NEW flag \in BOOLEAN, OptOut(c, d, flag)
        PROVE Registered'
    <3>1. \A u \in User : [chan[u][c] EXCEPT !.opted_out = flag] \in Reg
      BY RegType
    <3> QED BY <2>4, <3>1 DEF OptOut, OptedOut
  <2>5. ASSUME NEW u \in User, ChangePlan(u) PROVE Registered'
    BY <2>5 DEF ChangePlan
  <2>6. ASSUME NEW u \in User, DeleteUser(u) PROVE Registered'
    <3>1. Unregistered \in Reg
      BY DEF Unregistered, Reg
    <3> QED BY <2>6, <3>1 DEF DeleteUser
  <2>7. ASSUME NEW t \in Tokens, NEW u \in User \cup {None}, SetDevice(t, u) PROVE Registered'
    BY <2>7 DEF SetDevice
  <2>8. CASE UNCHANGED dvars
    BY <2>8 DEF dvars
  <2> QED BY <2>1, <2>2, <2>3, <2>4, <2>5, <2>6, <2>7, <2>8 DEF DNext, EnqueueFor, allvars
<1> QED BY <1>1, <1>2, PTL DEF DSpec

-----------------------------------------------------------------------------
\* The channels that are resolved to: "email" is one if "sms" is, and "push" is not.
ChannelsAsInCode == "email" \in CHANNELS /\ "push" \notin CHANNELS

\* What enqueue_outbound resolves to is one of the rows that the queue may be given.
LEMMA Resolved ==
  ASSUME ChannelsAsInCode, Registered, NEW u \in User
  PROVE  /\ Resolve(u) \in Resolution(u)
         /\ Resolve(u).status = "queued" =>
               /\ Resolve(u).channel \in CHANNELS
               /\ chan[u][Resolve(u).channel].verified
               /\ Resolve(u).dest = chan[u][Resolve(u).channel].dest
         /\ Resolve(u).status \in {"queued", "skipped"} /\ Resolve(u).user = u
<1> DEFINE queued(c) == NewRow(u, "queued", c, chan[u][c].dest)
<1>1. ASSUME NEW c \in CHANNELS, Usable(chan[u][c])
      PROVE  queued(c) \in Resolution(u) /\ chan[u][c].verified
  <2>1. chan[u][c].dest \in Dest /\ c \in Channel \ {"push"}
    BY <1>1, ChannelAssumption DEF Registered, Reg, Usable, ChannelsAsInCode
  <2> QED BY <1>1, <2>1 DEF Resolution, Usable
<1>2. NewRow(u, "skipped", None, None) \in Resolution(u)
  BY DEF Resolution
<1>3. CASE Resolve(u) = NewRow(u, "skipped", None, None)
  BY <1>2, <1>3 DEF NewRow
<1>4. ASSUME NEW c \in CHANNELS, Usable(chan[u][c]), Resolve(u) = queued(c)
      PROVE  /\ Resolve(u) \in Resolution(u) /\ Resolve(u).channel = c
             /\ chan[u][c].verified /\ Resolve(u).dest = chan[u][c].dest
             /\ Resolve(u).status = "queued" /\ Resolve(u).user = u
  BY <1>1, <1>4 DEF NewRow
<1>5. \/ Resolve(u) = NewRow(u, "skipped", None, None)
      \/ \E c \in CHANNELS : Usable(chan[u][c]) /\ Resolve(u) = queued(c)
  BY DEF Resolve, Registered, ChannelsAsInCode
<1> QED BY <1>3, <1>4, <1>5

\* The queue with what fills it is the queue: what is proved of Outbox holds of it.
THEOREM Embedding == ASSUME ChannelsAsInCode PROVE DSpec => Spec
<1>1. DInit => Init
  BY DEF DInit
<1>2. Registered /\ [DNext]_allvars => [Next]_vars
  <2> SUFFICES ASSUME Registered, DNext PROVE [Next]_vars
    BY DEF allvars, vars
  <2>1. ASSUME NEW u \in User, EnqueueFor(u) PROVE Enqueue
    <3>1. PICK tokens \in SUBSET {t \in Tokens : devices[t] = u}, first \in Absent,
               S \in SUBSET Absent :
             /\ first \notin S
             /\ \E map \in Injections(S, tokens) :
                   enqueue_outbound(u, Resolve(u), first, map)
      BY <2>1 DEF EnqueueFor
    <3>2. Injections(S, tokens) \subseteq Injections(S, Dest)
      BY TokensAssumption DEF Injections
    <3>3. Resolve(u) \in Resolution(u)
      BY Resolved
    <3> QED BY <3>1, <3>2, <3>3 DEF Enqueue
  <2>2. ASSUME NEW u \in User, DeleteUser(u) PROVE Next
    BY <2>2 DEF DeleteUser, Next
  <2>3. CASE elapse \/ \E w \in Worker : tick(w) \/ abort(w)
    BY <2>3 DEF Next
  <2>4. CASE UNCHANGED vars
    BY <2>4
  <2> QED BY <2>1, <2>2, <2>3, <2>4
          DEF DNext, Next, Register, Verify, Prefer, OptOut, ChangePlan, SetDevice
<1> QED BY <1>1, <1>2, RegistrationTypes, PTL DEF DSpec, Spec

-----------------------------------------------------------------------------
\* A mark on a registration is for the destination it has.
MarksProven ==
    \A u \in User, c \in CHANNELS :
       chan[u][c].verified => <<c, chan[u][c].dest>> \in verified[u]

\* Only rows that were queued once are in a batch, so that only those are written to.
Handled ==
    \A w \in Worker :
       /\ \A m \in batch[w] : row[m].status \in {"queued", "sent", "failed", "gone"}
       /\ sending[w] # None => sending[w] \in batch[w]

\* Recording a result leaves the user, the channel and the destination of a row.
LEMMA RecordedRow ==
  ASSUME NEW r \in Row, NEW o, NEW delay
  PROVE  /\ Recorded(r, o, delay).user = r.user
         /\ Recorded(r, o, delay).channel = r.channel
         /\ Recorded(r, o, delay).dest = r.dest
         /\ Recorded(r, o, delay).status \in {"queued", "sent", "failed", "gone"}
         /\ r.status = "gone" => Recorded(r, o, delay).status = "gone"
BY DEF Recorded, Tried, Row

\* How a step of the queue changes a row: the address stays, and a row that is not queued
\* becomes so only if it was in a batch.
LEMMA AddressStays ==
  ASSUME TypeOK, Handled, elapse \/ \E w \in Worker : tick(w) \/ abort(w)
  PROVE  /\ Handled'
         /\ \A m \in Msg :
               /\ row'[m].user = row[m].user /\ row'[m].channel = row[m].channel
               /\ row'[m].dest = row[m].dest
               /\ row'[m].status = row[m].status
                    \/ row[m].status \in {"queued", "sent", "failed"}
<1> DEFINE Stays ==
              /\ Handled'
              /\ \A m \in Msg :
                    /\ row'[m].user = row[m].user /\ row'[m].channel = row[m].channel
                    /\ row'[m].dest = row[m].dest
                    /\ row'[m].status = row[m].status
                         \/ row[m].status \in {"queued", "sent", "failed"}
<1> USE DEF TypeOK, Handled
<1>1. ASSUME NEW w \in Worker, claim_due_outbound(w)
      PROVE  Handled' /\ \A m \in Msg : row'[m].user = row[m].user
                /\ row'[m].channel = row[m].channel /\ row'[m].dest = row[m].dest
                /\ row'[m].status = row[m].status
  <2>1. PICK claimed \in Oldest(Due) :
           /\ row' = [m \in Msg |-> IF m \in claimed THEN [row[m] EXCEPT !.wait = Lease]
                                    ELSE row[m]]
           /\ batch' = [batch EXCEPT ![w] = claimed]
    BY <1>1 DEF claim_due_outbound
  <2>2. \A m \in claimed : m \in Msg /\ row[m].status = "queued"
    BY DEF Oldest, Due
  <2>3. \A m \in Msg : /\ row'[m].user = row[m].user /\ row'[m].channel = row[m].channel
                        /\ row'[m].dest = row[m].dest /\ row'[m].status = row[m].status
    BY <2>1 DEF Row
  <2>4. sending' = sending /\ (sending[w] = None \/ batch[w] # {}) /\ batch[w] = {}
    BY <1>1 DEF claim_due_outbound, Idle
  <2>5. Handled'
    <3>1. \A v \in Worker : v # w => batch'[v] = batch[v]
      BY <2>1
    <3>2. batch'[w] = claimed
      BY <2>1
    <3>3. \A v \in Worker : batch'[v] \subseteq Msg
      BY <2>2, <3>1, <3>2
    <3> QED BY <2>2, <2>3, <2>4, <3>1, <3>2, <3>3
  <2> QED BY <2>3, <2>5
<1>2. ASSUME NEW w \in Worker, NEW r \in Outcome, NEW accepted \in BOOLEAN, send(w, r, accepted)
      PROVE  Handled' /\ row' = row
  BY <1>2 DEF send, Next_in
<1>3. ASSUME NEW w \in Worker, NEW m \in Msg, NEW o, NEW delay, m \in batch[w],
             row' = [row EXCEPT ![m] = Recorded(@, o, delay)],
             advance(w, m), sending' = [sending EXCEPT ![w] = None]
      PROVE  /\ Handled'
             /\ \A n \in Msg : /\ row'[n].user = row[n].user
                               /\ row'[n].channel = row[n].channel /\ row'[n].dest = row[n].dest
             /\ \A n \in Msg \ {m} : row'[n] = row[n]
             /\ row[m].status \in {"queued", "sent", "failed"} \/ row'[m].status = row[m].status
  <2>1. row[m] \in Row /\ row'[m] = Recorded(row[m], o, delay)
    BY <1>3
  <2>2. \A n \in Msg \ {m} : row'[n] = row[n]
    BY <1>3
  <2>3. /\ row'[m].user = row[m].user /\ row'[m].channel = row[m].channel
        /\ row'[m].dest = row[m].dest
        /\ row'[m].status \in {"queued", "sent", "failed", "gone"}
        /\ row[m].status = "gone" => row'[m].status = "gone"
    BY <2>1, RecordedRow
  <2>4. \A v \in Worker : batch'[v] \subseteq batch[v] /\ (v # w => batch'[v] = batch[v])
    BY <1>3 DEF advance
  <2>5. \A v \in Worker : sending'[v] # None => v # w /\ sending'[v] = sending[v]
    BY <1>3
  <2>6. Handled'
    BY <2>2, <2>3, <2>4, <2>5
  <2> QED BY <1>3, <2>2, <2>3, <2>6
<1>4. ASSUME NEW w \in Worker, record_send_result(w)
      PROVE  \E m \in Msg, o \in Outcome \cup {None}, delay \in {retry_delay(seen[w][sending[w]] + 1)} :
                /\ m \in batch[w] /\ row' = [row EXCEPT ![m] = Recorded(@, o, delay)]
                /\ advance(w, m) /\ sending' = [sending EXCEPT ![w] = None]
  BY <1>4, MsgAssumption DEF record_send_result
<1>5. ASSUME NEW w \in Worker, record_unconfigured(w)
      PROVE  \E m \in Msg : /\ m \in batch[w]
                            /\ row' = [row EXCEPT ![m] = Recorded(@, "permanent", 0)]
                            /\ advance(w, m) /\ sending' = [sending EXCEPT ![w] = None]
  BY <1>5 DEF record_unconfigured, Next_in
<1>6. ASSUME NEW w \in Worker, abort(w) PROVE Handled' /\ row' = row
  BY <1>6 DEF abort
<1>7. CASE elapse
  <2>1. \A m \in Msg : /\ row'[m].user = row[m].user /\ row'[m].channel = row[m].channel
                        /\ row'[m].dest = row[m].dest /\ row'[m].status = row[m].status
    BY <1>7 DEF elapse, Row
  <2>2. UNCHANGED <<batch, sending>>
    BY <1>7 DEF elapse
  <2>3. Handled'
    BY <2>1, <2>2
  <2> QED BY <2>1, <2>3
<1>8. ASSUME NEW w \in Worker, NEW m \in Msg, NEW o, NEW delay, m \in batch[w],
             row' = [row EXCEPT ![m] = Recorded(@, o, delay)],
             advance(w, m), sending' = [sending EXCEPT ![w] = None]
      PROVE  Stays
  BY <1>3, <1>8
<1> HIDE DEF Handled, TypeOK
<1>9. ASSUME NEW w \in Worker, record_send_result(w) PROVE Stays
  <2>1. PICK m \in Msg, o \in Outcome \cup {None}, delay \in {retry_delay(seen[w][sending[w]] + 1)} :
           /\ m \in batch[w] /\ row' = [row EXCEPT ![m] = Recorded(@, o, delay)]
           /\ advance(w, m) /\ sending' = [sending EXCEPT ![w] = None]
    BY <1>4, <1>9
  <2> QED BY <1>8, <2>1
<1>10. ASSUME NEW w \in Worker, record_unconfigured(w) PROVE Stays
  <2>1. PICK m \in Msg :
           /\ m \in batch[w] /\ row' = [row EXCEPT ![m] = Recorded(@, "permanent", 0)]
           /\ advance(w, m) /\ sending' = [sending EXCEPT ![w] = None]
    BY <1>5, <1>10
  <2> QED BY <1>8, <2>1
<1>11. ASSUME NEW w \in Worker, tick(w) PROVE Stays
  <2>1. ASSUME NEW r \in Outcome, NEW accepted \in BOOLEAN, send(w, r, accepted) PROVE Stays
    BY <1>2, <2>1
  <2>2. CASE claim_due_outbound(w)
    BY <1>1, <2>2
  <2> QED BY <1>9, <1>10, <1>11, <2>1, <2>2 DEF tick
<1>12. ASSUME NEW w \in Worker, abort(w) PROVE Stays
  BY <1>6, <1>12
<1>13. CASE elapse
  BY <1>7, <1>13
<1> QED BY <1>11, <1>12, <1>13

\* Whatever became of the registration since, a message only goes to a destination its user
\* has verified for that channel (enqueue_outbound's resolution, and a queue that never
\* changes an address).
THEOREM OnlyVerified == ASSUME ChannelsAsInCode PROVE DSpec => []QueuedWasVerified
<1> DEFINE Inv == MarksProven /\ Handled /\ QueuedWasVerified
<1>1. DInit => Inv
  BY DEF DInit, Init, NoRow, Unregistered, MarksProven, Handled, QueuedWasVerified
<1>2. TypeOK /\ Registered /\ Inv /\ [DNext]_allvars => Inv'
  <2> SUFFICES ASSUME TypeOK, Registered, Inv, [DNext]_allvars PROVE Inv'
    OBVIOUS
  <2> USE DEF Inv
  <2>1. ASSUME NEW u \in User, EnqueueFor(u) PROVE Inv'
    <3>1. PICK tokens \in SUBSET {t \in Tokens : devices[t] = u}, first \in Absent,
               S \in SUBSET Absent :
             /\ first \notin S
             /\ \E map \in Injections(S, tokens) :
                   enqueue_outbound(u, Resolve(u), first, map)
      BY <2>1 DEF EnqueueFor
    <3>2. PICK map \in Injections(S, tokens) : enqueue_outbound(u, Resolve(u), first, map)
      BY <3>1
    <3>3. UNCHANGED <<batch, sending, dvars>>
      BY <2>1, <3>2 DEF EnqueueFor, enqueue_outbound
    <3>4. row' = [m \in Msg |-> CASE m = first -> Resolve(u)
                                 [] m \in DOMAIN map -> NewRow(u, "queued", "push", map[m])
                                 [] OTHER -> row[m]]
      BY <3>2 DEF enqueue_outbound
    <3>5. first \in Msg /\ DOMAIN map \subseteq Absent /\ Absent \subseteq Msg /\ first \notin DOMAIN map
      BY <3>1 DEF Injections, Absent
    <3>6. row'[first] = Resolve(u)
      BY <3>4, <3>5
    <3>7. \A m \in DOMAIN map : row'[m].channel = "push"
      BY <3>4, <3>5 DEF NewRow
    <3>8. \A m \in Msg \ (DOMAIN map \cup {first}) : row'[m] = row[m]
      BY <3>4, <3>5
    <3>9. \A m \in Msg : row[m].status # "absent" => row'[m] = row[m]
      BY <3>5, <3>8 DEF Absent
    <3>10. Handled'
      BY <3>3, <3>9 DEF Handled, TypeOK
    <3>11. QueuedWasVerified'
      <4>1. verified' = verified
        BY <3>3 DEF dvars
      <4>2. Resolve(u).status = "queued" =>
               <<Resolve(u).channel, Resolve(u).dest>> \in verified[Resolve(u).user]
        BY Resolved DEF MarksProven
      <4>3. Resolve(u).status \in {"queued", "skipped"}
        BY Resolved
      <4> QED BY <3>6, <3>7, <3>8, <4>1, <4>2, <4>3 DEF QueuedWasVerified, ChannelsAsInCode
    <3>12. MarksProven'
      BY <3>3 DEF MarksProven, dvars
    <3> QED BY <3>10, <3>11, <3>12
  <2>2. ASSUME NEW u \in User, NEW c \in CHANNELS, NEW d \in Address, Register(u, c, d)
        PROVE Inv'
    <3>1. MarksProven'
      BY <2>2 DEF Register, MarksProven, Upserted, Registered
    <3> QED BY <2>2, <3>1 DEF Register, vars, Handled, QueuedWasVerified
  <2>3. ASSUME NEW u \in User, NEW c \in CHANNELS, Verify(u, c) PROVE Inv'
    <3>1. MarksProven'
      BY <2>3 DEF Verify, MarksProven, MarkedVerified, Registered, Reg
    <3>2. \A v \in User : verified[v] \subseteq verified'[v]
      BY <2>3 DEF Verify, Registered
    <3>3. QueuedWasVerified'
      BY <2>3, <3>2 DEF Verify, vars, QueuedWasVerified
    <3> QED BY <2>3, <3>1, <3>3 DEF Verify, vars, Handled
  <2>4. ASSUME NEW u \in User, NEW c \in CHANNELS \cup {None}, Prefer(u, c) PROVE Inv'
    BY <2>4 DEF Prefer, vars, MarksProven, Handled, QueuedWasVerified
  <2>5. ASSUME NEW c \in CHANNELS, NEW d \in Address, NEW flag \in BOOLEAN, OptOut(c, d, flag)
        PROVE Inv'
    <3>1. MarksProven'
      BY <2>5 DEF OptOut, OptedOut, MarksProven, Registered, Reg
    <3> QED BY <2>5, <3>1 DEF OptOut, vars, Handled, QueuedWasVerified
  <2>6. ASSUME NEW u \in User, ChangePlan(u) PROVE Inv'
    BY <2>6 DEF ChangePlan, vars, MarksProven, Handled, QueuedWasVerified
  <2>7. ASSUME NEW u \in User, DeleteUser(u) PROVE Inv'
    <3>1. MarksProven'
      BY <2>7 DEF DeleteUser, MarksProven, Unregistered, Registered
    <3>2. \A m \in Msg : row'[m] = row[m] \/ row'[m].status = "gone"
      BY <2>7 DEF DeleteUser, delete_user_data, TypeOK, Row
    <3>3. UNCHANGED <<batch, sending, verified>>
      BY <2>7 DEF DeleteUser, delete_user_data
    <3>4. Handled' /\ QueuedWasVerified'
      BY <3>2, <3>3 DEF Handled, QueuedWasVerified, TypeOK
    <3> QED BY <3>1, <3>4
  <2>8. ASSUME NEW t \in Tokens, NEW u \in User \cup {None}, SetDevice(t, u) PROVE Inv'
    BY <2>8 DEF SetDevice, vars, MarksProven, Handled, QueuedWasVerified
  <2>9. CASE (elapse \/ \E w \in Worker : tick(w) \/ abort(w)) /\ UNCHANGED dvars
    <3>1. MarksProven'
      BY <2>9 DEF MarksProven, dvars
    <3> QED BY <2>9, <3>1, AddressStays DEF QueuedWasVerified, dvars
  <2>10. CASE UNCHANGED allvars
    BY <2>10 DEF allvars, vars, dvars, MarksProven, Handled, QueuedWasVerified
  <2> QED BY <2>1, <2>2, <2>3, <2>4, <2>5, <2>6, <2>7, <2>8, <2>9, <2>10 DEF DNext
<1> QED BY <1>1, <1>2, Embedding, TypeCorrect, RegistrationTypes, PTL DEF DSpec
=============================================================================
