------------------------------ MODULE Delivery ------------------------------
(***************************************************************************)
(* The queue together with what fills it: the users' registrations, plans  *)
(* and devices, from which enqueue_outbound resolves where a message goes. *)
(* The resolution is a snapshot taken at enqueue time; registrations and   *)
(* plans go on changing while the row waits in the queue.                  *)
(***************************************************************************)
EXTENDS Outbox

CONSTANTS
    Owner,   \* DEFAULT_USER_ID, which is Pro whatever its plan column says
    Tokens   \* the destinations that are device push tokens

ASSUME TokensAssumption == Tokens \subseteq Dest

INSTANCE Registration WITH NoDest <- None

VARIABLES
    chan,       \* notification_channels
    preferred,  \* users.preferred_channel
    pro,        \* the users whose effective plan is "pro"
    devices,    \* push_devices: the user of each token that is not disabled
    verified    \* verified[u]: destinations u ever verified (history)

dvars == <<chan, preferred, pro, devices, verified>>
allvars == <<vars, dvars>>

Address == Dest \ Tokens

DTypeOK ==
    /\ TypeOK
    /\ chan \in [User -> [CHANNELS -> Reg]]
    /\ preferred \in [User -> CHANNELS \cup {None}]
    /\ pro \in SUBSET User
    /\ devices \in [Tokens -> User \cup {None}]
    /\ verified \in [User -> SUBSET (CHANNELS \X Dest)]

DInit ==
    /\ Init
    /\ chan = [u \in User |-> [c \in CHANNELS |-> Unregistered]]
    /\ preferred = [u \in User |-> None]
    /\ pro \in SUBSET User
    /\ devices = [t \in Tokens |-> None]
    /\ verified = [u \in User |-> {}]

-----------------------------------------------------------------------------
IsPro(u) == u = Owner \/ u \in pro

\* The row enqueue_outbound writes for the preferred channel: queued there, by
\* email when SMS is preferred without Pro, or skipped.
Resolve(u) ==
    LET c == preferred[u]
        email == chan[u]["email"]
        skipped == NewRow(u, "skipped", None, None)
        queued(to) == NewRow(u, "queued", to, chan[u][to].dest)
    IN IF c = None \/ ~Usable(chan[u][c]) THEN skipped
       ELSE IF c = "sms" /\ ~IsPro(u)
            THEN IF Usable(email) THEN queued("email") ELSE skipped
            ELSE queued(c)

\* The whole of enqueue_outbound: besides the resolved row, one push row for each
\* of the user's devices that takes messages of this kind, if any.
EnqueueFor(u) ==
    /\ \E tokens \in SUBSET {t \in Tokens : devices[t] = u},
          first \in Absent, S \in SUBSET Absent :
          /\ first \notin S
          /\ Cardinality(S) = Cardinality(tokens)
          /\ \E map \in Injections(S, tokens) :
                enqueue_outbound(u, Resolve(u), first, map)
    /\ UNCHANGED dvars

\* upsert_notification_channel, by a registration request.
Register(u, c, d) ==
    /\ chan[u][c].dest # d
    /\ chan' = [chan EXCEPT ![u][c] = Upserted(@, d)]
    /\ UNCHANGED <<vars, preferred, pro, devices, verified>>

\* check_code with the right code: verified, and preferred from now on.
Verify(u, c) ==
    /\ chan[u][c].dest # None
    /\ chan' = [chan EXCEPT ![u][c] = MarkedVerified(@)]
    /\ preferred' = [preferred EXCEPT ![u] = c]
    /\ verified' = [verified EXCEPT ![u] = @ \cup {<<c, chan[u][c].dest>>}]
    /\ UNCHANGED <<vars, pro, devices>>

\* POST /me/notifications/preferred.
Prefer(u, c) ==
    /\ c # None => Usable(chan[u][c]) /\ (c = "sms" => IsPro(u))
    /\ preferred' = [preferred EXCEPT ![u] = c]
    /\ UNCHANGED <<vars, chan, pro, devices, verified>>

\* STOP and START texts, and the unsubscribe link.
OptOut(c, d, flag) ==
    /\ chan' = OptedOut(chan, c, d, flag)
    /\ chan' # chan
    /\ UNCHANGED <<vars, preferred, pro, devices, verified>>

\* A subscription or trial starts or ends.
ChangePlan(u) ==
    /\ pro' = IF u \in pro THEN pro \ {u} ELSE pro \cup {u}
    /\ UNCHANGED <<vars, chan, preferred, devices, verified>>

\* upsert_push_device moves the token; disable_push_device drops it.
SetDevice(t, u) ==
    /\ devices' = [devices EXCEPT ![t] = u]
    /\ UNCHANGED <<vars, chan, preferred, pro, verified>>

\* delete_user_data takes the registrations with the messages; the devices go
\* with the users row (ON DELETE CASCADE).
DeleteUser(u) ==
    /\ delete_user_data(u)
    /\ chan' = [chan EXCEPT ![u] = [c \in CHANNELS |-> Unregistered]]
    /\ preferred' = [preferred EXCEPT ![u] = None]
    /\ devices' = [t \in Tokens |-> IF devices[t] = u THEN None ELSE devices[t]]
    /\ UNCHANGED <<pro, verified>>

DNext ==
    \/ \E u \in User : EnqueueFor(u)
    \/ \E u \in User, c \in CHANNELS : Verify(u, c) \/ Prefer(u, c)
    \/ \E u \in User : Prefer(u, None)
    \/ \E u \in User, c \in CHANNELS, d \in Address : Register(u, c, d)
    \/ \E c \in CHANNELS, d \in Address, flag \in BOOLEAN : OptOut(c, d, flag)
    \/ \E u \in User : ChangePlan(u) \/ DeleteUser(u)
    \/ \E t \in Tokens, u \in User \cup {None} : SetDevice(t, u)
    \/ (elapse \/ \E w \in Worker : tick(w) \/ abort(w)) /\ UNCHANGED dvars

DSpec == DInit /\ [][DNext]_allvars

-----------------------------------------------------------------------------
(***************************************************************************)
(* Properties                                                              *)
(***************************************************************************)

\* Whatever became of the registration since, a message only ever goes to a
\* destination its user has verified for that channel.
QueuedWasVerified ==
    \A m \in Msg :
       row[m].status \in {"queued", "sent", "failed"} /\ row[m].channel \in CHANNELS
          => <<row[m].channel, row[m].dest>> \in verified[row[m].user]
=============================================================================
