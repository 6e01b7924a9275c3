---------------------------- MODULE Verification ----------------------------
(***************************************************************************)
(* Destination-ownership verification: the requests that register a        *)
(* destination and check a one-time code (verification.issue_code,         *)
(* check_code), and the Discord OAuth callback.  Each await of a request   *)
(* is a boundary between two actions.  The model covers one rate-limit     *)
(* window: every code counts against the hourly and daily limits.          *)
(***************************************************************************)
EXTENDS Integers, Sequences, FiniteSets, Registration

CONSTANTS
    Req,                   \* request handlers
    MAX_CHECK_ATTEMPTS,
    MAX_SENDS_PER_DESTINATION_PER_HOUR,
    MAX_SENDS_PER_USER_PER_DAY,
    MaxCodes               \* bound: codes issued in a behaviour

LimitsAssumption ==
    /\ MAX_CHECK_ATTEMPTS \in Nat \ {0}
    /\ MAX_SENDS_PER_DESTINATION_PER_HOUR \in Nat
    /\ MAX_SENDS_PER_USER_PER_DAY \in Nat
    /\ MaxCodes \in Nat

VARIABLES
    chan,       \* notification_channels: chan[u][c]
    preferred,  \* users.preferred_channel, or NoDest
    codes,      \* verification_codes, in created_at order
    req,        \* req[r]: the request's position and its local variables
    proven,     \* proven[u]: channels and destinations u proved (history)
    guesses,    \* guesses[k]: wrong codes compared with code k (history)
    raced       \* users and destinations two of whose requests overlapped, and
                \* users one of whose requests stopped half-way (history)

vars == <<chan, preferred, codes, req, proven, guesses, raced>>

CodeId == 1..MaxCodes

\* live: neither consumed nor expired.
Code == [user: User, channel: CHANNELS, dest: Dest, live: BOOLEAN, attempts: Nat]

Pc == {"idle", "count_user", "upsert", "read_stale", "create",
       "lookup", "wrong", "bump", "consume", "mark", "prefer", "oauth"}

Idle == [pc |-> "idle", user |-> NoDest, channel |-> NoDest, dest |-> NoDest,
         entered |-> 0, code |-> 0, attempts |-> 0, stale |-> {}]

TypeOK ==
    /\ chan \in [User -> [CHANNELS -> Reg]]
    /\ preferred \in [User -> CHANNELS \cup {NoDest}]
    /\ codes \in Seq(Code) /\ Len(codes) <= MaxCodes
    /\ req \in [Req -> [pc: Pc, user: User \cup {NoDest},
                        channel: CHANNELS \cup {NoDest},
                        dest: Dest \cup {NoDest}, entered: 0..MaxCodes,
                        code: 0..MaxCodes, attempts: Nat, stale: SUBSET CodeId]]
    /\ proven \in [User -> SUBSET (CHANNELS \X Dest)]
    /\ guesses \in [CodeId -> Nat]
    /\ raced \subseteq User \cup Dest

Init ==
    /\ chan = [u \in User |-> [c \in CHANNELS |-> Unregistered]]
    /\ preferred = [u \in User |-> NoDest]
    /\ codes = <<>>
    /\ req = [r \in Req |-> Idle]
    /\ proven = [u \in User |-> {}]
    /\ guesses = [k \in CodeId |-> 0]
    /\ raced = {}

-----------------------------------------------------------------------------
at(r, pc) == req[r].pc = pc
goto(r, pc) == req' = [req EXCEPT ![r].pc = pc]
finish(r) == req' = [req EXCEPT ![r] = Idle]

\* The requests of user u, and those about to issue a code for destination d.
Of(u) == {r \in Req : req[r].user = u}
Issuing(d) == {r \in Req : /\ req[r].dest = d
                           /\ req[r].pc \in {"count_user", "upsert", "read_stale", "create"}}

begin(r, u, c, d, k, pc) ==
    /\ at(r, "idle")
    /\ req' = [req EXCEPT ![r] =
                 [Idle EXCEPT !.pc = pc, !.user = u, !.channel = c, !.dest = d,
                              !.entered = k]]
    /\ raced' = raced \cup {v \in {u} : Of(v) # {}}
                     \cup {e \in {d} \cap Dest : Issuing(e) # {}}

\* The adapter and the destination's form are checked (both are abstracted to
\* the choice of c and d), then the codes sent to the destination are counted.
issue_code(r, u, c, d) ==
    /\ Cardinality({k \in DOMAIN codes : codes[k].dest = d})
         < MAX_SENDS_PER_DESTINATION_PER_HOUR
    /\ begin(r, u, c, d, 0, "count_user")
    /\ UNCHANGED <<chan, preferred, codes, proven, guesses>>

count_user(r) ==
    /\ at(r, "count_user")
    /\ IF Cardinality({k \in DOMAIN codes : codes[k].user = req[r].user})
            >= MAX_SENDS_PER_USER_PER_DAY
       THEN finish(r)
       ELSE goto(r, "upsert")
    /\ UNCHANGED <<chan, preferred, codes, proven, guesses, raced>>

upsert_notification_channel(r, next) ==
    /\ chan' = [chan EXCEPT ![req[r].user][req[r].channel] =
                  Upserted(@, req[r].dest)]
    /\ goto(r, next)
    /\ UNCHANGED <<preferred, codes, proven, guesses, raced>>

issue_upsert(r) == at(r, "upsert") /\ upsert_notification_channel(r, "read_stale")

Live(u, c) == {k \in DOMAIN codes :
                 codes[k].user = u /\ codes[k].channel = c /\ codes[k].live}

\* create_verification_code: the SELECT of the live codes of the channel ...
read_stale(r) ==
    /\ at(r, "read_stale")
    /\ req' = [req EXCEPT ![r].pc = "create",
                          ![r].stale = Live(req[r].user, req[r].channel)]
    /\ UNCHANGED <<chan, preferred, codes, proven, guesses, raced>>

\* ... and the commit that consumes those and inserts the new one.  The answer
\* of adapter.send, 202 or 502, changes nothing: the request is over.
create_verification_code(r) ==
    /\ at(r, "create")
    /\ Len(codes) < MaxCodes
    /\ codes' = Append([k \in DOMAIN codes |->
                          IF k \in req[r].stale
                          THEN [codes[k] EXCEPT !.live = FALSE] ELSE codes[k]],
                       [user |-> req[r].user, channel |-> req[r].channel,
                        dest |-> req[r].dest, live |-> TRUE, attempts |-> 0])
    /\ finish(r)
    /\ UNCHANGED <<chan, preferred, proven, guesses, raced>>

-----------------------------------------------------------------------------
\* A user submits code k, or a wrong one (k = 0).
check_code(r, u, c, k) ==
    /\ begin(r, u, c, NoDest, k, "lookup")
    /\ UNCHANGED <<chan, preferred, codes, proven, guesses>>

\* The attempts read with the code are compared with the limit, then the codes.
compare(r, k) ==
    \/ /\ codes[k].attempts >= MAX_CHECK_ATTEMPTS
       /\ finish(r)
       /\ UNCHANGED <<guesses, proven>>
    \/ /\ codes[k].attempts < MAX_CHECK_ATTEMPTS
       /\ req[r].entered = k
       /\ req' = [req EXCEPT ![r].pc = "consume", ![r].code = k]
       /\ proven' = [proven EXCEPT ![req[r].user] =
                       @ \cup {<<codes[k].channel, codes[k].dest>>}]
       /\ UNCHANGED guesses
    \/ /\ codes[k].attempts < MAX_CHECK_ATTEMPTS
       /\ req[r].entered # k
       /\ req' = [req EXCEPT ![r].pc = "wrong", ![r].code = k]
       /\ guesses' = [guesses EXCEPT ![k] = @ + 1]
       /\ UNCHANGED proven

\* latest_verification_code reads the newest live code; nothing is awaited
\* between that and the comparison.
latest_verification_code(r) ==
    LET live == Live(req[r].user, req[r].channel)
    IN /\ at(r, "lookup")
       /\ IF live = {} THEN finish(r) /\ UNCHANGED <<guesses, proven>>
          ELSE compare(r, CHOOSE k \in live : \A j \in live : j <= k)
       /\ UNCHANGED <<chan, preferred, codes, raced>>

\* Mutant of read_code: the attempt is not counted.
read_code_uncounted(r) ==
    /\ at(r, "wrong")
    /\ req' = [req EXCEPT ![r].pc = "bump", ![r].attempts = codes[req[r].code].attempts]
    /\ UNCHANGED <<chan, preferred, codes, proven, guesses, raced>>

\* record_code_attempt: the SELECT ...
read_code(r) ==
    /\ at(r, "wrong")
    /\ req' = [req EXCEPT ![r].pc = "bump",
                          ![r].attempts = codes[req[r].code].attempts + 1]
    /\ UNCHANGED <<chan, preferred, codes, proven, guesses, raced>>

\* ... and the UPDATE with the value computed from it.
record_code_attempt(r) ==
    /\ at(r, "bump")
    /\ codes' = [codes EXCEPT ![req[r].code].attempts = req[r].attempts]
    /\ finish(r)
    /\ UNCHANGED <<chan, preferred, proven, guesses, raced>>

consume_verification_code(r) ==
    /\ at(r, "consume")
    /\ codes' = [codes EXCEPT ![req[r].code].live = FALSE]
    /\ goto(r, "mark")
    /\ UNCHANGED <<chan, preferred, proven, guesses, raced>>

mark_channel_verified(r) ==
    /\ at(r, "mark")
    /\ chan' = [chan EXCEPT ![req[r].user][req[r].channel] = MarkedVerified(@)]
    /\ goto(r, "prefer")
    /\ UNCHANGED <<preferred, codes, proven, guesses, raced>>

set_preferred_channel(r) ==
    LET u == req[r].user
        c == req[r].channel
    IN /\ at(r, "prefer")
       /\ preferred' = IF Usable(chan[u][c]) THEN [preferred EXCEPT ![u] = c]
                       ELSE preferred
       /\ finish(r)
       /\ UNCHANGED <<chan, codes, proven, guesses, raced>>

\* discord_oauth_callback: the exchanged webhook belongs to the user, so it is
\* registered and marked verified without a code.
discord_oauth_callback(r, u, d) ==
    /\ begin(r, u, "discord", d, 0, "oauth")
    /\ proven' = [proven EXCEPT ![u] = @ \cup {<<"discord", d>>}]
    /\ UNCHANGED <<chan, preferred, codes, guesses>>

oauth_upsert(r) == at(r, "oauth") /\ upsert_notification_channel(r, "mark")

-----------------------------------------------------------------------------
\* CODE_TTL_SECONDS pass for a code.
expire(k) ==
    /\ codes[k].live
    /\ codes' = [codes EXCEPT ![k].live = FALSE]
    /\ UNCHANGED <<chan, preferred, req, proven, guesses, raced>>

\* STOP and START texts, and the unsubscribe link.
set_opt_out_by_destination(c, d, flag) ==
    /\ chan' = OptedOut(chan, c, d, flag)
    /\ chan' # chan
    /\ UNCHANGED <<preferred, codes, req, proven, guesses, raced>>

\* The request dies between two steps (a restart, or a database error).  Bound:
\* at most one request of a user dies, and none after two of them overlapped.
die(r) ==
    /\ ~at(r, "idle")
    /\ req[r].user \notin raced
    /\ raced' = raced \cup {req[r].user}
    /\ finish(r)
    /\ UNCHANGED <<chan, preferred, codes, proven, guesses>>

step(r) ==
    \/ count_user(r) \/ issue_upsert(r) \/ read_stale(r)
    \/ create_verification_code(r) \/ latest_verification_code(r) \/ read_code(r)
    \/ record_code_attempt(r) \/ consume_verification_code(r) \/ mark_channel_verified(r)
    \/ set_preferred_channel(r) \/ oauth_upsert(r)

request(r) ==
    \E u \in User, c \in CHANNELS :
       \/ \E d \in Dest : issue_code(r, u, c, d)
       \/ \E k \in {0} \cup {j \in DOMAIN codes : codes[j].user = u} :
             check_code(r, u, c, k)
       \/ \E d \in Dest : c = "discord" /\ discord_oauth_callback(r, u, d)

Next ==
    \/ \E r \in Req : request(r) \/ step(r) \/ die(r)
    \/ \E k \in DOMAIN codes : expire(k)
    \/ \E c \in CHANNELS, d \in Dest, flag \in BOOLEAN :
          set_opt_out_by_destination(c, d, flag)

Spec == Init /\ [][Next]_vars

-----------------------------------------------------------------------------
(***************************************************************************)
(* Properties                                                              *)
(***************************************************************************)

\* "Destination-ownership verification": a registration marked verified shows a
\* destination whose own code the user entered (or that OAuth handed over),
\* unless two of the user's requests overlapped or one stopped half-way.
OwnershipProven ==
    \A u \in User \ raced, c \in CHANNELS :
       chan[u][c].verified => <<c, chan[u][c].dest>> \in proven[u]

\* No code is compared with more than MAX_CHECK_ATTEMPTS wrong ones, unless two
\* of its user's requests overlapped or one stopped half-way.
GuessBudget ==
    \A k \in DOMAIN codes :
       codes[k].user \notin raced => guesses[k] <= MAX_CHECK_ATTEMPTS

\* A user has at most one live code for a channel, unless two of the user's
\* requests overlapped: "only the latest code checks out".
OneLiveCode ==
    \A u \in User \ raced, c \in CHANNELS : Cardinality(Live(u, c)) <= 1

\* At most MAX_SENDS_PER_DESTINATION_PER_HOUR codes go to one destination,
\* whoever asks for them, unless two requests for it overlapped.
DestinationLimited ==
    \A d \in Dest \ raced : Cardinality({k \in DOMAIN codes : codes[k].dest = d})
                               <= MAX_SENDS_PER_DESTINATION_PER_HOUR

\* Codes are few, and each is guessed at a bounded number of times.
CodeLimits == GuessBudget /\ OneLiveCode /\ DestinationLimited
=============================================================================
