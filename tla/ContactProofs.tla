---------------------------- MODULE ContactProofs ----------------------------
(***************************************************************************)
(* Theorems about the proof of a destination, Verification, as the         *)
(* instance Owned of MC_Contact, and about that run's SumSpec, whose other *)
(* part is the Delivery of DeliveryProofs.                                 *)
(*                                                                         *)
(* The argument is per user and per destination.  As long as no two of a   *)
(* user's requests overlap and none stops half-way, CodeSafe holds of the  *)
(* user: a step of one of the user's requests is taken by the only one     *)
(* (CodeAlone), and a step of anything else leaves what CodeSafe speaks of *)
(* alone, but that codes die and requests end (CodeFramed).                *)
(***************************************************************************)
EXTENDS MC_Contact, DeliveryProofs, FiniteSetTheorems, WellFoundedInduction

CodeRequest == [pc: Owned!Pc, user: CodeUser \cup {NoDest}, channel: CodeChannels \cup {NoDest},
            dest: CodeDest \cup {NoDest}, entered: 0..MaxCodes,
            code: 0..MaxCodes, attempts: Nat, stale: SUBSET Owned!CodeId]

\* The variables keep their types; a request under way knows its user and channel, one that
\* registers knows its destination, and one that was compared with a code names a code of
\* its user and channel; and a code that was not issued was not compared with.
CodeFormed(r) ==
    /\ req[r].pc # "idle" => req[r].user \in CodeUser /\ req[r].channel \in CodeChannels
    /\ req[r].pc \in {"count_user", "upsert", "read_stale", "create", "oauth"} =>
          req[r].dest \in CodeDest
    /\ req[r].pc \in {"wrong", "bump", "consume"} =>
          /\ req[r].code \in DOMAIN codes
          /\ codes[req[r].code].user = req[r].user
          /\ codes[req[r].code].channel = req[r].channel

CodeTyped ==
    /\ Owned!TypeOK
    /\ \A r \in Req : CodeFormed(r)
    /\ \A k \in Owned!CodeId : k \notin DOMAIN codes => guesses[k] = 0

\* A registration that is written over stays one.
LEMMA CodeRegType ==
  ASSUME NEW reg \in Owned!Reg, NEW d \in CodeDest \cup {NoDest}
  PROVE  /\ Owned!Upserted(reg, d) \in Owned!Reg /\ Owned!MarkedVerified(reg) \in Owned!Reg /\ Owned!Unregistered \in Owned!Reg
         /\ \A flag \in BOOLEAN : [reg EXCEPT !.opted_out = flag] \in Owned!Reg
BY DEF Owned!Upserted, Owned!MarkedVerified, Owned!Unregistered, Owned!Reg

\* Only request r moves, to the given position.
LEMMA CodeMoved ==
  ASSUME Owned!TypeOK, NEW r \in Req, NEW pc \in Owned!Pc, Owned!goto(r, pc)
  PROVE  /\ req' \in [Req -> CodeRequest]
         /\ \A q \in Req : q # r => req'[q] = req[q]
         /\ req'[r].pc = pc /\ req'[r].user = req[r].user
         /\ req'[r].channel = req[r].channel /\ req'[r].dest = req[r].dest
         /\ req'[r].code = req[r].code /\ req'[r].attempts = req[r].attempts
         /\ req'[r].stale = req[r].stale
<1>1. req' = [req EXCEPT ![r] = [req[r] EXCEPT !.pc = pc]] /\ req[r] \in CodeRequest
  BY DEF Owned!goto, Owned!TypeOK, CodeRequest
<1>2. [req[r] EXCEPT !.pc = pc] \in CodeRequest
  BY <1>1 DEF CodeRequest
<1> QED BY <1>1, <1>2 DEF Owned!TypeOK, CodeRequest

\* Request r is over.
LEMMA CodeFinished ==
  ASSUME Owned!LimitsAssumption, Owned!TypeOK, NEW r \in Req, Owned!finish(r)
  PROVE  /\ req' \in [Req -> CodeRequest]
         /\ \A q \in Req : q # r => req'[q] = req[q]
         /\ req'[r].pc = "idle"
<1>1. Owned!Idle \in CodeRequest
  BY DEF Owned!Idle, CodeRequest, Owned!Pc, Owned!LimitsAssumption
<1>2. Owned!Idle.pc = "idle"
  BY DEF Owned!Idle
<1> QED BY <1>1, <1>2 DEF Owned!finish, Owned!TypeOK, CodeRequest

\* Request r starts.
LEMMA CodeBegun ==
  ASSUME Owned!LimitsAssumption, Owned!TypeOK, NEW r \in Req, NEW u \in CodeUser, NEW c \in CodeChannels,
         NEW d \in CodeDest \cup {NoDest}, NEW k \in 0..MaxCodes, NEW pc \in Owned!Pc,
         Owned!begin(r, u, c, d, k, pc)
  PROVE  /\ req' \in [Req -> CodeRequest]
         /\ \A q \in Req : q # r => req'[q] = req[q]
         /\ req[r].pc = "idle" /\ req'[r].pc = pc /\ req'[r].user = u
         /\ req'[r].channel = c /\ req'[r].dest = d
         /\ raced' \subseteq CodeUser \cup CodeDest /\ raced \subseteq raced'
         /\ u \notin raced' => \A q \in Req : req[q].user # u
         /\ d \in CodeDest \ raced' => Owned!Issuing(d) = {}
<1> DEFINE R == [Owned!Idle EXCEPT !.pc = pc, !.user = u, !.channel = c, !.dest = d,
                             !.entered = k]
<1>1. R \in CodeRequest
  <2> DEFINE I1 == [Owned!Idle EXCEPT !.pc = pc]
             I2 == [I1 EXCEPT !.user = u]
             I3 == [I2 EXCEPT !.channel = c]
             I4 == [I3 EXCEPT !.dest = d]
  <2>1. R = [I4 EXCEPT !.entered = k]
    OBVIOUS
  <2>2. I1 \in CodeRequest
    BY DEF Owned!Idle, CodeRequest, Owned!LimitsAssumption
  <2>3. I2 \in CodeRequest
    BY <2>2 DEF CodeRequest
  <2>4. I3 \in CodeRequest
    BY <2>3 DEF CodeRequest
  <2>5. I4 \in CodeRequest
    BY <2>4 DEF CodeRequest
  <2> HIDE DEF I4, R
  <2> QED BY <2>1, <2>5 DEF CodeRequest
<1>3. req' = [req EXCEPT ![r] = R]
  BY DEF Owned!begin
<1>4. R.pc = pc /\ R.user = u /\ R.channel = c /\ R.dest = d
  BY DEF Owned!Idle
<1> HIDE DEF R
<1>5. /\ req' \in [Req -> CodeRequest] /\ req'[r] = R
      /\ \A q \in Req : q # r => req'[q] = req[q]
  BY <1>1, <1>3 DEF Owned!TypeOK, CodeRequest
<1>6. raced' \subseteq CodeUser \cup CodeDest /\ raced \subseteq raced'
  BY DEF Owned!begin, Owned!TypeOK
<1>7. u \notin raced' => \A q \in Req : req[q].user # u
  BY DEF Owned!begin, Owned!Of
<1>8. d \in CodeDest \ raced' => Owned!Issuing(d) = {}
  BY DEF Owned!begin
<1> QED BY <1>4, <1>5, <1>6, <1>7, <1>8 DEF Owned!begin, Owned!at

\* Every step keeps the owner, channel and destination of the codes there are.
CodeKept == /\ DOMAIN codes \subseteq DOMAIN codes'
            /\ \A k \in DOMAIN codes : /\ codes'[k].user = codes[k].user
                                       /\ codes'[k].channel = codes[k].channel
                                       /\ codes'[k].dest = codes[k].dest

\* A code that exists is a code, with a number.
LEMMA CodeField ==
  ASSUME Owned!LimitsAssumption, Owned!TypeOK, NEW k \in DOMAIN codes
  PROVE  /\ k \in Owned!CodeId /\ codes[k] \in Owned!Code /\ DOMAIN codes = 1..Len(codes)
         /\ Len(codes) \in Nat
BY DEF Owned!TypeOK, Owned!CodeId, Owned!LimitsAssumption

\* A set of natural numbers has a least one, and one of numbers up to n a greatest one.
LEMMA CodeLeast ==
  ASSUME NEW S \in SUBSET Nat, S # {} PROVE \E x \in S : \A y \in S : x <= y
<1> DEFINE Rel == {ss \in Nat \X Nat : ss[1] < ss[2]}
<1>1. IsWellFoundedOn(Rel, Nat)
  BY NatLessThanWellFounded DEF OpToRel
<1>2. \A x, y \in S : <<y, x>> \in Rel <=> y < x
  OBVIOUS
<1> HIDE DEF Rel
<1>3. \E x \in S : \A y \in S : ~ (<<y, x>> \in Rel)
  BY <1>1, WFMin
<1>4. \E x \in S : \A y \in S : ~ (y < x)
  BY <1>2, <1>3
<1> QED BY <1>4

\* The other end of such a set: latest_verification_code takes the greatest number.
LEMMA CodeGreatest ==
  ASSUME NEW n \in Nat, NEW S \in SUBSET (1..n), S # {}
  PROVE  \E k \in S : \A j \in S : j <= k
<1> DEFINE T == {n - k : k \in S}
<1>1. T \in SUBSET Nat
  OBVIOUS
<1>2. PICK s \in S : TRUE
  OBVIOUS
<1>3. n - s \in T
  BY <1>2
<1>4. PICK x \in T : \A y \in T : x <= y
  BY <1>1, <1>3, CodeLeast
<1>5. PICK k \in S : x = n - k
  BY <1>4
<1>6. \A j \in S : n - k <= n - j
  BY <1>4, <1>5
<1> QED BY <1>6

\* What the lookup of a code may do: end the request, or move it on to a live code of its
\* user and channel, right or wrong.
LEMMA CodeCompared ==
  ASSUME Owned!LimitsAssumption, Owned!TypeOK, NEW r \in Req, Owned!latest_verification_code(r)
  PROVE  /\ req[r].pc = "lookup"
         /\ UNCHANGED <<code_chan, code_preferred, codes, raced>>
         /\ \/ Owned!finish(r) /\ UNCHANGED <<guesses, proven>>
            \/ \E k \in Owned!Live(req[r].user, req[r].channel) :
                  /\ codes[k].attempts < MAX_CHECK_ATTEMPTS
                  /\ \/ /\ req' = [req EXCEPT ![r].pc = "consume", ![r].code = k]
                        /\ proven' = [proven EXCEPT ![req[r].user] =
                                        @ \cup {<<codes[k].channel, codes[k].dest>>}]
                        /\ UNCHANGED guesses
                     \/ /\ req' = [req EXCEPT ![r].pc = "wrong", ![r].code = k]
                        /\ guesses' = [guesses EXCEPT ![k] = @ + 1]
                        /\ UNCHANGED proven
<1> DEFINE live == Owned!Live(req[r].user, req[r].channel)
           k == CHOOSE i \in live : \A j \in live : j <= i
<1>1. CASE live = {}
  BY <1>1 DEF Owned!latest_verification_code, Owned!at
<1>2. CASE live # {}
  <2>1. live \in SUBSET (1..Len(codes)) /\ Len(codes) \in Nat
    BY DEF Owned!Live, Owned!TypeOK
  <2>2. \E i \in live : \A j \in live : j <= i
    BY <1>2, <2>1, CodeGreatest
  <2>3. k \in live
    BY <2>2
  <2>4. Owned!compare(r, k)
    BY <1>2 DEF Owned!latest_verification_code
  <2>5. req[r].pc = "lookup" /\ UNCHANGED <<code_chan, code_preferred, codes, raced>>
    BY DEF Owned!latest_verification_code, Owned!at
  <2> HIDE DEF k, live
  <2>6. \/ Owned!finish(r) /\ UNCHANGED <<guesses, proven>>
        \/ /\ codes[k].attempts < MAX_CHECK_ATTEMPTS
           /\ \/ /\ req' = [req EXCEPT ![r].pc = "consume", ![r].code = k]
                 /\ proven' = [proven EXCEPT ![req[r].user] =
                                        @ \cup {<<codes[k].channel, codes[k].dest>>}]
                 /\ UNCHANGED guesses
              \/ /\ req' = [req EXCEPT ![r].pc = "wrong", ![r].code = k]
                 /\ guesses' = [guesses EXCEPT ![k] = @ + 1]
                 /\ UNCHANGED proven
    BY <2>4 DEF Owned!compare
  <2> QED BY <2>3, <2>5, <2>6 DEF live
<1> QED BY <1>1, <1>2

\* A request that was looked up is at its code.
LEMMA CodeAtCode ==
  ASSUME Owned!LimitsAssumption, Owned!TypeOK, NEW r \in Req, NEW k \in Owned!CodeId, NEW pc \in {"consume", "wrong"},
         req' = [req EXCEPT ![r].pc = pc, ![r].code = k]
  PROVE  /\ req' \in [Req -> CodeRequest]
         /\ \A q \in Req : q # r => req'[q] = req[q]
         /\ req'[r].pc = pc /\ req'[r].code = k /\ req'[r].user = req[r].user
         /\ req'[r].channel = req[r].channel /\ req'[r].dest = req[r].dest
<1> DEFINE R == [req[r] EXCEPT !.pc = pc]
           S == [R EXCEPT !.code = k]
<1>1. req[r] \in CodeRequest /\ k \in 0..MaxCodes /\ pc \in Owned!Pc
  BY DEF Owned!TypeOK, CodeRequest, Owned!CodeId, Owned!Pc, Owned!LimitsAssumption
<1>2. R \in CodeRequest /\ R.pc = pc /\ R.user = req[r].user
      /\ R.channel = req[r].channel /\ R.dest = req[r].dest
  BY <1>1 DEF CodeRequest
<1>3. req' = [req EXCEPT ![r] = S]
  OBVIOUS
<1> HIDE DEF R
<1>4. S \in CodeRequest /\ S.pc = pc /\ S.code = k /\ S.user = req[r].user
      /\ S.channel = req[r].channel /\ S.dest = req[r].dest
  BY <1>1, <1>2 DEF CodeRequest
<1> HIDE DEF S
<1> QED BY <1>3, <1>4 DEF Owned!TypeOK, CodeRequest


\* A code is consumed, or gets its attempts.
LEMMA CodeChanged ==
  ASSUME Owned!LimitsAssumption, Owned!TypeOK, NEW k \in DOMAIN codes, NEW n \in Nat,
         \/ codes' = [codes EXCEPT ![k].live = FALSE]
         \/ codes' = [codes EXCEPT ![k].attempts = n]
  PROVE  /\ codes' \in Seq(Owned!Code) /\ Len(codes') <= MaxCodes /\ CodeKept
         /\ DOMAIN codes' = DOMAIN codes
         /\ \A j \in DOMAIN codes : j # k => codes'[j] = codes[j]
         /\ \A j \in DOMAIN codes : codes'[j].live => codes[j].live
         /\ codes' = [codes EXCEPT ![k].live = FALSE] =>
               ~codes'[k].live /\ codes'[k].attempts = codes[k].attempts
         /\ codes' = [codes EXCEPT ![k].attempts = n] => codes'[k].attempts = n
<1>1. PICK c : /\ codes' = [codes EXCEPT ![k] = c]
               /\ \/ c = [codes[k] EXCEPT !.live = FALSE] /\ codes' = [codes EXCEPT ![k].live = FALSE]
                  \/ c = [codes[k] EXCEPT !.attempts = n] /\ codes' = [codes EXCEPT ![k].attempts = n]
  OBVIOUS
<1>2. codes[k] \in Owned!Code /\ codes \in Seq(Owned!Code) /\ Len(codes) <= MaxCodes
  BY DEF Owned!TypeOK
<1>3. /\ c \in Owned!Code /\ c.user = codes[k].user /\ c.channel = codes[k].channel
      /\ c.dest = codes[k].dest /\ (c.live => codes[k].live)
  BY <1>1, <1>2 DEF Owned!Code
<1>4. /\ codes' \in Seq(Owned!Code) /\ Len(codes') = Len(codes) /\ codes'[k] = c
      /\ DOMAIN codes' = DOMAIN codes
      /\ \A j \in DOMAIN codes : j # k => codes'[j] = codes[j]
  BY <1>1, <1>2, <1>3
<1>5. CodeKept /\ \A j \in DOMAIN codes : codes'[j].live => codes[j].live
  BY <1>3, <1>4 DEF CodeKept
<1>6. codes' = [codes EXCEPT ![k].live = FALSE] =>
               ~codes'[k].live /\ codes'[k].attempts = codes[k].attempts
  BY <1>2 DEF Owned!Code
<1>7. codes' = [codes EXCEPT ![k].attempts = n] => codes'[k].attempts = n
  BY <1>2 DEF Owned!Code
<1> QED BY <1>2, <1>4, <1>5, <1>6, <1>7

\* A code is issued, and the codes that were read as live are consumed.
LEMMA CodeAppended ==
  ASSUME Owned!LimitsAssumption, Owned!TypeOK, NEW r \in Req, CodeFormed(r), Owned!create_verification_code(r)
  PROVE  /\ codes' \in Seq(Owned!Code) /\ Len(codes') <= MaxCodes /\ CodeKept
         /\ DOMAIN codes' = DOMAIN codes \cup {Len(codes) + 1}
         /\ Len(codes) + 1 \notin DOMAIN codes
         /\ \A j \in DOMAIN codes : /\ codes'[j].attempts = codes[j].attempts
                                    /\ j \in req[r].stale => ~codes'[j].live
                                    /\ codes'[j].live => codes[j].live
         /\ codes'[Len(codes) + 1] = [user |-> req[r].user, channel |-> req[r].channel,
               dest |-> req[r].dest, live |-> TRUE, attempts |-> 0]
<1> DEFINE new == [user |-> req[r].user, channel |-> req[r].channel, dest |-> req[r].dest,
                   live |-> TRUE, attempts |-> 0]
           old == [k \in DOMAIN codes |->
                     IF k \in req[r].stale THEN [codes[k] EXCEPT !.live = FALSE] ELSE codes[k]]
<1>1. codes \in Seq(Owned!Code) /\ Len(codes) < MaxCodes /\ codes' = Append(old, new)
      /\ MaxCodes \in Nat
  BY DEF Owned!TypeOK, Owned!create_verification_code, Owned!LimitsAssumption
<1>2. new \in Owned!Code
  BY DEF CodeFormed, Owned!create_verification_code, Owned!at, Owned!Code
<1>3. \A j \in DOMAIN codes :
         /\ old[j] \in Owned!Code /\ old[j].user = codes[j].user
         /\ old[j].channel = codes[j].channel /\ old[j].dest = codes[j].dest
         /\ old[j].attempts = codes[j].attempts
         /\ j \in req[r].stale => ~old[j].live
         /\ old[j].live => codes[j].live
  <2> SUFFICES ASSUME NEW j \in DOMAIN codes
               PROVE  /\ old[j] \in Owned!Code /\ old[j].user = codes[j].user
                      /\ old[j].channel = codes[j].channel /\ old[j].dest = codes[j].dest
                      /\ old[j].attempts = codes[j].attempts
                      /\ j \in req[r].stale => ~old[j].live
                      /\ old[j].live => codes[j].live
    OBVIOUS
  <2>1. codes[j] \in Owned!Code
    BY <1>1
  <2> QED BY <2>1 DEF Owned!Code
<1>4. DOMAIN old = 1..Len(codes) /\ Len(codes) \in Nat
  BY <1>1
<1> HIDE DEF new, old
<1>5. old \in Seq(Owned!Code) /\ Len(old) = Len(codes)
  <2>1. old \in [1..Len(codes) -> Owned!Code]
    <3>1. old = [j \in DOMAIN codes |-> old[j]]
      BY DEF old
    <3> QED BY <1>1, <1>3, <3>1
  <2> QED BY <1>4, <2>1
<1>6. /\ codes' \in Seq(Owned!Code) /\ Len(codes') = Len(codes) + 1
      /\ DOMAIN codes' = 1..(Len(codes) + 1)
      /\ codes'[Len(codes) + 1] = new
      /\ \A j \in DOMAIN codes : codes'[j] = old[j]
  BY <1>1, <1>2, <1>4, <1>5
<1>7. DOMAIN codes' = DOMAIN codes \cup {Len(codes) + 1} /\ Len(codes) + 1 \notin DOMAIN codes
  BY <1>1, <1>6
<1>8. CodeKept
  BY <1>3, <1>6, <1>7 DEF CodeKept
<1> QED BY <1>1, <1>3, <1>6, <1>7, <1>8 DEF new

\* A request that does not move stays well formed: codes are only appended or marked.
LEMMA CodeFormedKept ==
  ASSUME CodeKept, NEW q \in Req, CodeFormed(q), req'[q] = req[q]
  PROVE  CodeFormed(q)'
BY DEF CodeFormed, CodeKept


\* The type invariant of the requests, the registrations and the codes.
LEMMA CodeTypes == ASSUME Owned!LimitsAssumption PROVE Owned!Spec => []CodeTyped
<1>1. Owned!Init => CodeTyped
  <2> SUFFICES ASSUME Owned!Init PROVE CodeTyped
    OBVIOUS
  <2>1. Owned!Idle \in CodeRequest /\ Owned!Idle.pc = "idle"
    BY DEF Owned!Idle, CodeRequest, Owned!Pc, Owned!LimitsAssumption
  <2>2. Owned!Unregistered \in Owned!Reg
    BY DEF Owned!Unregistered, Owned!Reg
  <2>3. Owned!TypeOK
    BY <2>1, <2>2 DEF Owned!Init, Owned!TypeOK, CodeRequest, Owned!LimitsAssumption
  <2> QED BY <2>1, <2>3 DEF Owned!Init, CodeTyped, CodeFormed
<1>2. CodeTyped /\ [Owned!Next]_(Owned!vars) => CodeTyped'
  <2> SUFFICES ASSUME CodeTyped, [Owned!Next]_(Owned!vars) PROVE CodeTyped'
    OBVIOUS
  <2>a. Owned!TypeOK /\ \A q \in Req : CodeFormed(q)
    BY DEF CodeTyped
  <2>b. ASSUME UNCHANGED codes PROVE CodeKept
    BY <2>b DEF CodeKept
  <2>c. ASSUME NEW r \in Req, req' \in [Req -> CodeRequest], CodeKept,
               \A q \in Req : q # r => req'[q] = req[q], CodeFormed(r)',
               UNCHANGED <<code_chan, code_preferred, proven, guesses>>, raced' \subseteq CodeUser \cup CodeDest,
               codes' \in Seq(Owned!Code) /\ Len(codes') <= MaxCodes
        PROVE CodeTyped'
    <3>1. Owned!TypeOK'
      BY <2>a, <2>c DEF Owned!TypeOK, CodeRequest
    <3>2. ASSUME NEW q \in Req PROVE CodeFormed(q)'
      BY <2>a, <2>c, CodeFormedKept
    <3>3. \A k \in Owned!CodeId : k \notin DOMAIN codes' => guesses'[k] = 0
      BY <2>c DEF CodeKept, CodeTyped
    <3> QED BY <3>1, <3>2, <3>3 DEF CodeTyped
  <2>d. codes \in Seq(Owned!Code) /\ Len(codes) <= MaxCodes /\ raced \subseteq CodeUser \cup CodeDest
    BY <2>a DEF Owned!TypeOK
  <2>1. ASSUME NEW r \in Req, NEW u \in CodeUser, NEW c \in CodeChannels, NEW d \in CodeDest,
               Owned!issue_code(r, u, c, d)
        PROVE CodeTyped'
    <3>1. Owned!begin(r, u, c, d, 0, "count_user") /\ UNCHANGED <<code_chan, code_preferred, codes, proven, guesses>>
      BY <2>1 DEF Owned!issue_code
    <3>2. "count_user" \in Owned!Pc /\ 0 \in 0..MaxCodes
      BY DEF Owned!Pc, Owned!LimitsAssumption
    <3>3. /\ req' \in [Req -> CodeRequest] /\ \A q \in Req : q # r => req'[q] = req[q]
          /\ req'[r].pc = "count_user" /\ req'[r].user = u
          /\ req'[r].channel = c /\ req'[r].dest = d /\ raced' \subseteq CodeUser \cup CodeDest
      BY <2>a, <3>1, <3>2, CodeBegun
    <3>4. CodeFormed(r)'
      BY <3>3 DEF CodeFormed
    <3> QED BY <2>b, <2>c, <2>d, <3>1, <3>3, <3>4
  <2>2. ASSUME NEW r \in Req, NEW u \in CodeUser, NEW c \in CodeChannels,
               NEW k \in {0} \cup {j \in DOMAIN codes : codes[j].user = u},
               Owned!check_code(r, u, c, k)
        PROVE CodeTyped'
    <3>1. Owned!begin(r, u, c, NoDest, k, "lookup") /\ UNCHANGED <<code_chan, code_preferred, codes, proven, guesses>>
      BY <2>2 DEF Owned!check_code
    <3>2. "lookup" \in Owned!Pc /\ k \in 0..MaxCodes
      BY <2>a, CodeField DEF Owned!Pc, Owned!LimitsAssumption, Owned!CodeId
    <3>3. /\ req' \in [Req -> CodeRequest] /\ \A q \in Req : q # r => req'[q] = req[q]
          /\ req'[r].pc = "lookup" /\ req'[r].user = u
          /\ req'[r].channel = c /\ raced' \subseteq CodeUser \cup CodeDest
      BY <2>a, <3>1, <3>2, CodeBegun
    <3>4. CodeFormed(r)'
      BY <3>3 DEF CodeFormed
    <3> QED BY <2>b, <2>c, <2>d, <3>1, <3>3, <3>4
  <2>3. ASSUME NEW r \in Req, NEW u \in CodeUser, NEW d \in CodeDest, "discord" \in CodeChannels,
               Owned!discord_oauth_callback(r, u, d)
        PROVE CodeTyped'
    <3>1. /\ Owned!begin(r, u, "discord", d, 0, "oauth") /\ UNCHANGED <<code_chan, code_preferred, codes, guesses>>
          /\ proven' = [proven EXCEPT ![u] = @ \cup {<<"discord", d>>}]
      BY <2>3 DEF Owned!discord_oauth_callback
    <3>2. "oauth" \in Owned!Pc /\ 0 \in 0..MaxCodes
      BY DEF Owned!Pc, Owned!LimitsAssumption
    <3>3. /\ req' \in [Req -> CodeRequest] /\ \A q \in Req : q # r => req'[q] = req[q]
          /\ req'[r].pc = "oauth" /\ req'[r].user = u
          /\ req'[r].channel = "discord" /\ req'[r].dest = d /\ raced' \subseteq CodeUser \cup CodeDest
      BY <2>3, <2>a, <3>1, <3>2, CodeBegun
    <3>4. CodeFormed(r)'
      BY <2>3, <3>3 DEF CodeFormed
    <3>5. proven' \in [CodeUser -> SUBSET (CodeChannels \X CodeDest)]
      BY <2>3, <2>a, <3>1 DEF Owned!TypeOK
    <3>6. Owned!TypeOK'
      BY <2>a, <3>1, <3>3, <3>5 DEF Owned!TypeOK, CodeRequest
    <3>7. ASSUME NEW q \in Req PROVE CodeFormed(q)'
      BY <2>a, <2>b, <3>1, <3>3, <3>4, CodeFormedKept
    <3> QED BY <3>1, <3>6, <3>7 DEF CodeTyped
  <2>4. ASSUME NEW r \in Req, NEW pc \in {"upsert", "lookup"}, Owned!goto(r, pc), req[r].pc = "count_user",
               UNCHANGED <<code_chan, code_preferred, codes, proven, guesses, raced>>
        PROVE CodeTyped'
    <3>1. pc \in Owned!Pc
      BY DEF Owned!Pc
    <3>2. /\ req' \in [Req -> CodeRequest] /\ \A q \in Req : q # r => req'[q] = req[q]
          /\ req'[r].pc = pc /\ req'[r].user = req[r].user
          /\ req'[r].channel = req[r].channel /\ req'[r].dest = req[r].dest
      BY <2>4, <2>a, <3>1, CodeMoved
    <3>3. CodeFormed(r)'
      BY <2>4, <2>a, <3>2 DEF CodeFormed
    <3> QED BY <2>4, <2>b, <2>c, <2>d, <3>2, <3>3
  <2>5. ASSUME NEW r \in Req, Owned!finish(r), CodeKept, codes' \in Seq(Owned!Code) /\ Len(codes') <= MaxCodes,
               UNCHANGED <<code_chan, code_preferred, proven, guesses>>, raced' \subseteq CodeUser \cup CodeDest
        PROVE CodeTyped'
    <3>1. /\ req' \in [Req -> CodeRequest] /\ \A q \in Req : q # r => req'[q] = req[q]
          /\ req'[r].pc = "idle"
      BY <2>5, <2>a, CodeFinished
    <3>2. CodeFormed(r)'
      BY <3>1 DEF CodeFormed
    <3> QED BY <2>5, <2>c, <3>1, <3>2
  <2>6. ASSUME NEW r \in Req, Owned!count_user(r) PROVE CodeTyped'
    BY <2>6, <2>4, <2>5, <2>b, <2>d DEF Owned!count_user, Owned!at
  <2>7. ASSUME NEW r \in Req, NEW next \in {"read_stale", "mark"}, Owned!upsert_notification_channel(r, next),
               req[r].pc \in {"upsert", "oauth"}
        PROVE CodeTyped'
    <3>1. next \in Owned!Pc
      BY DEF Owned!Pc
    <3>2. /\ req' \in [Req -> CodeRequest] /\ \A q \in Req : q # r => req'[q] = req[q]
          /\ req'[r].pc = next /\ req'[r].user = req[r].user
          /\ req'[r].channel = req[r].channel /\ req'[r].dest = req[r].dest
      BY <2>7, <2>a, <3>1, CodeMoved DEF Owned!upsert_notification_channel
    <3>3. CodeFormed(r)'
      BY <2>7, <2>a, <3>2 DEF CodeFormed
    <3>4. req[r].user \in CodeUser /\ req[r].channel \in CodeChannels /\ req[r].dest \in CodeDest
      BY <2>7, <2>a DEF CodeFormed
    <3>5. Owned!Upserted(code_chan[req[r].user][req[r].channel], req[r].dest) \in Owned!Reg
      <4>1. code_chan[req[r].user][req[r].channel] \in Owned!Reg
        BY <2>a, <3>4 DEF Owned!TypeOK
      <4> QED BY <3>4, <4>1, CodeRegType
    <3>6. code_chan' \in [CodeUser -> [CodeChannels -> Owned!Reg]]
      BY <2>7, <2>a, <3>4, <3>5 DEF Owned!upsert_notification_channel, Owned!TypeOK
    <3>7. UNCHANGED <<code_preferred, codes, proven, guesses, raced>>
      BY <2>7 DEF Owned!upsert_notification_channel
    <3>8. Owned!TypeOK'
      BY <2>a, <3>2, <3>6, <3>7 DEF Owned!TypeOK, CodeRequest
    <3>9. ASSUME NEW q \in Req PROVE CodeFormed(q)'
      BY <2>a, <2>b, <3>2, <3>3, <3>7, CodeFormedKept
    <3> QED BY <3>7, <3>8, <3>9 DEF CodeTyped
  <2>8. ASSUME NEW r \in Req, Owned!read_stale(r) PROVE CodeTyped'
    <3> DEFINE R == [req[r] EXCEPT !.pc = "create"]
               live == Owned!Live(req[r].user, req[r].channel)
               S == [R EXCEPT !.stale = live]
    <3>1. live \subseteq Owned!CodeId /\ req[r] \in CodeRequest
      BY <2>a, CodeField DEF Owned!Live, Owned!TypeOK, CodeRequest
    <3>2. R \in CodeRequest /\ R.pc = "create" /\ R.user = req[r].user
          /\ R.channel = req[r].channel /\ R.dest = req[r].dest
      BY <3>1 DEF CodeRequest, Owned!Pc
    <3>3. req' = [req EXCEPT ![r] = S]
      BY <2>8 DEF Owned!read_stale
    <3> HIDE DEF R, live
    <3>4. S \in CodeRequest /\ S.pc = "create" /\ S.user = req[r].user
          /\ S.channel = req[r].channel /\ S.dest = req[r].dest
      BY <3>1, <3>2 DEF CodeRequest
    <3> HIDE DEF S
    <3>5. /\ req' \in [Req -> CodeRequest] /\ \A q \in Req : q # r => req'[q] = req[q] /\ req'[r] = S
      BY <2>a, <3>3, <3>4 DEF Owned!TypeOK, CodeRequest
    <3>5a. req'[r] = S
      BY <2>a, <3>3 DEF Owned!TypeOK
    <3>6. req[r].pc = "read_stale" /\ UNCHANGED <<code_chan, code_preferred, codes, proven, guesses, raced>>
      BY <2>8 DEF Owned!read_stale, Owned!at
    <3>7. CodeFormed(r)'
      BY <2>a, <3>4, <3>5a, <3>6 DEF CodeFormed
    <3> QED BY <2>b, <2>c, <2>d, <3>5, <3>6, <3>7
  <2>9. ASSUME NEW r \in Req, Owned!create_verification_code(r) PROVE CodeTyped'
    <3>1. Owned!finish(r) /\ UNCHANGED <<code_chan, code_preferred, proven, guesses, raced>>
      BY <2>9 DEF Owned!create_verification_code
    <3>2. codes' \in Seq(Owned!Code) /\ Len(codes') <= MaxCodes /\ CodeKept
      BY <2>9, <2>a, CodeAppended
    <3> QED BY <2>5, <2>d, <3>1, <3>2
  <2>10. ASSUME NEW r \in Req, Owned!latest_verification_code(r) PROVE CodeTyped'
    <3>1. req[r].pc = "lookup" /\ UNCHANGED <<code_chan, code_preferred, codes, raced>>
      BY <2>10, <2>a, CodeCompared
    <3>2. CASE Owned!finish(r) /\ UNCHANGED <<guesses, proven>>
      BY <2>5, <2>b, <2>d, <3>1, <3>2
    <3>3. ASSUME NEW k \in Owned!Live(req[r].user, req[r].channel), NEW pc \in {"consume", "wrong"},
                 req' = [req EXCEPT ![r].pc = pc, ![r].code = k],
                 proven' \in [CodeUser -> SUBSET (CodeChannels \X CodeDest)],
                 guesses' \in [Owned!CodeId -> Nat], \A j \in Owned!CodeId : j # k => guesses'[j] = guesses[j]
          PROVE CodeTyped'
      <4>1. k \in DOMAIN codes /\ k \in Owned!CodeId /\ codes[k].user = req[r].user
            /\ codes[k].channel = req[r].channel
        BY <2>a, CodeField DEF Owned!Live
      <4>2. /\ req' \in [Req -> CodeRequest] /\ \A q \in Req : q # r => req'[q] = req[q]
            /\ req'[r].pc = pc /\ req'[r].code = k /\ req'[r].user = req[r].user
            /\ req'[r].channel = req[r].channel
        BY <2>a, <3>3, <4>1, CodeAtCode
      <4>3. CodeFormed(r)'
        BY <2>a, <3>1, <4>1, <4>2 DEF CodeFormed
      <4>4. Owned!TypeOK'
        BY <2>a, <3>1, <3>3, <4>2 DEF Owned!TypeOK, CodeRequest
      <4>5. ASSUME NEW q \in Req PROVE CodeFormed(q)'
        BY <2>a, <2>b, <3>1, <4>2, <4>3, CodeFormedKept
      <4>6. \A j \in Owned!CodeId : j \notin DOMAIN codes' => guesses'[j] = 0
        BY <3>1, <3>3, <4>1 DEF CodeTyped
      <4> QED BY <4>4, <4>5, <4>6 DEF CodeTyped
    <3>4. ASSUME NEW k \in Owned!Live(req[r].user, req[r].channel),
                 req' = [req EXCEPT ![r].pc = "consume", ![r].code = k],
                 proven' = [proven EXCEPT ![req[r].user] =
                                        @ \cup {<<codes[k].channel, codes[k].dest>>}],
                 UNCHANGED guesses
          PROVE CodeTyped'
      <4>1. codes[k] \in Owned!Code
        BY <2>a, CodeField DEF Owned!Live
      <4>2. <<codes[k].channel, codes[k].dest>> \in CodeChannels \X CodeDest
        BY <4>1 DEF Owned!Code
      <4>3. proven \in [CodeUser -> SUBSET (CodeChannels \X CodeDest)]
        BY <2>a DEF Owned!TypeOK
      <4>4. proven' \in [CodeUser -> SUBSET (CodeChannels \X CodeDest)]
        BY <3>4, <4>2, <4>3
      <4>5. guesses' \in [Owned!CodeId -> Nat]
        BY <2>a, <3>4 DEF Owned!TypeOK
      <4> QED BY <3>3, <3>4, <4>4, <4>5
    <3>5. ASSUME NEW k \in Owned!Live(req[r].user, req[r].channel),
                 req' = [req EXCEPT ![r].pc = "wrong", ![r].code = k],
                 guesses' = [guesses EXCEPT ![k] = @ + 1],
                 UNCHANGED proven
          PROVE CodeTyped'
      <4>0. k \in Owned!CodeId /\ guesses \in [Owned!CodeId -> Nat]
        BY <2>a, CodeField DEF Owned!Live, Owned!TypeOK
      <4>1. guesses' \in [Owned!CodeId -> Nat] /\ \A j \in Owned!CodeId : j # k => guesses'[j] = guesses[j]
        BY <3>5, <4>0
      <4>2. proven \in [CodeUser -> SUBSET (CodeChannels \X CodeDest)]
        BY <2>a DEF Owned!TypeOK
      <4>3. proven' \in [CodeUser -> SUBSET (CodeChannels \X CodeDest)]
        BY <3>5, <4>2
      <4> QED BY <3>3, <3>5, <4>1, <4>3
    <3> QED BY <2>10, <2>a, <3>2, <3>4, <3>5, CodeCompared
  <2>11. ASSUME NEW r \in Req, Owned!read_code(r) PROVE CodeTyped'
    <3> DEFINE R == [req[r] EXCEPT !.pc = "bump"]
               n == codes[req[r].code].attempts + 1
               S == [R EXCEPT !.attempts = n]
    <3>0. req[r].pc = "wrong" /\ UNCHANGED <<code_chan, code_preferred, codes, proven, guesses, raced>>
      BY <2>11 DEF Owned!read_code, Owned!at
    <3>1. n \in Nat /\ req[r] \in CodeRequest
      <4>1. codes[req[r].code] \in Owned!Code
        BY <2>a, <3>0, CodeField DEF CodeFormed
      <4> QED BY <2>a, <4>1 DEF Owned!Code, Owned!TypeOK, CodeRequest
    <3>2. R \in CodeRequest /\ R.pc = "bump" /\ R.user = req[r].user
          /\ R.channel = req[r].channel /\ R.code = req[r].code
      BY <3>1 DEF CodeRequest, Owned!Pc
    <3>3. req' = [req EXCEPT ![r] = S]
      BY <2>11 DEF Owned!read_code
    <3> HIDE DEF R, n
    <3>4. S \in CodeRequest /\ S.pc = "bump" /\ S.user = req[r].user
          /\ S.channel = req[r].channel /\ S.code = req[r].code
      BY <3>1, <3>2 DEF CodeRequest
    <3> HIDE DEF S
    <3>5. /\ req' \in [Req -> CodeRequest] /\ \A q \in Req : q # r => req'[q] = req[q]
      BY <2>a, <3>3, <3>4 DEF Owned!TypeOK, CodeRequest
    <3>6. req'[r] = S
      BY <2>a, <3>3 DEF Owned!TypeOK
    <3>7. CodeFormed(r)'
      BY <2>a, <3>0, <3>4, <3>6 DEF CodeFormed
    <3> QED BY <2>b, <2>c, <2>d, <3>0, <3>5, <3>7
  <2>12. ASSUME NEW r \in Req, Owned!record_code_attempt(r) PROVE CodeTyped'
    <3>1. req[r].code \in DOMAIN codes /\ req[r].attempts \in Nat
      BY <2>12, <2>a DEF Owned!record_code_attempt, Owned!at, CodeFormed, Owned!TypeOK
    <3>2. Owned!finish(r) /\ UNCHANGED <<code_chan, code_preferred, proven, guesses, raced>>
          /\ codes' = [codes EXCEPT ![req[r].code].attempts = req[r].attempts]
      BY <2>12 DEF Owned!record_code_attempt
    <3>3. codes' \in Seq(Owned!Code) /\ Len(codes') <= MaxCodes /\ CodeKept
      BY <2>a, <3>1, <3>2, CodeChanged
    <3> QED BY <2>5, <2>d, <3>2, <3>3
  <2>13. ASSUME NEW r \in Req, Owned!consume_verification_code(r) PROVE CodeTyped'
    <3>0. req[r].pc = "consume" /\ Owned!goto(r, "mark") /\ UNCHANGED <<code_chan, code_preferred, proven, guesses, raced>>
          /\ codes' = [codes EXCEPT ![req[r].code].live = FALSE]
      BY <2>13 DEF Owned!consume_verification_code, Owned!at
    <3>1. req[r].code \in DOMAIN codes
      BY <2>a, <3>0 DEF CodeFormed
    <3>2. codes' \in Seq(Owned!Code) /\ Len(codes') <= MaxCodes /\ CodeKept
      BY <2>a, <3>0, <3>1, CodeChanged
    <3>3. /\ req' \in [Req -> CodeRequest] /\ \A q \in Req : q # r => req'[q] = req[q]
          /\ req'[r].pc = "mark" /\ req'[r].user = req[r].user
          /\ req'[r].channel = req[r].channel
      BY <2>a, <3>0, CodeMoved DEF Owned!Pc
    <3>4. CodeFormed(r)'
      BY <2>a, <3>0, <3>3 DEF CodeFormed
    <3> QED BY <2>c, <2>d, <3>0, <3>2, <3>3, <3>4
  <2>14. ASSUME NEW r \in Req, Owned!mark_channel_verified(r) PROVE CodeTyped'
    <3>0. req[r].pc = "mark" /\ Owned!goto(r, "prefer") /\ UNCHANGED <<code_preferred, codes, proven, guesses, raced>>
      BY <2>14 DEF Owned!mark_channel_verified, Owned!at
    <3>1. req[r].user \in CodeUser /\ req[r].channel \in CodeChannels
      BY <2>a, <3>0 DEF CodeFormed
    <3>2. Owned!MarkedVerified(code_chan[req[r].user][req[r].channel]) \in Owned!Reg
      BY <2>a, <3>1, CodeRegType DEF Owned!TypeOK
    <3>3. code_chan' \in [CodeUser -> [CodeChannels -> Owned!Reg]]
      BY <2>14, <2>a, <3>1, <3>2 DEF Owned!mark_channel_verified, Owned!TypeOK
    <3>4. /\ req' \in [Req -> CodeRequest] /\ \A q \in Req : q # r => req'[q] = req[q]
          /\ req'[r].pc = "prefer" /\ req'[r].user = req[r].user
          /\ req'[r].channel = req[r].channel
      BY <2>a, <3>0, CodeMoved DEF Owned!Pc
    <3>5. CodeFormed(r)'
      BY <2>a, <3>0, <3>4 DEF CodeFormed
    <3>6. Owned!TypeOK'
      BY <2>a, <3>0, <3>3, <3>4 DEF Owned!TypeOK, CodeRequest
    <3>7. ASSUME NEW q \in Req PROVE CodeFormed(q)'
      BY <2>a, <2>b, <3>0, <3>4, <3>5, CodeFormedKept
    <3> QED BY <3>0, <3>6, <3>7 DEF CodeTyped
  <2>15. ASSUME NEW r \in Req, Owned!set_preferred_channel(r) PROVE CodeTyped'
    <3>0. req[r].pc = "prefer" /\ Owned!finish(r) /\ UNCHANGED <<code_chan, codes, proven, guesses, raced>>
      BY <2>15 DEF Owned!set_preferred_channel, Owned!at
    <3>1. req[r].user \in CodeUser /\ req[r].channel \in CodeChannels
      BY <2>a, <3>0 DEF CodeFormed
    <3>2. code_preferred' \in [CodeUser -> CodeChannels \cup {NoDest}]
      BY <2>15, <2>a, <3>1 DEF Owned!set_preferred_channel, Owned!TypeOK
    <3>3. /\ req' \in [Req -> CodeRequest] /\ \A q \in Req : q # r => req'[q] = req[q]
          /\ req'[r].pc = "idle"
      BY <2>a, <3>0, CodeFinished
    <3>4. CodeFormed(r)'
      BY <3>3 DEF CodeFormed
    <3>5. Owned!TypeOK'
      BY <2>a, <3>0, <3>2, <3>3 DEF Owned!TypeOK, CodeRequest
    <3>6. ASSUME NEW q \in Req PROVE CodeFormed(q)'
      BY <2>a, <2>b, <3>0, <3>3, <3>4, CodeFormedKept
    <3> QED BY <3>0, <3>5, <3>6 DEF CodeTyped
  <2>16. ASSUME NEW r \in Req, Owned!die(r) PROVE CodeTyped'
    <3>0. /\ req[r].pc # "idle" /\ Owned!finish(r) /\ UNCHANGED <<code_chan, code_preferred, codes, proven, guesses>>
          /\ raced' = raced \cup {req[r].user}
      BY <2>16 DEF Owned!die, Owned!at
    <3>1. req[r].user \in CodeUser
      BY <2>a, <3>0 DEF CodeFormed
    <3> QED BY <2>5, <2>b, <2>d, <3>0, <3>1
  <2>17. ASSUME NEW k \in DOMAIN codes, Owned!expire(k) PROVE CodeTyped'
    <3>0. UNCHANGED <<code_chan, code_preferred, req, proven, guesses, raced>>
          /\ codes' = [codes EXCEPT ![k].live = FALSE]
      BY <2>17 DEF Owned!expire
    <3>1. codes' \in Seq(Owned!Code) /\ Len(codes') <= MaxCodes /\ CodeKept
      BY <2>a, <3>0, CodeChanged
    <3>2. Owned!TypeOK'
      BY <2>a, <3>0, <3>1 DEF Owned!TypeOK
    <3>3. ASSUME NEW q \in Req PROVE CodeFormed(q)'
      BY <2>a, <3>0, <3>1, CodeFormedKept
    <3>4. \A j \in Owned!CodeId : j \notin DOMAIN codes' => guesses'[j] = 0
      BY <3>0, <3>1 DEF CodeKept, CodeTyped
    <3> QED BY <3>2, <3>3, <3>4 DEF CodeTyped
  <2>18. ASSUME NEW c \in CodeChannels, NEW d \in CodeDest, NEW flag \in BOOLEAN,
                Owned!set_opt_out_by_destination(c, d, flag)
         PROVE CodeTyped'
    <3>0. UNCHANGED <<code_preferred, codes, req, proven, guesses, raced>> /\ code_chan' = Owned!OptedOut(code_chan, c, d, flag)
      BY <2>18 DEF Owned!set_opt_out_by_destination
    <3>1. \A u \in CodeUser : [code_chan[u][c] EXCEPT !.opted_out = flag] \in Owned!Reg
      BY <2>a, CodeRegType DEF Owned!TypeOK
    <3>2. code_chan' \in [CodeUser -> [CodeChannels -> Owned!Reg]]
      BY <2>a, <3>0, <3>1 DEF Owned!OptedOut, Owned!TypeOK
    <3>3. Owned!TypeOK'
      BY <2>a, <3>0, <3>2 DEF Owned!TypeOK
    <3> QED BY <2>a, <3>0, <3>3 DEF CodeTyped, CodeFormed
  <2>19. CASE UNCHANGED Owned!vars
    BY <2>19 DEF Owned!vars, CodeTyped, Owned!TypeOK, CodeFormed
  <2>20. ASSUME NEW r \in Req, Owned!issue_upsert(r) \/ Owned!oauth_upsert(r) PROVE CodeTyped'
    BY <2>20, <2>7 DEF Owned!issue_upsert, Owned!oauth_upsert, Owned!at
  <2> QED BY <2>1, <2>2, <2>3, <2>6, <2>8, <2>9, <2>10, <2>11, <2>12, <2>13, <2>14, <2>15,
             <2>16, <2>17, <2>18, <2>19, <2>20 DEF Owned!Next, Owned!request, Owned!step
<1> QED BY <1>1, <1>2, PTL DEF Owned!Spec


-----------------------------------------------------------------------------
\* What holds of a user whose requests never overlapped and never stopped half-way.
CodeDoing(u, r, places) == req[r].user = u /\ req[r].pc \in places
CodesOf(u) == {k \in DOMAIN codes : codes[k].user = u}

\* One request is under way at a time.
CodeSolo(u) == \A r, q \in Req :
   req[r].user = u /\ req[q].user = u /\ req[r].pc # "idle" /\ req[q].pc # "idle" => r = q

\* A destination that is marked verified, or is about to be, was proven.
CodeShown(u) == \A c \in CodeChannels : code_chan[u][c].verified => <<c, code_chan[u][c].dest>> \in proven[u]
CodeConfirmed(u) == \A r \in Req :
   /\ CodeDoing(u, r, {"consume", "mark"}) =>
         <<req[r].channel, code_chan[u][req[r].channel].dest>> \in proven[u]
   /\ CodeDoing(u, r, {"oauth"}) => <<req[r].channel, req[r].dest>> \in proven[u]

\* A registration that waits for its code has its destination in place, and knows every
\* live code that it has to consume.
CodeRegistered(u) == \A r \in Req :
   /\ CodeDoing(u, r, {"read_stale", "create"}) => code_chan[u][req[r].channel].dest = req[r].dest
   /\ CodeDoing(u, r, {"create"}) =>
         \A k \in CodesOf(u) : codes[k].live /\ codes[k].channel = req[r].channel
                                => k \in req[r].stale

\* A live code is for the registered destination, unless that is proven already or a new
\* code is on its way; and there is one live code for a channel.
CodeCurrent(u) == \A k \in CodesOf(u) : codes[k].live =>
   \/ code_chan[u][codes[k].channel].dest = codes[k].dest
   \/ <<codes[k].channel, code_chan[u][codes[k].channel].dest>> \in proven[u]
   \/ \E r \in Req : CodeDoing(u, r, {"read_stale", "create"}) /\ req[r].channel = codes[k].channel
CodeSole(u) == \A j, k \in CodesOf(u) :
   codes[j].live /\ codes[k].live /\ codes[j].channel = codes[k].channel => j = k

\* Every wrong guess is in the attempts of its code, or about to be.
CodeCounted(u) ==
   /\ \A k \in CodesOf(u) :
         /\ guesses[k] <= MAX_CHECK_ATTEMPTS
         /\ \/ guesses[k] <= codes[k].attempts
            \/ /\ guesses[k] <= codes[k].attempts + 1
               /\ \E r \in Req : CodeDoing(u, r, {"wrong", "bump"}) /\ req[r].code = k
   /\ \A r \in Req : CodeDoing(u, r, {"bump"}) =>
         req[r].attempts = codes[req[r].code].attempts + 1

CodeSafe(u) == /\ CodeShown(u) /\ CodeConfirmed(u) /\ CodeRegistered(u)
               /\ CodeCurrent(u) /\ CodeSole(u) /\ CodeCounted(u)

\* The places of a request that Safe speaks of.
CodeLoaded == {"read_stale", "create", "consume", "mark", "oauth", "wrong", "bump"}

\* Nothing that Safe(u) speaks of changes, but that codes are consumed and requests end.
CodeFramed(u) ==
   /\ \A r \in Req : CodeDoing(u, r, CodeLoaded)' => req'[r] = req[r]
   /\ \A r \in Req : CodeDoing(u, r, {"read_stale", "create", "wrong", "bump"}) => req'[r] = req[r]
   /\ \A c \in CodeChannels : code_chan'[u][c].dest = code_chan[u][c].dest
                          /\ code_chan'[u][c].verified = code_chan[u][c].verified
   /\ proven'[u] = proven[u]
   /\ CodesOf(u)' = CodesOf(u)
   /\ \A k \in CodesOf(u) : /\ codes'[k].channel = codes[k].channel
                            /\ codes'[k].dest = codes[k].dest
                            /\ codes'[k].attempts = codes[k].attempts
                            /\ codes'[k].live => codes[k].live
                            /\ guesses'[k] = guesses[k]

\* Who is safe stays so in a step of somebody else.
LEMMA CodeSafeFramed ==
  ASSUME CodeTyped, CodeTyped', NEW u \in CodeUser, CodeFramed(u), CodeSafe(u)
  PROVE  CodeSafe(u)'
<1>a. \A r \in Req : CodeFormed(r)'
  BY DEF CodeTyped
<1>b. \A r \in Req, c \in CodeChannels : CodeDoing(u, r, CodeLoaded)' => req'[r].channel \in CodeChannels
  BY <1>a DEF CodeDoing, CodeFormed, CodeLoaded
<1>c. \A k \in CodesOf(u) : codes[k].channel \in CodeChannels
  <2>1. \A k \in DOMAIN codes : codes[k] \in Owned!Code
    BY DEF CodeTyped, Owned!TypeOK
  <2> QED BY <2>1 DEF CodesOf, Owned!Code
<1>1. CodeShown(u)'
  BY DEF CodeFramed, CodeSafe, CodeShown
<1>2. CodeConfirmed(u)'
  BY <1>a DEF CodeFramed, CodeSafe, CodeConfirmed, CodeDoing, CodeLoaded, CodeFormed
<1>3. CodeRegistered(u)'
  BY <1>a DEF CodeFramed, CodeSafe, CodeRegistered, CodeDoing, CodeLoaded, CodeFormed
<1>4. CodeCurrent(u)'
  <2> SUFFICES ASSUME NEW k \in CodesOf(u)', codes'[k].live
               PROVE  \/ code_chan'[u][codes'[k].channel].dest = codes'[k].dest
                      \/ <<codes'[k].channel, code_chan'[u][codes'[k].channel].dest>> \in proven'[u]
                      \/ \E r \in Req : /\ CodeDoing(u, r, {"read_stale", "create"})'
                                        /\ req'[r].channel = codes'[k].channel
    BY DEF CodeCurrent
  <2>1. k \in CodesOf(u) /\ codes[k].live /\ codes[k].channel \in CodeChannels
        /\ codes'[k].channel = codes[k].channel /\ codes'[k].dest = codes[k].dest
    BY <1>c DEF CodeFramed
  <2>2. ASSUME NEW r \in Req, CodeDoing(u, r, {"read_stale", "create"})
        PROVE  CodeDoing(u, r, {"read_stale", "create"})' /\ req'[r] = req[r]
    BY <2>2 DEF CodeFramed, CodeDoing
  <2> QED BY <2>1, <2>2 DEF CodeFramed, CodeSafe, CodeCurrent
<1>5. CodeSole(u)'
  BY DEF CodeFramed, CodeSafe, CodeSole
<1>6. CodeCounted(u)'
  <2>1. ASSUME NEW r \in Req, CodeDoing(u, r, {"wrong", "bump"})
        PROVE  CodeDoing(u, r, {"wrong", "bump"})' /\ req'[r] = req[r]
    BY <2>1 DEF CodeFramed, CodeDoing
  <2>2. ASSUME NEW k \in CodesOf(u)'
        PROVE  /\ guesses'[k] <= MAX_CHECK_ATTEMPTS
               /\ \/ guesses'[k] <= codes'[k].attempts
                  \/ /\ guesses'[k] <= codes'[k].attempts + 1
                     /\ \E r \in Req : CodeDoing(u, r, {"wrong", "bump"})' /\ req'[r].code = k
    <3>1. k \in CodesOf(u) /\ codes'[k].attempts = codes[k].attempts /\ guesses'[k] = guesses[k]
      BY DEF CodeFramed
    <3> QED BY <2>1, <3>1 DEF CodeSafe, CodeCounted
  <2>3. ASSUME NEW r \in Req, CodeDoing(u, r, {"bump"})'
        PROVE  req'[r].attempts = codes'[req'[r].code].attempts + 1
    <3>1. req'[r] = req[r] /\ CodeDoing(u, r, {"bump"})
      BY <2>3 DEF CodeFramed, CodeDoing, CodeLoaded
    <3>2. req[r].code \in CodesOf(u)
      BY <3>1 DEF CodeTyped, CodeFormed, CodesOf, CodeDoing
    <3> QED BY <3>1, <3>2 DEF CodeFramed, CodeSafe, CodeCounted
  <2> QED BY <2>2, <2>3 DEF CodeCounted
<1> QED BY <1>1, <1>2, <1>3, <1>4, <1>5, <1>6 DEF CodeSafe


\* Request r of user u is the only one under way.
CodeAlone(u, r) ==
   /\ req[r].user = u /\ req[r].pc # "idle"
   /\ \A q \in Req : q # r => ~(req[q].user = u /\ req[q].pc # "idle")
   /\ \A q \in Req : q # r => req'[q] = req[q]

\* When it moves, Safe(u) is a matter of that request.
LEMMA CodeSafeAlone ==
  ASSUME NEW u \in CodeUser, NEW r \in Req, CodeAlone(u, r), CodeShown(u)', CodeSole(u)',
         CodeDoing(u, r, {"consume", "mark"})' =>
            <<req'[r].channel, code_chan'[u][req'[r].channel].dest>> \in proven'[u],
         CodeDoing(u, r, {"oauth"})' => <<req'[r].channel, req'[r].dest>> \in proven'[u],
         CodeDoing(u, r, {"read_stale", "create"})' => code_chan'[u][req'[r].channel].dest = req'[r].dest,
         CodeDoing(u, r, {"create"})' =>
            \A k \in CodesOf(u)' : codes'[k].live /\ codes'[k].channel = req'[r].channel
                                   => k \in req'[r].stale,
         \A k \in CodesOf(u)' : codes'[k].live =>
            \/ code_chan'[u][codes'[k].channel].dest = codes'[k].dest
            \/ <<codes'[k].channel, code_chan'[u][codes'[k].channel].dest>> \in proven'[u]
            \/ CodeDoing(u, r, {"read_stale", "create"})' /\ req'[r].channel = codes'[k].channel,
         \A k \in CodesOf(u)' :
            /\ guesses'[k] <= MAX_CHECK_ATTEMPTS
            /\ \/ guesses'[k] <= codes'[k].attempts
               \/ /\ guesses'[k] <= codes'[k].attempts + 1
                  /\ CodeDoing(u, r, {"wrong", "bump"})' /\ req'[r].code = k,
         CodeDoing(u, r, {"bump"})' => req'[r].attempts = codes'[req'[r].code].attempts + 1
  PROVE  CodeSafe(u)'
<1>1. \A q \in Req : q # r => ~CodeDoing(u, q, CodeLoaded)'
  BY DEF CodeAlone, CodeDoing, CodeLoaded
<1>2. \A q \in Req : q # r =>
         /\ ~CodeDoing(u, q, {"consume", "mark"})' /\ ~CodeDoing(u, q, {"oauth"})'
         /\ ~CodeDoing(u, q, {"read_stale", "create"})' /\ ~CodeDoing(u, q, {"create"})'
         /\ ~CodeDoing(u, q, {"bump"})'
  BY <1>1 DEF CodeDoing, CodeLoaded
<1>3. CodeConfirmed(u)'
  BY <1>2 DEF CodeConfirmed
<1>4. CodeRegistered(u)'
  BY <1>2 DEF CodeRegistered
<1>5. CodeCurrent(u)'
  BY DEF CodeCurrent
<1>6. CodeCounted(u)'
  BY <1>2 DEF CodeCounted
<1> QED BY <1>3, <1>4, <1>5, <1>6 DEF CodeSafe

\* What Safe(u) says then.
LEMMA CodeAloneSafe ==
  ASSUME NEW u \in CodeUser, NEW r \in Req, CodeSafe(u)
  PROVE  /\ CodeDoing(u, r, {"consume", "mark"}) =>
               <<req[r].channel, code_chan[u][req[r].channel].dest>> \in proven[u]
         /\ CodeDoing(u, r, {"oauth"}) => <<req[r].channel, req[r].dest>> \in proven[u]
         /\ CodeDoing(u, r, {"read_stale", "create"}) => code_chan[u][req[r].channel].dest = req[r].dest
         /\ CodeDoing(u, r, {"create"}) =>
               \A k \in CodesOf(u) : codes[k].live /\ codes[k].channel = req[r].channel
                                      => k \in req[r].stale
BY DEF CodeSafe, CodeConfirmed, CodeRegistered

\* A live code of a user is for the current destination, or its request is about to kill it.
LEMMA CodeAloneCurrent ==
  ASSUME NEW u \in CodeUser, NEW r \in Req, CodeAlone(u, r), CodeSafe(u),
         NEW k \in CodesOf(u), codes[k].live
  PROVE  \/ code_chan[u][codes[k].channel].dest = codes[k].dest
         \/ <<codes[k].channel, code_chan[u][codes[k].channel].dest>> \in proven[u]
         \/ CodeDoing(u, r, {"read_stale", "create"}) /\ req[r].channel = codes[k].channel
<1>1. \A q \in Req : CodeDoing(u, q, {"read_stale", "create"}) => q = r
  BY DEF CodeAlone, CodeDoing
<1> QED BY <1>1 DEF CodeSafe, CodeCurrent

\* The attempts of a code count its guesses, but for the one being recorded.
LEMMA CodeAloneCounted ==
  ASSUME NEW u \in CodeUser, NEW r \in Req, CodeAlone(u, r), CodeSafe(u)
  PROVE  /\ \A k \in CodesOf(u) :
               /\ guesses[k] <= MAX_CHECK_ATTEMPTS
               /\ \/ guesses[k] <= codes[k].attempts
                  \/ /\ guesses[k] <= codes[k].attempts + 1
                     /\ CodeDoing(u, r, {"wrong", "bump"}) /\ req[r].code = k
         /\ CodeDoing(u, r, {"bump"}) => req[r].attempts = codes[req[r].code].attempts + 1
<1>1. \A q \in Req : CodeDoing(u, q, {"wrong", "bump"}) => q = r
  BY DEF CodeAlone, CodeDoing
<1> QED BY <1>1 DEF CodeSafe, CodeCounted

\* The destination is registered: by a request for a code, or from Discord's answer.
LEMMA CodeUpsertSafe ==
  ASSUME CodeTyped, NEW u \in CodeUser, NEW r \in Req, CodeAlone(u, r), CodeSafe(u), NEW next,
         Owned!upsert_notification_channel(r, next),
         \/ req[r].pc = "upsert" /\ next = "read_stale"
         \/ req[r].pc = "oauth" /\ next = "mark"
  PROVE  CodeSafe(u)'
<1> DEFINE c == req[r].channel
           d == req[r].dest
<1>0. Owned!TypeOK /\ c \in CodeChannels /\ d \in CodeDest /\ req[r].user = u /\ next \in Owned!Pc
  BY DEF CodeTyped, CodeFormed, CodeAlone, Owned!Pc
<1>1. /\ req'[r].pc = next /\ req'[r].user = u /\ req'[r].channel = c /\ req'[r].dest = d
  BY <1>0, CodeMoved DEF Owned!upsert_notification_channel
<1>2. UNCHANGED <<code_preferred, codes, proven, guesses, raced>>
  BY DEF Owned!upsert_notification_channel
<1>3. code_chan[u] \in [CodeChannels -> Owned!Reg] /\ code_chan[u][c] \in Owned!Reg
  BY <1>0 DEF Owned!TypeOK
<1>4. /\ code_chan'[u][c] = Owned!Upserted(code_chan[u][c], d)
      /\ \A e \in CodeChannels : e # c => code_chan'[u][e] = code_chan[u][e]
  BY <1>0 DEF Owned!upsert_notification_channel, Owned!TypeOK
<1>5. /\ code_chan'[u][c].dest = d
      /\ code_chan'[u][c].verified => code_chan[u][c].verified /\ code_chan[u][c].dest = d
  BY <1>3, <1>4 DEF Owned!Upserted
<1>6. CodeShown(u)'
  <2> SUFFICES ASSUME NEW e \in CodeChannels, code_chan'[u][e].verified
               PROVE  <<e, code_chan'[u][e].dest>> \in proven[u]
    BY <1>2 DEF CodeShown
  <2>1. code_chan[u][e].verified /\ code_chan'[u][e].dest = code_chan[u][e].dest
    BY <1>4, <1>5
  <2> QED BY <2>1 DEF CodeSafe, CodeShown
<1>7. CodesOf(u)' = CodesOf(u) /\ CodeSole(u)'
  BY <1>2 DEF CodesOf, CodeSole, CodeSafe
<1>8. next = "mark" => <<c, d>> \in proven[u]
  BY <1>0, CodeAloneSafe DEF CodeDoing
<1>9. ASSUME NEW k \in CodesOf(u), codes[k].live
      PROVE  \/ code_chan'[u][codes[k].channel].dest = codes[k].dest
             \/ <<codes[k].channel, code_chan'[u][codes[k].channel].dest>> \in proven[u]
             \/ next = "read_stale" /\ codes[k].channel = c
  <2>1. codes[k].channel \in CodeChannels
    <3>1. codes[k] \in Owned!Code
      BY <1>0 DEF Owned!TypeOK, CodesOf
    <3> QED BY <3>1 DEF Owned!Code
  <2>2. CASE codes[k].channel = c
    BY <1>5, <1>8, <2>2
  <2>3. CASE codes[k].channel # c
    <3>1. code_chan'[u][codes[k].channel] = code_chan[u][codes[k].channel]
      BY <1>4, <2>1, <2>3
    <3>2. ~CodeDoing(u, r, {"read_stale", "create"})
      BY DEF CodeDoing
    <3> QED BY <1>9, <3>1, <3>2, CodeAloneCurrent
  <2> QED BY <2>2, <2>3
<1>10. \A k \in CodesOf(u) : guesses[k] <= MAX_CHECK_ATTEMPTS /\ guesses[k] <= codes[k].attempts
  <2>1. ~CodeDoing(u, r, {"wrong", "bump"})
    BY DEF CodeDoing
  <2> QED BY <2>1, CodeAloneCounted
<1>11. /\ CodeDoing(u, r, {"consume", "mark"})' <=> next = "mark"
       /\ CodeDoing(u, r, {"read_stale", "create"})' <=> next = "read_stale"
       /\ ~CodeDoing(u, r, {"oauth"})' /\ ~CodeDoing(u, r, {"create"})' /\ ~CodeDoing(u, r, {"bump"})'
  BY <1>1 DEF CodeDoing
<1> HIDE DEF c, d
<1>a. CodeDoing(u, r, {"consume", "mark"})' =>
            <<req'[r].channel, code_chan'[u][req'[r].channel].dest>> \in proven'[u]
  BY <1>1, <1>2, <1>5, <1>8, <1>11
<1>b. CodeDoing(u, r, {"read_stale", "create"})' => code_chan'[u][req'[r].channel].dest = req'[r].dest
  BY <1>1, <1>5
<1>c. \A k \in CodesOf(u)' : codes'[k].live =>
            \/ code_chan'[u][codes'[k].channel].dest = codes'[k].dest
            \/ <<codes'[k].channel, code_chan'[u][codes'[k].channel].dest>> \in proven'[u]
            \/ CodeDoing(u, r, {"read_stale", "create"})' /\ req'[r].channel = codes'[k].channel
  BY <1>1, <1>2, <1>7, <1>9, <1>11
<1>d. \A k \in CodesOf(u)' : guesses'[k] <= MAX_CHECK_ATTEMPTS /\ guesses'[k] <= codes'[k].attempts
  BY <1>2, <1>7, <1>10
<1> QED BY <1>6, <1>7, <1>11, <1>a, <1>b, <1>c, <1>d, CodeSafeAlone

\* The codes to consume are read.
LEMMA CodeReadStaleSafe ==
  ASSUME CodeTyped, NEW u \in CodeUser, NEW r \in Req, CodeAlone(u, r), CodeSafe(u), Owned!read_stale(r)
  PROVE  CodeSafe(u)'
<1>0. req[r].user = u /\ req[r].pc = "read_stale" /\ Owned!TypeOK /\ req[r] \in CodeRequest
  BY DEF CodeTyped, CodeAlone, Owned!read_stale, Owned!at, Owned!TypeOK, CodeRequest
<1>1. /\ req'[r].pc = "create" /\ req'[r].user = u /\ req'[r].channel = req[r].channel
      /\ req'[r].dest = req[r].dest /\ req'[r].stale = Owned!Live(u, req[r].channel)
  BY <1>0 DEF Owned!read_stale, Owned!TypeOK
<1>2. UNCHANGED <<code_chan, code_preferred, codes, proven, guesses, raced>>
  BY DEF Owned!read_stale
<1>3. CodesOf(u)' = CodesOf(u) /\ CodeSole(u)' /\ CodeShown(u)'
  BY <1>2 DEF CodesOf, CodeSole, CodeShown, CodeSafe
<1>4. /\ ~CodeDoing(u, r, {"consume", "mark"})' /\ ~CodeDoing(u, r, {"oauth"})' /\ ~CodeDoing(u, r, {"bump"})'
      /\ CodeDoing(u, r, {"read_stale", "create"})' /\ CodeDoing(u, r, {"read_stale", "create"})
      /\ ~CodeDoing(u, r, {"wrong", "bump"})
  BY <1>0, <1>1 DEF CodeDoing
<1>5. code_chan'[u][req'[r].channel].dest = req'[r].dest
  BY <1>1, <1>2, <1>4, CodeAloneSafe
<1>6. \A k \in CodesOf(u)' : codes'[k].live /\ codes'[k].channel = req'[r].channel
                               => k \in req'[r].stale
  BY <1>1, <1>2 DEF CodesOf, Owned!Live
<1>7. \A k \in CodesOf(u)' : codes'[k].live =>
            \/ code_chan'[u][codes'[k].channel].dest = codes'[k].dest
            \/ <<codes'[k].channel, code_chan'[u][codes'[k].channel].dest>> \in proven'[u]
            \/ CodeDoing(u, r, {"read_stale", "create"})' /\ req'[r].channel = codes'[k].channel
  BY <1>1, <1>2, <1>3, <1>4, CodeAloneCurrent
<1>8. \A k \in CodesOf(u)' : guesses'[k] <= MAX_CHECK_ATTEMPTS /\ guesses'[k] <= codes'[k].attempts
  BY <1>2, <1>3, <1>4, CodeAloneCounted
<1> QED BY <1>3, <1>4, <1>5, <1>6, <1>7, <1>8, CodeSafeAlone

\* The new code replaces the live ones.
LEMMA CodeCreateSafe ==
  ASSUME Owned!LimitsAssumption, CodeTyped, NEW u \in CodeUser, NEW r \in Req, CodeAlone(u, r), CodeSafe(u),
         Owned!create_verification_code(r)
  PROVE  CodeSafe(u)'
<1> DEFINE n == Len(codes) + 1
           c == req[r].channel
<1>0. req[r].user = u /\ req[r].pc = "create" /\ Owned!TypeOK /\ CodeFormed(r) /\ Owned!finish(r)
  BY DEF CodeTyped, CodeAlone, Owned!create_verification_code, Owned!at
<1>1. req'[r].pc = "idle"
  BY <1>0, CodeFinished
<1>2. UNCHANGED <<code_chan, code_preferred, proven, guesses, raced>>
  BY DEF Owned!create_verification_code
<1>3. /\ CodeKept /\ DOMAIN codes' = DOMAIN codes \cup {n} /\ n \notin DOMAIN codes
      /\ \A j \in DOMAIN codes : /\ codes'[j].attempts = codes[j].attempts
                                 /\ j \in req[r].stale => ~codes'[j].live
                                 /\ codes'[j].live => codes[j].live
      /\ codes'[n] = [user |-> u, channel |-> c, dest |-> req[r].dest,
                      live |-> TRUE, attempts |-> 0]
  BY <1>0, CodeAppended
<1>4. n \in Owned!CodeId /\ guesses[n] = 0
  BY <1>0, <1>3 DEF CodeTyped, Owned!TypeOK, Owned!create_verification_code, Owned!CodeId,
     Owned!LimitsAssumption
<1> HIDE DEF n, c
<1>5. /\ codes'[n].user = u /\ codes'[n].channel = c /\ codes'[n].dest = req[r].dest
      /\ codes'[n].attempts = 0
  BY <1>3
<1>6. CodesOf(u)' = CodesOf(u) \cup {n}
  BY <1>3, <1>5 DEF CodesOf, CodeKept
<1>7. ~CodeDoing(u, r, CodeLoaded)' /\ CodeDoing(u, r, {"create"}) /\ CodeDoing(u, r, {"read_stale", "create"})
      /\ ~CodeDoing(u, r, {"wrong", "bump"})
  BY <1>0, <1>1 DEF CodeDoing, CodeLoaded
<1>8. \A k \in CodesOf(u) : /\ codes'[k].user = u /\ codes'[k].channel = codes[k].channel
                            /\ codes'[k].dest = codes[k].dest /\ k \in DOMAIN codes /\ k # n
  BY <1>3 DEF CodesOf, CodeKept
<1>9. \A k \in CodesOf(u) : codes'[k].live => codes[k].live /\ codes[k].channel # c
  BY <1>3, <1>7, <1>8, CodeAloneSafe DEF c
<1>10. CodeShown(u)'
  BY <1>2 DEF CodeShown, CodeSafe
<1>11. CodeSole(u)'
  <2> SUFFICES ASSUME NEW j \in CodesOf(u)', NEW k \in CodesOf(u)', codes'[j].live, codes'[k].live,
                      codes'[j].channel = codes'[k].channel
               PROVE  j = k
    BY DEF CodeSole
  <2>1. CASE j = n \/ k = n
    BY <2>1, <1>5, <1>6, <1>8, <1>9
  <2>2. CASE j # n /\ k # n
    <3>1. j \in CodesOf(u) /\ k \in CodesOf(u)
      BY <2>2, <1>6
    <3> QED BY <3>1, <1>8, <1>9 DEF CodeSafe, CodeSole
  <2> QED BY <2>1, <2>2
<1>12. ASSUME NEW k \in CodesOf(u)', codes'[k].live
       PROVE  \/ code_chan'[u][codes'[k].channel].dest = codes'[k].dest
              \/ <<codes'[k].channel, code_chan'[u][codes'[k].channel].dest>> \in proven'[u]
  <2>1. CASE k = n
    <3>1. code_chan[u][c].dest = req[r].dest
      BY <1>7, CodeAloneSafe DEF c
    <3> QED BY <2>1, <3>1, <1>2, <1>5
  <2>2. CASE k # n
    <3>1. k \in CodesOf(u)
      BY <2>2, <1>6
    <3>2. codes[k].live /\ codes[k].channel # c
      BY <3>1, <1>9, <1>12
    <3>3. \/ code_chan[u][codes[k].channel].dest = codes[k].dest
          \/ <<codes[k].channel, code_chan[u][codes[k].channel].dest>> \in proven[u]
      BY <3>1, <3>2, CodeAloneCurrent DEF c
    <3> QED BY <3>1, <3>3, <1>2, <1>8
  <2> QED BY <2>1, <2>2
<1>13. ASSUME NEW k \in CodesOf(u)'
       PROVE  guesses'[k] <= MAX_CHECK_ATTEMPTS /\ guesses'[k] <= codes'[k].attempts
  <2>1. CASE k = n
    BY <2>1, <1>2, <1>4, <1>5 DEF Owned!LimitsAssumption
  <2>2. CASE k # n
    <3>1. k \in CodesOf(u)
      BY <2>2, <1>6
    <3> QED BY <3>1, <1>2, <1>3, <1>7, <1>8, CodeAloneCounted
  <2> QED BY <2>1, <2>2
<1>14. /\ ~CodeDoing(u, r, {"consume", "mark"})' /\ ~CodeDoing(u, r, {"oauth"})' /\ ~CodeDoing(u, r, {"bump"})'
       /\ ~CodeDoing(u, r, {"read_stale", "create"})' /\ ~CodeDoing(u, r, {"create"})'
  BY <1>1 DEF CodeDoing
<1> QED BY <1>10, <1>11, <1>12, <1>13, <1>14, CodeSafeAlone


\* The right code was entered: its destination is proven, and it is the registered one.
LEMMA CodeRightCodeSafe ==
  ASSUME Owned!LimitsAssumption, CodeTyped, NEW u \in CodeUser, NEW r \in Req, CodeAlone(u, r), CodeSafe(u),
         req[r].pc = "lookup", NEW k \in Owned!Live(u, req[r].channel),
         req' = [req EXCEPT ![r].pc = "consume", ![r].code = k],
         proven' = [proven EXCEPT ![u] = @ \cup {<<codes[k].channel, codes[k].dest>>}],
         UNCHANGED <<code_chan, codes, guesses>>
  PROVE  CodeSafe(u)'
<1>0. req[r].user = u /\ Owned!TypeOK /\ k \in CodesOf(u) /\ codes[k].live
      /\ codes[k].channel = req[r].channel /\ k \in Owned!CodeId
  BY CodeField DEF CodeTyped, CodeAlone, Owned!Live, CodesOf
<1>1. req'[r].pc = "consume" /\ req'[r].user = u /\ req'[r].channel = req[r].channel
  BY <1>0, CodeAtCode
<1>2. proven'[u] = proven[u] \cup {<<codes[k].channel, codes[k].dest>>}
  BY <1>0 DEF Owned!TypeOK
<1>3. ~CodeDoing(u, r, {"read_stale", "create"}) /\ ~CodeDoing(u, r, {"wrong", "bump"})
  BY DEF CodeDoing
<1>4. <<req[r].channel, code_chan[u][req[r].channel].dest>> \in proven'[u]
  BY <1>0, <1>2, <1>3, CodeAloneCurrent
<1>5. CodeShown(u)' /\ CodeSole(u)' /\ CodesOf(u)' = CodesOf(u)
  BY <1>2 DEF CodeSafe, CodeShown, CodeSole, CodesOf
<1>6. /\ ~CodeDoing(u, r, {"oauth"})' /\ ~CodeDoing(u, r, {"bump"})'
      /\ ~CodeDoing(u, r, {"read_stale", "create"})' /\ ~CodeDoing(u, r, {"create"})'
  BY <1>1 DEF CodeDoing
<1>7. ASSUME NEW j \in CodesOf(u), codes[j].live
      PROVE  \/ code_chan[u][codes[j].channel].dest = codes[j].dest
             \/ <<codes[j].channel, code_chan[u][codes[j].channel].dest>> \in proven'[u]
  BY <1>2, <1>3, <1>7, CodeAloneCurrent
<1>8. \A j \in CodesOf(u) : guesses[j] <= MAX_CHECK_ATTEMPTS /\ guesses[j] <= codes[j].attempts
  BY <1>3, CodeAloneCounted
<1> QED BY <1>1, <1>4, <1>5, <1>6, <1>7, <1>8, CodeSafeAlone

\* A wrong code was entered: the guess counts before it is in the attempts.
LEMMA CodeWrongCodeSafe ==
  ASSUME Owned!LimitsAssumption, CodeTyped, NEW u \in CodeUser, NEW r \in Req, CodeAlone(u, r), CodeSafe(u),
         req[r].pc = "lookup", NEW k \in Owned!Live(u, req[r].channel),
         codes[k].attempts < MAX_CHECK_ATTEMPTS,
         req' = [req EXCEPT ![r].pc = "wrong", ![r].code = k],
         guesses' = [guesses EXCEPT ![k] = @ + 1],
         UNCHANGED <<code_chan, codes, proven>>
  PROVE  CodeSafe(u)'
<1>0. req[r].user = u /\ Owned!TypeOK /\ k \in CodesOf(u) /\ k \in Owned!CodeId
  BY CodeField DEF CodeTyped, CodeAlone, Owned!Live, CodesOf
<1>1. req'[r].pc = "wrong" /\ req'[r].user = u /\ req'[r].code = k
  BY <1>0, CodeAtCode
<1>2. /\ guesses'[k] = guesses[k] + 1 /\ guesses[k] \in Nat /\ codes[k].attempts \in Nat
      /\ \A j \in Owned!CodeId : j # k => guesses'[j] = guesses[j]
  <2>1. codes[k] \in Owned!Code
    BY <1>0 DEF Owned!TypeOK, CodesOf
  <2>2. guesses \in [Owned!CodeId -> Nat]
    BY <1>0 DEF Owned!TypeOK
  <2> QED BY <1>0, <2>1, <2>2 DEF Owned!Code
<1>3. ~CodeDoing(u, r, {"read_stale", "create"}) /\ ~CodeDoing(u, r, {"wrong", "bump"})
  BY DEF CodeDoing
<1>4. CodeShown(u)' /\ CodeSole(u)' /\ CodesOf(u)' = CodesOf(u)
  BY DEF CodeSafe, CodeShown, CodeSole, CodesOf
<1>5. /\ ~CodeDoing(u, r, {"oauth"})' /\ ~CodeDoing(u, r, {"bump"})' /\ ~CodeDoing(u, r, {"consume", "mark"})'
      /\ ~CodeDoing(u, r, {"read_stale", "create"})' /\ ~CodeDoing(u, r, {"create"})'
      /\ CodeDoing(u, r, {"wrong", "bump"})'
  BY <1>1 DEF CodeDoing
<1>6. ASSUME NEW j \in CodesOf(u), codes[j].live
      PROVE  \/ code_chan[u][codes[j].channel].dest = codes[j].dest
             \/ <<codes[j].channel, code_chan[u][codes[j].channel].dest>> \in proven[u]
  BY <1>3, <1>6, CodeAloneCurrent
<1>7. ASSUME NEW j \in CodesOf(u)
      PROVE  /\ guesses'[j] <= MAX_CHECK_ATTEMPTS
             /\ \/ guesses'[j] <= codes[j].attempts
                \/ guesses'[j] <= codes[j].attempts + 1 /\ j = k
  <2>1. guesses[j] <= MAX_CHECK_ATTEMPTS /\ guesses[j] <= codes[j].attempts
    BY <1>3, CodeAloneCounted
  <2>2. CASE j = k
    BY <2>1, <2>2, <1>2 DEF Owned!LimitsAssumption
  <2>3. CASE j # k
    <3>1. j \in Owned!CodeId
      BY <1>0, CodeField DEF CodesOf
    <3> QED BY <2>1, <2>3, <3>1, <1>2
  <2> QED BY <2>2, <2>3
<1> QED BY <1>1, <1>4, <1>5, <1>6, <1>7, CodeSafeAlone

\* The attempts of the code are read ...
LEMMA CodeReadCodeSafe ==
  ASSUME CodeTyped, NEW u \in CodeUser, NEW r \in Req, CodeAlone(u, r), CodeSafe(u), Owned!read_code(r)
  PROVE  CodeSafe(u)'
<1>0. req[r].user = u /\ req[r].pc = "wrong" /\ Owned!TypeOK
  BY DEF CodeTyped, CodeAlone, Owned!read_code, Owned!at
<1>1. /\ req'[r].pc = "bump" /\ req'[r].user = u /\ req'[r].code = req[r].code
      /\ req'[r].attempts = codes[req[r].code].attempts + 1
  BY <1>0 DEF Owned!read_code, Owned!TypeOK
<1>2. UNCHANGED <<code_chan, code_preferred, codes, proven, guesses, raced>>
  BY DEF Owned!read_code
<1>3. CodeShown(u)' /\ CodeSole(u)' /\ CodesOf(u)' = CodesOf(u)
  BY <1>2 DEF CodeSafe, CodeShown, CodeSole, CodesOf
<1>4. /\ ~CodeDoing(u, r, {"oauth"})' /\ ~CodeDoing(u, r, {"consume", "mark"})'
      /\ ~CodeDoing(u, r, {"read_stale", "create"})' /\ ~CodeDoing(u, r, {"create"})'
      /\ CodeDoing(u, r, {"wrong", "bump"})' /\ CodeDoing(u, r, {"wrong", "bump"})
      /\ ~CodeDoing(u, r, {"read_stale", "create"})
  BY <1>0, <1>1 DEF CodeDoing
<1>5. ASSUME NEW j \in CodesOf(u), codes[j].live
      PROVE  \/ code_chan[u][codes[j].channel].dest = codes[j].dest
             \/ <<codes[j].channel, code_chan[u][codes[j].channel].dest>> \in proven[u]
  BY <1>4, <1>5, CodeAloneCurrent
<1>6. \A j \in CodesOf(u) :
         /\ guesses[j] <= MAX_CHECK_ATTEMPTS
         /\ \/ guesses[j] <= codes[j].attempts
            \/ guesses[j] <= codes[j].attempts + 1 /\ req'[r].code = j
  BY <1>1, <1>4, CodeAloneCounted
<1>7. \A j \in CodesOf(u)' : codes'[j].live =>
         \/ code_chan'[u][codes'[j].channel].dest = codes'[j].dest
         \/ <<codes'[j].channel, code_chan'[u][codes'[j].channel].dest>> \in proven'[u]
  BY <1>2, <1>3, <1>5
<1>8. \A j \in CodesOf(u)' :
         /\ guesses'[j] <= MAX_CHECK_ATTEMPTS
         /\ \/ guesses'[j] <= codes'[j].attempts
            \/ guesses'[j] <= codes'[j].attempts + 1 /\ req'[r].code = j
  BY <1>2, <1>3, <1>6
<1>9. req'[r].attempts = codes'[req'[r].code].attempts + 1
  BY <1>1, <1>2
<1> QED BY <1>3, <1>4, <1>7, <1>8, <1>9, CodeSafeAlone

\* ... and written, one higher.
LEMMA CodeRecordAttemptSafe ==
  ASSUME Owned!LimitsAssumption, CodeTyped, NEW u \in CodeUser, NEW r \in Req, CodeAlone(u, r), CodeSafe(u),
         Owned!record_code_attempt(r)
  PROVE  CodeSafe(u)'
<1> DEFINE k == req[r].code
           n == req[r].attempts
<1>0. req[r].user = u /\ req[r].pc = "bump" /\ Owned!TypeOK /\ CodeFormed(r) /\ Owned!finish(r)
  BY DEF CodeTyped, CodeAlone, Owned!record_code_attempt, Owned!at
<1>1. req'[r].pc = "idle" /\ UNCHANGED <<code_chan, code_preferred, proven, guesses, raced>>
  BY <1>0, CodeFinished DEF Owned!record_code_attempt
<1>2. k \in CodesOf(u) /\ k \in DOMAIN codes /\ n \in Nat /\ codes' = [codes EXCEPT ![k].attempts = n]
  BY <1>0 DEF CodeFormed, CodesOf, Owned!TypeOK, Owned!record_code_attempt
<1>3. CodeDoing(u, r, {"bump"}) /\ ~CodeDoing(u, r, {"read_stale", "create"})
  BY <1>0 DEF CodeDoing
<1>4. n = codes[k].attempts + 1
  BY <1>3, CodeAloneCounted
<1> HIDE DEF n, k
<1>5. /\ CodeKept /\ DOMAIN codes' = DOMAIN codes
      /\ \A j \in DOMAIN codes : j # k => codes'[j] = codes[j]
      /\ \A j \in DOMAIN codes : codes'[j].live => codes[j].live
      /\ codes'[k].attempts = n
  BY <1>0, <1>2, CodeChanged
<1>6. CodesOf(u)' = CodesOf(u)
  BY <1>5 DEF CodeKept, CodesOf
<1>7. \A j \in CodesOf(u) : /\ codes'[j].channel = codes[j].channel /\ codes'[j].dest = codes[j].dest
                            /\ codes'[j].live => codes[j].live
                            /\ j \in DOMAIN codes
  BY <1>5 DEF CodeKept, CodesOf
<1>8. CodeShown(u)' /\ CodeSole(u)'
  BY <1>1, <1>6, <1>7 DEF CodeSafe, CodeShown, CodeSole
<1>9. ASSUME NEW j \in CodesOf(u), codes[j].live
      PROVE  \/ code_chan[u][codes[j].channel].dest = codes[j].dest
             \/ <<codes[j].channel, code_chan[u][codes[j].channel].dest>> \in proven[u]
  BY <1>3, <1>9, CodeAloneCurrent
<1>10. ASSUME NEW j \in CodesOf(u)
       PROVE  guesses[j] <= MAX_CHECK_ATTEMPTS /\ guesses[j] <= codes'[j].attempts
  <2>1. /\ guesses[j] <= MAX_CHECK_ATTEMPTS
        /\ \/ guesses[j] <= codes[j].attempts
           \/ guesses[j] <= codes[j].attempts + 1 /\ k = j
    <3>1. \/ guesses[j] <= codes[j].attempts
          \/ guesses[j] <= codes[j].attempts + 1 /\ req[r].code = j
      BY CodeAloneCounted
    <3>2. guesses[j] <= MAX_CHECK_ATTEMPTS
      BY CodeAloneCounted
    <3> QED BY <3>1, <3>2 DEF k
  <2>2. guesses[j] \in Nat /\ codes[j].attempts \in Nat
    <3>1. codes[j] \in Owned!Code /\ j \in Owned!CodeId
      BY <1>0, CodeField DEF CodesOf
    <3>2. guesses \in [Owned!CodeId -> Nat]
      BY <1>0 DEF Owned!TypeOK
    <3> QED BY <3>1, <3>2 DEF Owned!Code
  <2>3. CASE j = k
    BY <2>1, <2>2, <2>3, <1>4, <1>5
  <2>4. CASE j # k
    BY <2>1, <2>4, <1>5, <1>7
  <2> QED BY <2>3, <2>4
<1>11. /\ ~CodeDoing(u, r, {"consume", "mark"})' /\ ~CodeDoing(u, r, {"oauth"})' /\ ~CodeDoing(u, r, {"bump"})'
       /\ ~CodeDoing(u, r, {"read_stale", "create"})' /\ ~CodeDoing(u, r, {"create"})'
  BY <1>1 DEF CodeDoing
<1> QED BY <1>1, <1>6, <1>7, <1>8, <1>9, <1>10, <1>11, CodeSafeAlone

\* The code is consumed, and the registration marked.
LEMMA CodeConsumeSafe ==
  ASSUME Owned!LimitsAssumption, CodeTyped, NEW u \in CodeUser, NEW r \in Req, CodeAlone(u, r), CodeSafe(u),
         Owned!consume_verification_code(r)
  PROVE  CodeSafe(u)'
<1> DEFINE k == req[r].code
<1>0. req[r].user = u /\ req[r].pc = "consume" /\ Owned!TypeOK /\ CodeFormed(r) /\ Owned!goto(r, "mark")
  BY DEF CodeTyped, CodeAlone, Owned!consume_verification_code, Owned!at
<1>1. req'[r].pc = "mark" /\ req'[r].user = u /\ req'[r].channel = req[r].channel
      /\ UNCHANGED <<code_chan, code_preferred, proven, guesses, raced>>
  BY <1>0, CodeMoved DEF Owned!consume_verification_code, Owned!Pc
<1>2. k \in DOMAIN codes /\ codes' = [codes EXCEPT ![k].live = FALSE]
  BY <1>0 DEF CodeFormed, Owned!consume_verification_code
<1>3. CodeDoing(u, r, {"consume", "mark"}) /\ ~CodeDoing(u, r, {"read_stale", "create"})
      /\ ~CodeDoing(u, r, {"wrong", "bump"})
  BY <1>0 DEF CodeDoing
<1>4. <<req[r].channel, code_chan[u][req[r].channel].dest>> \in proven[u]
  BY <1>3, CodeAloneSafe
<1> HIDE DEF k
<1>5. /\ CodeKept /\ DOMAIN codes' = DOMAIN codes
      /\ \A j \in DOMAIN codes : j # k => codes'[j] = codes[j]
      /\ \A j \in DOMAIN codes : codes'[j].live => codes[j].live
      /\ codes'[k].attempts = codes[k].attempts
  BY <1>0, <1>2, CodeChanged
<1>6. CodesOf(u)' = CodesOf(u)
  BY <1>5 DEF CodeKept, CodesOf
<1>7. \A j \in CodesOf(u) : /\ codes'[j].channel = codes[j].channel /\ codes'[j].dest = codes[j].dest
                            /\ codes'[j].live => codes[j].live
                            /\ codes'[j].attempts = codes[j].attempts
  BY <1>5 DEF CodeKept, CodesOf
<1>8. CodeShown(u)' /\ CodeSole(u)'
  BY <1>1, <1>6, <1>7 DEF CodeSafe, CodeShown, CodeSole
<1>9. ASSUME NEW j \in CodesOf(u), codes[j].live
      PROVE  \/ code_chan[u][codes[j].channel].dest = codes[j].dest
             \/ <<codes[j].channel, code_chan[u][codes[j].channel].dest>> \in proven[u]
  BY <1>3, <1>9, CodeAloneCurrent
<1>10. \A j \in CodesOf(u) : guesses[j] <= MAX_CHECK_ATTEMPTS /\ guesses[j] <= codes[j].attempts
  BY <1>3, CodeAloneCounted
<1>11. /\ ~CodeDoing(u, r, {"oauth"})' /\ ~CodeDoing(u, r, {"bump"})'
       /\ ~CodeDoing(u, r, {"read_stale", "create"})' /\ ~CodeDoing(u, r, {"create"})'
  BY <1>1 DEF CodeDoing
<1> QED BY <1>1, <1>4, <1>6, <1>7, <1>8, <1>9, <1>10, <1>11, CodeSafeAlone

\* mark_channel_verified: the destination it marks is the one its code was sent to.
LEMMA CodeMarkSafe ==
  ASSUME CodeTyped, NEW u \in CodeUser, NEW r \in Req, CodeAlone(u, r), CodeSafe(u), Owned!mark_channel_verified(r)
  PROVE  CodeSafe(u)'
<1> DEFINE c == req[r].channel
<1>0. req[r].user = u /\ req[r].pc = "mark" /\ Owned!TypeOK /\ c \in CodeChannels /\ Owned!goto(r, "prefer")
  BY DEF CodeTyped, CodeFormed, CodeAlone, Owned!mark_channel_verified, Owned!at
<1>1. req'[r].pc = "prefer" /\ UNCHANGED <<code_preferred, codes, proven, guesses, raced>>
  BY <1>0, CodeMoved DEF Owned!mark_channel_verified, Owned!Pc
<1>2. /\ code_chan'[u][c] = Owned!MarkedVerified(code_chan[u][c]) /\ code_chan[u][c] \in Owned!Reg
      /\ \A e \in CodeChannels : e # c => code_chan'[u][e] = code_chan[u][e]
  BY <1>0 DEF Owned!mark_channel_verified, Owned!TypeOK
<1>3. code_chan'[u][c].dest = code_chan[u][c].dest
  BY <1>2 DEF Owned!MarkedVerified, Owned!Reg
<1>4. /\ CodeDoing(u, r, {"consume", "mark"}) /\ ~CodeDoing(u, r, {"read_stale", "create"})
      /\ ~CodeDoing(u, r, {"wrong", "bump"})
  BY <1>0 DEF CodeDoing
<1>5. <<c, code_chan[u][c].dest>> \in proven[u]
  BY <1>4, CodeAloneSafe
<1> HIDE DEF c
<1>6. CodeShown(u)'
  <2> SUFFICES ASSUME NEW e \in CodeChannels, code_chan'[u][e].verified
               PROVE  <<e, code_chan'[u][e].dest>> \in proven[u]
    BY <1>1 DEF CodeShown
  <2>1. CASE e = c
    BY <2>1, <1>3, <1>5
  <2>2. CASE e # c
    BY <2>2, <1>2 DEF CodeSafe, CodeShown
  <2> QED BY <2>1, <2>2
<1>7. CodesOf(u)' = CodesOf(u) /\ CodeSole(u)'
  BY <1>1 DEF CodesOf, CodeSole, CodeSafe
<1>8. ASSUME NEW j \in CodesOf(u), codes[j].live
      PROVE  \/ code_chan'[u][codes[j].channel].dest = codes[j].dest
             \/ <<codes[j].channel, code_chan'[u][codes[j].channel].dest>> \in proven[u]
  <2>1. code_chan'[u][codes[j].channel].dest = code_chan[u][codes[j].channel].dest
    <3>1. codes[j] \in Owned!Code
      BY <1>0 DEF Owned!TypeOK, CodesOf
    <3>2. codes[j].channel \in CodeChannels
      BY <3>1 DEF Owned!Code
    <3> QED BY <3>2, <1>2, <1>3
  <2> QED BY <2>1, <1>4, <1>8, CodeAloneCurrent
<1>9. \A j \in CodesOf(u) : guesses[j] <= MAX_CHECK_ATTEMPTS /\ guesses[j] <= codes[j].attempts
  BY <1>4, CodeAloneCounted
<1>10. /\ ~CodeDoing(u, r, {"consume", "mark"})' /\ ~CodeDoing(u, r, {"oauth"})' /\ ~CodeDoing(u, r, {"bump"})'
       /\ ~CodeDoing(u, r, {"read_stale", "create"})' /\ ~CodeDoing(u, r, {"create"})'
  BY <1>1 DEF CodeDoing
<1> QED BY <1>1, <1>6, <1>7, <1>8, <1>9, <1>10, CodeSafeAlone

CodeOnlyMoves(r) == \A q \in Req : q # r => req'[q] = req[q]

\* A step of request r of which Safe(u) says nothing.
LEMMA CodeElsewhere ==
  ASSUME NEW u \in CodeUser, NEW r \in Req, CodeOnlyMoves(r), CodeKept,
         ~CodeDoing(u, r, CodeLoaded), ~CodeDoing(u, r, CodeLoaded)',
         code_chan'[u] = code_chan[u], proven'[u] = proven[u],
         \A k \in DOMAIN codes' : k \notin DOMAIN codes => codes'[k].user # u,
         \A k \in CodesOf(u) : /\ codes'[k].attempts = codes[k].attempts
                               /\ codes'[k].live => codes[k].live
                               /\ guesses'[k] = guesses[k]
  PROVE  CodeFramed(u)
<1>1. \A q \in Req : CodeDoing(u, q, CodeLoaded)' => req'[q] = req[q]
  BY DEF CodeOnlyMoves
<1>2. \A q \in Req : CodeDoing(u, q, {"read_stale", "create", "wrong", "bump"}) => req'[q] = req[q]
  BY DEF CodeOnlyMoves, CodeDoing, CodeLoaded
<1>3. CodesOf(u)' = CodesOf(u)
  BY DEF CodeKept, CodesOf
<1>4. \A k \in CodesOf(u) : codes'[k].channel = codes[k].channel /\ codes'[k].dest = codes[k].dest
  BY DEF CodeKept, CodesOf
<1> QED BY <1>1, <1>2, <1>3, <1>4 DEF CodeFramed

\* A request that holds nothing read from the tables moves: nobody is affected.
LEMMA CodeQuiet ==
  ASSUME NEW u \in CodeUser, NEW r \in Req, CodeOnlyMoves(r),
         ~CodeDoing(u, r, CodeLoaded), ~CodeDoing(u, r, CodeLoaded)',
         UNCHANGED <<code_chan, codes, proven, guesses>>
  PROVE  CodeFramed(u)
<1>1. CodeKept
  BY DEF CodeKept
<1> QED BY <1>1, CodeElsewhere

\* A request that is under way moves on, or ends.
LEMMA CodeStepped ==
  ASSUME Owned!LimitsAssumption, CodeTyped, NEW r \in Req, Owned!step(r) \/ Owned!die(r)
  PROVE  /\ req[r].pc # "idle" /\ CodeOnlyMoves(r)
         /\ req'[r].pc = "idle" \/ req'[r].user = req[r].user
<1>0. Owned!TypeOK
  BY DEF CodeTyped
<1>1. ASSUME req[r].pc # "idle", Owned!finish(r)
      PROVE  /\ req[r].pc # "idle" /\ CodeOnlyMoves(r)
             /\ req'[r].pc = "idle" \/ req'[r].user = req[r].user
  BY <1>0, <1>1, CodeFinished DEF CodeOnlyMoves
<1>2. ASSUME req[r].pc # "idle", NEW pc \in Owned!Pc, Owned!goto(r, pc)
      PROVE  /\ req[r].pc # "idle" /\ CodeOnlyMoves(r)
             /\ req'[r].pc = "idle" \/ req'[r].user = req[r].user
  BY <1>0, <1>2, CodeMoved DEF CodeOnlyMoves
<1>3. {"upsert", "read_stale", "mark", "prefer"} \subseteq Owned!Pc
  BY DEF Owned!Pc
<1>4. CASE Owned!count_user(r)
  BY <1>1, <1>2, <1>3, <1>4 DEF Owned!count_user, Owned!at
<1>5. CASE Owned!issue_upsert(r)
  BY <1>2, <1>3, <1>5 DEF Owned!issue_upsert, Owned!upsert_notification_channel, Owned!at
<1>6. CASE Owned!read_stale(r)
  BY <1>0, <1>6 DEF Owned!read_stale, Owned!at, Owned!TypeOK, CodeOnlyMoves
<1>7. CASE Owned!create_verification_code(r)
  BY <1>1, <1>7 DEF Owned!create_verification_code, Owned!at
<1>8. CASE Owned!latest_verification_code(r)
  <2>1. req[r].pc = "lookup"
    BY <1>0, <1>8, CodeCompared
  <2>2. CASE Owned!finish(r)
    BY <1>1, <2>1, <2>2
  <2>3. CASE ~Owned!finish(r)
    <3>1. PICK k \in Owned!Live(req[r].user, req[r].channel), pc \in {"consume", "wrong"} :
             req' = [req EXCEPT ![r].pc = pc, ![r].code = k]
      BY <1>0, <1>8, <2>3, CodeCompared
    <3>2. k \in Owned!CodeId
      BY <1>0, CodeField DEF Owned!Live
    <3> QED BY <1>0, <2>1, <3>1, <3>2, CodeAtCode DEF CodeOnlyMoves
  <2> QED BY <2>2, <2>3
<1>9. CASE Owned!read_code(r)
  BY <1>0, <1>9 DEF Owned!read_code, Owned!at, Owned!TypeOK, CodeOnlyMoves
<1>10. CASE Owned!record_code_attempt(r)
  BY <1>1, <1>10 DEF Owned!record_code_attempt, Owned!at
<1>11. CASE Owned!consume_verification_code(r)
  BY <1>2, <1>3, <1>11 DEF Owned!consume_verification_code, Owned!at
<1>12. CASE Owned!mark_channel_verified(r)
  BY <1>2, <1>3, <1>12 DEF Owned!mark_channel_verified, Owned!at
<1>13. CASE Owned!set_preferred_channel(r)
  BY <1>1, <1>13 DEF Owned!set_preferred_channel, Owned!at
<1>14. CASE Owned!oauth_upsert(r)
  BY <1>2, <1>3, <1>14 DEF Owned!oauth_upsert, Owned!upsert_notification_channel, Owned!at
<1>15. CASE Owned!die(r)
  BY <1>1, <1>15 DEF Owned!die, Owned!at
<1> QED BY <1>4, <1>5, <1>6, <1>7, <1>8, <1>9, <1>10, <1>11, <1>12, <1>13, <1>14, <1>15
      DEF Owned!step

\* What the request of another user changes is not u's.
LEMMA CodeOthersFrame ==
  ASSUME Owned!LimitsAssumption, CodeTyped, NEW u \in CodeUser, NEW r \in Req, req[r].user # u,
         Owned!step(r) \/ Owned!die(r)
  PROVE  CodeFramed(u)
<1>0. Owned!TypeOK /\ CodeFormed(r)
  BY DEF CodeTyped
<1>1. CodeOnlyMoves(r) /\ req[r].pc # "idle" /\ ~CodeDoing(u, r, CodeLoaded) /\ ~CodeDoing(u, r, CodeLoaded)'
  BY CodeStepped DEF CodeDoing, CodeLoaded
<1>2. ASSUME UNCHANGED <<code_chan, codes, proven, guesses>> PROVE CodeFramed(u)
  BY <1>1, <1>2, CodeQuiet
<1>3. ASSUME UNCHANGED <<codes, proven, guesses>>, code_chan'[u] = code_chan[u] PROVE CodeFramed(u)
  <2>1. CodeKept
    BY <1>3 DEF CodeKept
  <2> QED BY <1>1, <1>3, <2>1, CodeElsewhere
<1>4. ASSUME NEW k \in DOMAIN codes, codes[k].user # u, NEW n \in Nat,
             \/ codes' = [codes EXCEPT ![k].live = FALSE]
             \/ codes' = [codes EXCEPT ![k].attempts = n],
             UNCHANGED <<code_chan, proven, guesses>>
      PROVE  CodeFramed(u)
  <2>1. /\ CodeKept /\ DOMAIN codes' = DOMAIN codes
        /\ \A j \in DOMAIN codes : j # k => codes'[j] = codes[j]
        /\ \A j \in DOMAIN codes : codes'[j].live => codes[j].live
    BY <1>0, <1>4, CodeChanged
  <2>2. \A j \in CodesOf(u) : j # k /\ j \in DOMAIN codes
    BY <1>4 DEF CodesOf
  <2> QED BY <1>1, <1>4, <2>1, <2>2, CodeElsewhere
<1>5. code_chan \in [CodeUser -> [CodeChannels -> Owned!Reg]] /\ proven \in [CodeUser -> SUBSET (CodeChannels \X CodeDest)]
  BY <1>0 DEF Owned!TypeOK
<1>6. CASE Owned!count_user(r) \/ Owned!read_stale(r) \/ Owned!read_code(r) \/ Owned!set_preferred_channel(r) \/ Owned!die(r)
  BY <1>2, <1>6 DEF Owned!count_user, Owned!read_stale, Owned!read_code,
     Owned!set_preferred_channel, Owned!die
<1>7. CASE Owned!issue_upsert(r) \/ Owned!oauth_upsert(r)
  BY <1>3, <1>5, <1>7 DEF Owned!issue_upsert, Owned!oauth_upsert, Owned!upsert_notification_channel
<1>8. CASE Owned!mark_channel_verified(r)
  BY <1>3, <1>5, <1>8 DEF Owned!mark_channel_verified
<1>9. CASE Owned!create_verification_code(r)
  <2> DEFINE n == Len(codes) + 1
  <2>1. /\ CodeKept /\ DOMAIN codes' = DOMAIN codes \cup {n}
        /\ \A j \in DOMAIN codes : /\ codes'[j].attempts = codes[j].attempts
                                   /\ codes'[j].live => codes[j].live
        /\ codes'[n].user = req[r].user
    <3>1. codes'[n] = [user |-> req[r].user, channel |-> req[r].channel,
                       dest |-> req[r].dest, live |-> TRUE, attempts |-> 0]
      BY <1>0, <1>9, CodeAppended
    <3>2. codes'[n].user = req[r].user
      BY <3>1
    <3> QED BY <1>0, <1>9, <3>2, CodeAppended
  <2>2. UNCHANGED <<code_chan, proven, guesses>>
    BY <1>9 DEF Owned!create_verification_code
  <2> HIDE DEF n
  <2>3. CodesOf(u) \subseteq DOMAIN codes
    BY DEF CodesOf
  <2> QED BY <1>1, <2>1, <2>2, <2>3, CodeElsewhere
<1>10. CASE Owned!latest_verification_code(r)
  <2>1. req[r].pc = "lookup" /\ UNCHANGED <<code_chan, code_preferred, codes, raced>>
    BY <1>0, <1>10, CodeCompared
  <2>2. CASE UNCHANGED <<guesses, proven>>
    BY <1>2, <2>1, <2>2
  <2>3. ASSUME NEW k \in Owned!Live(req[r].user, req[r].channel),
               \/ /\ proven' = [proven EXCEPT ![req[r].user] =
                                  @ \cup {<<codes[k].channel, codes[k].dest>>}]
                  /\ UNCHANGED guesses
               \/ /\ guesses' = [guesses EXCEPT ![k] = @ + 1]
                  /\ UNCHANGED proven
        PROVE  CodeFramed(u)
    <3>1. proven'[u] = proven[u]
      BY <1>5, <2>3
    <3>2. \A j \in CodesOf(u) : j # k /\ j \in Owned!CodeId
      BY <1>0, CodeField DEF CodesOf, Owned!Live
    <3>3. \A j \in CodesOf(u) : guesses'[j] = guesses[j]
      BY <1>0, <2>3, <3>2 DEF Owned!TypeOK
    <3>4. CodeKept
      BY <2>1 DEF CodeKept
    <3> QED BY <1>1, <2>1, <3>1, <3>3, <3>4, CodeElsewhere
  <2> QED BY <1>0, <1>10, <2>2, <2>3, CodeCompared
<1>11. CASE Owned!record_code_attempt(r)
  <2>1. req[r].pc = "bump" /\ req[r].attempts \in Nat
    BY <1>0, <1>11 DEF Owned!record_code_attempt, Owned!at, Owned!TypeOK
  <2>2. req[r].code \in DOMAIN codes /\ codes[req[r].code].user # u
    BY <1>0, <2>1 DEF CodeFormed
  <2>3. UNCHANGED <<code_chan, proven, guesses>>
        /\ codes' = [codes EXCEPT ![req[r].code].attempts = req[r].attempts]
    BY <1>11 DEF Owned!record_code_attempt
  <2> QED BY <1>4, <2>1, <2>2, <2>3
<1>12. CASE Owned!consume_verification_code(r)
  <2>1. req[r].pc = "consume"
    BY <1>12 DEF Owned!consume_verification_code, Owned!at
  <2>2. req[r].code \in DOMAIN codes /\ codes[req[r].code].user # u
    BY <1>0, <2>1 DEF CodeFormed
  <2>3. UNCHANGED <<code_chan, proven, guesses>>
        /\ codes' = [codes EXCEPT ![req[r].code].live = FALSE]
    BY <1>12 DEF Owned!consume_verification_code
  <2> QED BY <1>4, <2>2, <2>3
<1> QED BY <1>6, <1>7, <1>8, <1>9, <1>10, <1>11, <1>12 DEF Owned!step

\* Discord's answer proves its destination before it is registered.
LEMMA CodeOAuthSafe ==
  ASSUME Owned!LimitsAssumption, CodeTyped, NEW u \in CodeUser, CodeSafe(u), NEW r \in Req, NEW d \in CodeDest,
         "discord" \in CodeChannels, Owned!discord_oauth_callback(r, u, d), u \notin raced'
  PROVE  CodeSafe(u)'
<1>0. Owned!TypeOK
  BY DEF CodeTyped
<1>1. Owned!begin(r, u, "discord", d, 0, "oauth") /\ "oauth" \in Owned!Pc /\ 0 \in 0..MaxCodes
      /\ UNCHANGED <<code_chan, code_preferred, codes, guesses>>
  BY DEF Owned!discord_oauth_callback, Owned!Pc, Owned!LimitsAssumption
<1>2. /\ CodeOnlyMoves(r) /\ req'[r].pc = "oauth" /\ req'[r].user = u
      /\ req'[r].channel = "discord" /\ req'[r].dest = d
      /\ \A q \in Req : req[q].user # u
  BY <1>0, <1>1, CodeBegun DEF CodeOnlyMoves
<1>3. proven'[u] = proven[u] \cup {<<"discord", d>>}
  BY <1>0 DEF Owned!discord_oauth_callback, Owned!TypeOK
<1>4. ASSUME NEW q \in Req, q # r PROVE req'[q].user # u
  BY <1>2, <1>4 DEF CodeOnlyMoves
<1>5. CodeShown(u)' /\ CodeSole(u)' /\ CodesOf(u)' = CodesOf(u)
  BY <1>1, <1>3 DEF CodeSafe, CodeShown, CodeSole, CodesOf
<1>6. CodeConfirmed(u)'
  BY <1>2, <1>3, <1>4 DEF CodeConfirmed, CodeDoing
<1>7. CodeRegistered(u)'
  BY <1>2, <1>4 DEF CodeRegistered, CodeDoing
<1>8. CodeCurrent(u)'
  <2>1. \A k \in CodesOf(u) : codes[k].live =>
           \/ code_chan[u][codes[k].channel].dest = codes[k].dest
           \/ <<codes[k].channel, code_chan[u][codes[k].channel].dest>> \in proven[u]
    BY <1>2 DEF CodeSafe, CodeCurrent, CodeDoing
  <2> QED BY <1>1, <1>3, <1>5, <2>1 DEF CodeCurrent
<1>9. CodeCounted(u)'
  <2>1. \A k \in CodesOf(u) : guesses[k] <= MAX_CHECK_ATTEMPTS /\ guesses[k] <= codes[k].attempts
    BY <1>2 DEF CodeSafe, CodeCounted, CodeDoing
  <2>2. \A q \in Req : ~CodeDoing(u, q, {"bump"})'
    BY <1>2, <1>4 DEF CodeDoing
  <2> QED BY <1>1, <1>5, <2>1, <2>2 DEF CodeCounted
<1> QED BY <1>5, <1>6, <1>7, <1>8, <1>9 DEF CodeSafe

\* A step of u's own request, while it is the only one.
LEMMA CodeOwnStepSafe ==
  ASSUME Owned!LimitsAssumption, CodeTyped, CodeTyped', NEW u \in CodeUser, CodeSafe(u), CodeSolo(u), NEW r \in Req,
         req[r].user = u, Owned!step(r)
  PROVE  CodeSafe(u)'
<1>0. Owned!TypeOK
  BY DEF CodeTyped
<1>1. CodeAlone(u, r)
  BY CodeStepped DEF CodeAlone, CodeSolo, CodeOnlyMoves
<1>2. CASE Owned!issue_upsert(r)
  BY <1>1, <1>2, CodeUpsertSafe DEF Owned!issue_upsert, Owned!at
<1>3. CASE Owned!oauth_upsert(r)
  BY <1>1, <1>3, CodeUpsertSafe DEF Owned!oauth_upsert, Owned!at
<1>4. CASE Owned!read_stale(r) \/ Owned!create_verification_code(r)
  BY <1>1, <1>4, CodeReadStaleSafe, CodeCreateSafe
<1>5. CASE Owned!read_code(r) \/ Owned!record_code_attempt(r)
  BY <1>1, <1>5, CodeReadCodeSafe, CodeRecordAttemptSafe
<1>6. CASE Owned!consume_verification_code(r) \/ Owned!mark_channel_verified(r)
  BY <1>1, <1>6, CodeConsumeSafe, CodeMarkSafe
<1>7. ASSUME req[r].pc \in {"count_user", "lookup", "prefer"}, req'[r].pc \notin CodeLoaded,
             UNCHANGED <<code_chan, codes, proven, guesses>>
      PROVE  CodeSafe(u)'
  <2>1. ~CodeDoing(u, r, CodeLoaded) /\ ~CodeDoing(u, r, CodeLoaded)'
    BY <1>7 DEF CodeDoing, CodeLoaded
  <2>2. CodeOnlyMoves(r)
    BY <1>1 DEF CodeAlone, CodeOnlyMoves
  <2> QED BY <1>7, <2>1, <2>2, CodeQuiet, CodeSafeFramed
<1>8. ASSUME Owned!finish(r) PROVE req'[r].pc \notin CodeLoaded
  BY <1>0, <1>8, CodeFinished DEF CodeLoaded
<1>9. CASE Owned!count_user(r)
  <2>1. req[r].pc = "count_user" /\ UNCHANGED <<code_chan, codes, proven, guesses>>
        /\ (Owned!finish(r) \/ Owned!goto(r, "upsert"))
    BY <1>9 DEF Owned!count_user, Owned!at
  <2>2. "upsert" \in Owned!Pc /\ "upsert" \notin CodeLoaded
    BY DEF Owned!Pc, CodeLoaded
  <2>3. Owned!goto(r, "upsert") => req'[r].pc = "upsert"
    BY <1>0, <2>2, CodeMoved
  <2> QED BY <1>7, <1>8, <2>1, <2>2, <2>3
<1>10. CASE Owned!set_preferred_channel(r)
  BY <1>7, <1>8, <1>10 DEF Owned!set_preferred_channel, Owned!at
<1>11. CASE Owned!latest_verification_code(r)
  <2>1. req[r].pc = "lookup" /\ UNCHANGED <<code_chan, code_preferred, codes, raced>>
    BY <1>0, <1>11, CodeCompared
  <2>2. CASE Owned!finish(r) /\ UNCHANGED <<guesses, proven>>
    BY <1>7, <1>8, <2>1, <2>2
  <2>3. ASSUME NEW k \in Owned!Live(req[r].user, req[r].channel),
               req' = [req EXCEPT ![r].pc = "consume", ![r].code = k],
               proven' = [proven EXCEPT ![req[r].user] =
                                  @ \cup {<<codes[k].channel, codes[k].dest>>}],
               UNCHANGED guesses
        PROVE  CodeSafe(u)'
    BY <1>1, <2>1, <2>3, CodeRightCodeSafe
  <2>4. ASSUME NEW k \in Owned!Live(req[r].user, req[r].channel), codes[k].attempts < MAX_CHECK_ATTEMPTS,
               req' = [req EXCEPT ![r].pc = "wrong", ![r].code = k],
               guesses' = [guesses EXCEPT ![k] = @ + 1], UNCHANGED proven
        PROVE  CodeSafe(u)'
    BY <1>1, <2>1, <2>4, CodeWrongCodeSafe
  <2> QED BY <1>0, <1>11, <2>2, <2>3, <2>4, CodeCompared
<1> QED BY <1>2, <1>3, <1>4, <1>5, <1>6, <1>9, <1>10, <1>11 DEF Owned!step

\* A user has one request at a time until a second one begins.
LEMMA CodeSoloKept ==
  ASSUME NEW u \in CodeUser, CodeSolo(u), NEW r \in Req, CodeOnlyMoves(r),
         req'[r].pc # "idle" /\ req'[r].user = u =>
            \/ req[r].pc # "idle" /\ req[r].user = u
            \/ \A q \in Req : req[q].user # u
  PROVE  CodeSolo(u)'
BY DEF CodeSolo, CodeOnlyMoves

\* What raced stays raced.
LEMMA CodeRacedGrows == ASSUME [Owned!Next]_(Owned!vars) PROVE raced \subseteq raced'
<1>1. ASSUME NEW r \in Req, Owned!request(r) PROVE raced \subseteq raced'
  BY <1>1 DEF Owned!request, Owned!issue_code, Owned!check_code, Owned!discord_oauth_callback,
     Owned!begin
<1>2. ASSUME NEW r \in Req, Owned!step(r) PROVE raced \subseteq raced'
  BY <1>2 DEF Owned!step, Owned!count_user, Owned!issue_upsert, Owned!oauth_upsert,
     Owned!upsert_notification_channel,
     Owned!read_stale, Owned!create_verification_code, Owned!latest_verification_code, Owned!read_code,
     Owned!record_code_attempt, Owned!consume_verification_code, Owned!mark_channel_verified,
     Owned!set_preferred_channel
<1>3. ASSUME NEW r \in Req, Owned!die(r) PROVE raced \subseteq raced'
  BY <1>3 DEF Owned!die
<1> QED BY <1>1, <1>2, <1>3 DEF Owned!Next, Owned!expire, Owned!set_opt_out_by_destination,
      Owned!vars

\* Safety of a user is inductive as long as no two of its requests have overlapped.
LEMMA CodeSafeInductive ==
  ASSUME Owned!LimitsAssumption, CodeTyped, CodeTyped', [Owned!Next]_(Owned!vars), NEW u \in CodeUser, u \notin raced',
         u \notin raced => CodeSafe(u) /\ CodeSolo(u)
  PROVE  CodeSafe(u)' /\ CodeSolo(u)'
<1>0. Owned!TypeOK
  BY DEF CodeTyped
<1>a. raced \subseteq raced'
  BY CodeRacedGrows
<1>b. CodeSafe(u) /\ CodeSolo(u)
  BY <1>a
<1>c. ASSUME NEW r \in Req, NEW v \in CodeUser, NEW c \in CodeChannels, NEW d \in CodeDest \cup {NoDest},
             NEW k \in 0..MaxCodes, NEW pc \in {"count_user", "lookup", "oauth"},
             Owned!begin(r, v, c, d, k, pc)
      PROVE  /\ CodeSolo(u)' /\ CodeOnlyMoves(r) /\ ~CodeDoing(u, r, CodeLoaded)
             /\ pc # "oauth" \/ v # u => ~CodeDoing(u, r, CodeLoaded)'
  <2>1. pc \in Owned!Pc
    BY DEF Owned!Pc
  <2>2. /\ CodeOnlyMoves(r) /\ req[r].pc = "idle" /\ req'[r].pc = pc /\ req'[r].user = v
        /\ v \notin raced' => \A q \in Req : req[q].user # v
    BY <1>0, <1>c, <2>1, CodeBegun DEF CodeOnlyMoves
  <2>3. CodeSolo(u)'
    BY <1>b, <2>2, CodeSoloKept
  <2> QED BY <2>2, <2>3 DEF CodeDoing, CodeLoaded
<1>1. ASSUME NEW r \in Req, NEW v \in CodeUser, NEW c \in CodeChannels, NEW d \in CodeDest,
             Owned!issue_code(r, v, c, d)
      PROVE  CodeSafe(u)' /\ CodeSolo(u)'
  <2>1. Owned!begin(r, v, c, d, 0, "count_user") /\ UNCHANGED <<code_chan, codes, proven, guesses>>
        /\ 0 \in 0..MaxCodes
    BY <1>1 DEF Owned!issue_code, Owned!LimitsAssumption
  <2>2. CodeSolo(u)' /\ CodeOnlyMoves(r) /\ ~CodeDoing(u, r, CodeLoaded) /\ ~CodeDoing(u, r, CodeLoaded)'
    BY <1>c, <2>1
  <2> QED BY <1>b, <2>1, <2>2, CodeQuiet, CodeSafeFramed
<1>2. ASSUME NEW r \in Req, NEW v \in CodeUser, NEW c \in CodeChannels,
             NEW k \in {0} \cup {j \in DOMAIN codes : codes[j].user = v}, Owned!check_code(r, v, c, k)
      PROVE  CodeSafe(u)' /\ CodeSolo(u)'
  <2>1. Owned!begin(r, v, c, NoDest, k, "lookup") /\ UNCHANGED <<code_chan, codes, proven, guesses>>
    BY <1>2 DEF Owned!check_code
  <2>2. k \in 0..MaxCodes
    BY <1>0, CodeField DEF Owned!LimitsAssumption, Owned!CodeId
  <2>3. CodeSolo(u)' /\ CodeOnlyMoves(r) /\ ~CodeDoing(u, r, CodeLoaded) /\ ~CodeDoing(u, r, CodeLoaded)'
    BY <1>c, <2>1, <2>2
  <2> QED BY <1>b, <2>1, <2>3, CodeQuiet, CodeSafeFramed
<1>3. ASSUME NEW r \in Req, NEW v \in CodeUser, NEW d \in CodeDest, "discord" \in CodeChannels,
             Owned!discord_oauth_callback(r, v, d)
      PROVE  CodeSafe(u)' /\ CodeSolo(u)'
  <2>1. Owned!begin(r, v, "discord", d, 0, "oauth") /\ UNCHANGED <<code_chan, codes, guesses>>
        /\ proven' = [proven EXCEPT ![v] = @ \cup {<<"discord", d>>}]
        /\ 0 \in 0..MaxCodes
    BY <1>3 DEF Owned!discord_oauth_callback, Owned!LimitsAssumption
  <2>2. /\ CodeSolo(u)' /\ CodeOnlyMoves(r) /\ ~CodeDoing(u, r, CodeLoaded)
        /\ v # u => ~CodeDoing(u, r, CodeLoaded)'
    BY <1>3, <1>c, <2>1
  <2>3. CASE v = u
    BY <1>3, <1>b, <2>2, <2>3, CodeOAuthSafe
  <2>4. CASE v # u
    <3>1. proven'[u] = proven[u] /\ CodeKept
      BY <1>0, <2>1, <2>4 DEF Owned!TypeOK, CodeKept
    <3> QED BY <1>b, <2>1, <2>2, <2>4, <3>1, CodeElsewhere, CodeSafeFramed
  <2> QED BY <2>3, <2>4
<1>4. ASSUME NEW r \in Req, Owned!step(r) \/ Owned!die(r)
      PROVE  CodeSafe(u)' /\ CodeSolo(u)'
  <2>1. CodeSolo(u)'
    BY <1>b, <1>4, CodeStepped, CodeSoloKept
  <2>2. CASE req[r].user # u
    BY <1>b, <1>4, <2>1, <2>2, CodeOthersFrame, CodeSafeFramed
  <2>3. CASE req[r].user = u
    <3>1. Owned!step(r)
      BY <1>4, <2>3 DEF Owned!die
    <3> QED BY <1>b, <2>1, <2>3, <3>1, CodeOwnStepSafe
  <2> QED BY <2>2, <2>3
<1>5. ASSUME NEW k \in DOMAIN codes, Owned!expire(k)
      PROVE  CodeSafe(u)' /\ CodeSolo(u)'
  <2>1. UNCHANGED <<code_chan, req, proven, guesses>> /\ codes' = [codes EXCEPT ![k].live = FALSE]
    BY <1>5 DEF Owned!expire
  <2>2. /\ CodeKept /\ DOMAIN codes' = DOMAIN codes
        /\ \A j \in DOMAIN codes : j # k => codes'[j] = codes[j]
        /\ \A j \in DOMAIN codes : codes'[j].live => codes[j].live
        /\ codes'[k].attempts = codes[k].attempts
    BY <1>0, <2>1, CodeChanged
  <2>3. CodeFramed(u)
    BY <2>1, <2>2 DEF CodeFramed, CodeKept, CodesOf, CodeDoing
  <2> QED BY <1>b, <2>1, <2>3, CodeSafeFramed DEF CodeSolo
<1>6. ASSUME NEW c \in CodeChannels, NEW d \in CodeDest, NEW flag \in BOOLEAN,
             Owned!set_opt_out_by_destination(c, d, flag)
      PROVE  CodeSafe(u)' /\ CodeSolo(u)'
  <2>1. UNCHANGED <<codes, req, proven, guesses>> /\ code_chan' = Owned!OptedOut(code_chan, c, d, flag)
    BY <1>6 DEF Owned!set_opt_out_by_destination
  <2>2. code_chan \in [CodeUser -> [CodeChannels -> Owned!Reg]]
    BY <1>0 DEF Owned!TypeOK
  <2>3. \A e \in CodeChannels : code_chan'[u][e].dest = code_chan[u][e].dest
                            /\ code_chan'[u][e].verified = code_chan[u][e].verified
    BY <2>1, <2>2 DEF Owned!OptedOut, Owned!Reg
  <2>4. CodeFramed(u)
    BY <2>1, <2>3 DEF CodeFramed, CodesOf, CodeDoing
  <2> QED BY <1>b, <2>1, <2>4, CodeSafeFramed DEF CodeSolo
<1>7. CASE UNCHANGED Owned!vars
  <2>1. CodeFramed(u)
    BY <1>7 DEF Owned!vars, CodeFramed, CodesOf, CodeDoing
  <2> QED BY <1>7, <1>b, <2>1, CodeSafeFramed DEF Owned!vars, CodeSolo
<1> QED BY <1>1, <1>2, <1>3, <1>4, <1>5, <1>6, <1>7 DEF Owned!Next, Owned!request

-----------------------------------------------------------------------------
\* What holds of a destination two of whose registrations never overlapped.
CodeSent(d) == {k \in DOMAIN codes : codes[k].dest = d}

CodeSpared(d) ==
    /\ \A r, q \in Owned!Issuing(d) : r = q
    /\ Cardinality(CodeSent(d)) <= MAX_SENDS_PER_DESTINATION_PER_HOUR
    /\ Owned!Issuing(d) # {} => Cardinality(CodeSent(d)) < MAX_SENDS_PER_DESTINATION_PER_HOUR

\* The instance counts as FiniteSets does.
LEMMA CodeCardinality == \A S : Owned!Cardinality(S) = Cardinality(S)
BY DEF Owned!Cardinality, Cardinality

\* The codes sent to a destination can be counted.
LEMMA CodeSentFinite ==
  ASSUME Owned!LimitsAssumption, Owned!TypeOK, NEW d \in CodeDest
  PROVE  IsFiniteSet(CodeSent(d)) /\ Cardinality(CodeSent(d)) \in Nat
<1>1. DOMAIN codes = 1..Len(codes) /\ Len(codes) \in Nat
  BY DEF Owned!TypeOK
<1>2. IsFiniteSet(1..Len(codes))
  BY <1>1, FS_Interval
<1>3. CodeSent(d) \subseteq 1..Len(codes)
  BY <1>1 DEF CodeSent
<1> QED BY <1>2, <1>3, FS_Subset, FS_CardinalityType

\* The limit of a destination is kept by steps that send no code to it.
LEMMA CodeSparedKept ==
  ASSUME NEW d \in CodeDest, CodeSpared(d), Owned!Issuing(d)' \subseteq Owned!Issuing(d), CodeSent(d)' = CodeSent(d)
  PROVE  CodeSpared(d)'
BY DEF CodeSpared

\* A code that changes stays one for its destination.
LEMMA CodeSentChanged ==
  ASSUME CodeKept, DOMAIN codes' = DOMAIN codes, NEW d \in CodeDest
  PROVE  CodeSent(d)' = CodeSent(d)
BY DEF CodeKept, CodeSent

\* Only issue_code lets a request issue a code.
LEMMA CodeIssuingStep ==
  ASSUME Owned!LimitsAssumption, CodeTyped, NEW d \in CodeDest, NEW r \in Req, Owned!step(r) \/ Owned!die(r)
  PROVE  Owned!Issuing(d)' \subseteq Owned!Issuing(d)
<1> DEFINE places == {"count_user", "upsert", "read_stale", "create"}
<1>0. Owned!TypeOK
  BY DEF CodeTyped
<1>1. CodeOnlyMoves(r)
  BY CodeStepped
<1>2. ASSUME req'[r].pc \notin places PROVE Owned!Issuing(d)' \subseteq Owned!Issuing(d)
  BY <1>1, <1>2 DEF Owned!Issuing, CodeOnlyMoves
<1>3. ASSUME req[r].pc \in places, req'[r].dest = req[r].dest
      PROVE Owned!Issuing(d)' \subseteq Owned!Issuing(d)
  BY <1>1, <1>3 DEF Owned!Issuing, CodeOnlyMoves
<1>4. ASSUME Owned!finish(r) PROVE req'[r].pc \notin places
  BY <1>0, <1>4, CodeFinished
<1>5. ASSUME NEW pc \in {"upsert", "read_stale", "mark", "prefer"}, Owned!goto(r, pc)
      PROVE  req'[r].pc = pc /\ req'[r].dest = req[r].dest
  <2>1. pc \in Owned!Pc
    BY DEF Owned!Pc
  <2> QED BY <1>0, <1>5, <2>1, CodeMoved
<1>6. CASE Owned!count_user(r)
  BY <1>2, <1>3, <1>4, <1>5, <1>6 DEF Owned!count_user, Owned!at
<1>7. CASE Owned!issue_upsert(r)
  BY <1>3, <1>5, <1>7 DEF Owned!issue_upsert, Owned!upsert_notification_channel, Owned!at
<1>8. CASE Owned!read_stale(r)
  <2>1. req'[r].dest = req[r].dest /\ req[r].pc = "read_stale"
    BY <1>0, <1>8 DEF Owned!read_stale, Owned!at, Owned!TypeOK
  <2> QED BY <1>3, <2>1
<1>9. CASE Owned!create_verification_code(r) \/ Owned!record_code_attempt(r) \/ Owned!set_preferred_channel(r) \/ Owned!die(r)
  BY <1>2, <1>4, <1>9 DEF Owned!create_verification_code, Owned!record_code_attempt,
     Owned!set_preferred_channel, Owned!die
<1>10. CASE Owned!latest_verification_code(r)
  <2>1. CASE Owned!finish(r)
    BY <1>2, <1>4, <2>1
  <2>2. CASE ~Owned!finish(r)
    <3>1. PICK k \in Owned!Live(req[r].user, req[r].channel), pc \in {"consume", "wrong"} :
             req' = [req EXCEPT ![r].pc = pc, ![r].code = k]
      BY <1>0, <1>10, <2>2, CodeCompared
    <3>2. k \in Owned!CodeId
      BY <1>0, CodeField DEF Owned!Live
    <3>3. req'[r].pc = pc
      BY <1>0, <3>1, <3>2, CodeAtCode
    <3> QED BY <1>2, <3>3
  <2> QED BY <2>1, <2>2
<1>11. CASE Owned!read_code(r)
  <2>1. req'[r].pc = "bump"
    BY <1>0, <1>11 DEF Owned!read_code, Owned!TypeOK
  <2> QED BY <1>2, <2>1
<1>12. CASE Owned!consume_verification_code(r)
  BY <1>2, <1>5, <1>12 DEF Owned!consume_verification_code
<1>13. CASE Owned!mark_channel_verified(r)
  BY <1>2, <1>5, <1>13 DEF Owned!mark_channel_verified
<1>14. CASE Owned!oauth_upsert(r)
  BY <1>2, <1>5, <1>14 DEF Owned!oauth_upsert, Owned!upsert_notification_channel
<1> QED BY <1>6, <1>7, <1>8, <1>9, <1>10, <1>11, <1>12, <1>13, <1>14 DEF Owned!step

\* Only create_verification_code issues one, for the destination of its request.
LEMMA CodeSentStep ==
  ASSUME Owned!LimitsAssumption, CodeTyped, NEW d \in CodeDest, NEW r \in Req, Owned!step(r) \/ Owned!die(r),
         ~Owned!create_verification_code(r)
  PROVE  CodeSent(d)' = CodeSent(d)
<1>0. Owned!TypeOK /\ CodeFormed(r)
  BY DEF CodeTyped
<1>1. ASSUME UNCHANGED codes PROVE CodeSent(d)' = CodeSent(d)
  BY <1>1 DEF CodeSent
<1>2. CASE Owned!count_user(r) \/ Owned!issue_upsert(r) \/ Owned!oauth_upsert(r) \/ Owned!read_stale(r) \/ Owned!read_code(r)
           \/ Owned!mark_channel_verified(r) \/ Owned!set_preferred_channel(r) \/ Owned!die(r)
           \/ Owned!latest_verification_code(r)
  BY <1>1, <1>2 DEF Owned!count_user, Owned!issue_upsert, Owned!oauth_upsert,
     Owned!upsert_notification_channel,
     Owned!read_stale, Owned!read_code, Owned!mark_channel_verified, Owned!set_preferred_channel, Owned!die,
     Owned!latest_verification_code
<1>3. CASE Owned!record_code_attempt(r)
  <2>1. req[r].code \in DOMAIN codes /\ req[r].attempts \in Nat
    BY <1>0, <1>3 DEF Owned!record_code_attempt, Owned!at, CodeFormed, Owned!TypeOK
  <2>2. codes' = [codes EXCEPT ![req[r].code].attempts = req[r].attempts]
    BY <1>3 DEF Owned!record_code_attempt
  <2> QED BY <1>0, <2>1, <2>2, CodeChanged, CodeSentChanged
<1>4. CASE Owned!consume_verification_code(r)
  <2>1. req[r].code \in DOMAIN codes
    BY <1>0, <1>4 DEF Owned!consume_verification_code, Owned!at, CodeFormed
  <2>2. codes' = [codes EXCEPT ![req[r].code].live = FALSE]
    BY <1>4 DEF Owned!consume_verification_code
  <2> QED BY <1>0, <2>1, <2>2, CodeChanged, CodeSentChanged
<1> QED BY <1>2, <1>3, <1>4 DEF Owned!step

\* create_verification_code sends a code only to a destination below its limit.
LEMMA CodeCreateSpared ==
  ASSUME Owned!LimitsAssumption, CodeTyped, NEW d \in CodeDest, CodeSpared(d), NEW r \in Req,
         Owned!create_verification_code(r)
  PROVE  CodeSpared(d)'
<1> DEFINE n == Len(codes) + 1
<1>0. Owned!TypeOK /\ CodeFormed(r) /\ req[r].pc = "create" /\ Owned!finish(r) /\ Owned!step(r)
  BY DEF CodeTyped, Owned!create_verification_code, Owned!at, Owned!step
<1>1. /\ CodeKept /\ DOMAIN codes' = DOMAIN codes \cup {n} /\ n \notin DOMAIN codes
      /\ codes'[n].dest = req[r].dest
  <2>1. codes'[n] = [user |-> req[r].user, channel |-> req[r].channel,
                     dest |-> req[r].dest, live |-> TRUE, attempts |-> 0]
    BY <1>0, CodeAppended
  <2>2. codes'[n].dest = req[r].dest
    BY <2>1
  <2> QED BY <1>0, <2>2, CodeAppended
<1>2. Owned!Issuing(d)' \subseteq Owned!Issuing(d)
  BY <1>0, CodeIssuingStep
<1> HIDE DEF n
<1>3. CASE req[r].dest # d
  <2>1. CodeSent(d)' = CodeSent(d)
    BY <1>1, <1>3 DEF CodeSent, CodeKept
  <2> QED BY <1>2, <2>1, CodeSparedKept
<1>4. CASE req[r].dest = d
  <2>1. CodeSent(d)' = CodeSent(d) \cup {n} /\ n \notin CodeSent(d)
    BY <1>1, <1>4 DEF CodeSent, CodeKept
  <2>2. Cardinality(CodeSent(d)') = Cardinality(CodeSent(d)) + 1
    BY <1>0, <2>1, CodeSentFinite, FS_AddElement
  <2>3. r \in Owned!Issuing(d)
    BY <1>0, <1>4 DEF Owned!Issuing
  <2>4. r \notin Owned!Issuing(d)'
    BY <1>0, CodeFinished DEF Owned!Issuing
  <2>5. Owned!Issuing(d)' = {}
    BY <1>2, <2>3, <2>4 DEF CodeSpared
  <2>6. Cardinality(CodeSent(d)) < MAX_SENDS_PER_DESTINATION_PER_HOUR
    BY <2>3 DEF CodeSpared
  <2>7. Cardinality(CodeSent(d)') <= MAX_SENDS_PER_DESTINATION_PER_HOUR
    BY <1>0, <2>2, <2>6, CodeSentFinite DEF Owned!LimitsAssumption
  <2> QED BY <2>5, <2>7 DEF CodeSpared
<1> QED BY <1>3, <1>4

\* The limit of a destination is inductive as long as no two requests for it have overlapped.
LEMMA CodeSparedInductive ==
  ASSUME Owned!LimitsAssumption, CodeTyped, [Owned!Next]_(Owned!vars), NEW d \in CodeDest, d \notin raced',
         d \notin raced => CodeSpared(d)
  PROVE  CodeSpared(d)'
<1>0. Owned!TypeOK
  BY DEF CodeTyped
<1>a. CodeSpared(d)
  BY CodeRacedGrows
<1>b. ASSUME UNCHANGED codes PROVE CodeSent(d)' = CodeSent(d)
  BY <1>b DEF CodeSent
<1>1. ASSUME NEW r \in Req, NEW v \in CodeUser, NEW c \in CodeChannels, NEW e \in CodeDest,
             Owned!issue_code(r, v, c, e)
      PROVE  CodeSpared(d)'
  <2>1. Owned!begin(r, v, c, e, 0, "count_user") /\ UNCHANGED codes /\ 0 \in 0..MaxCodes
        /\ "count_user" \in Owned!Pc
        /\ Cardinality({k \in DOMAIN codes : codes[k].dest = e})
             < MAX_SENDS_PER_DESTINATION_PER_HOUR
    BY <1>1, CodeCardinality DEF Owned!issue_code, Owned!LimitsAssumption, Owned!Pc
  <2>2. /\ CodeOnlyMoves(r) /\ req[r].pc = "idle" /\ req'[r].dest = e
        /\ e \in CodeDest \ raced' => Owned!Issuing(e) = {}
    BY <1>0, <2>1, CodeBegun DEF CodeOnlyMoves
  <2>3. CASE e # d
    <3>1. Owned!Issuing(d)' \subseteq Owned!Issuing(d)
      BY <2>2, <2>3 DEF Owned!Issuing, CodeOnlyMoves
    <3> QED BY <1>a, <1>b, <2>1, <3>1, CodeSparedKept
  <2>4. CASE e = d
    <3>1. Owned!Issuing(d) = {}
      BY <2>2, <2>4
    <3>2. \A q \in Owned!Issuing(d)' : q = r
      BY <2>2, <3>1 DEF Owned!Issuing, CodeOnlyMoves
    <3>3. Cardinality(CodeSent(d)) < MAX_SENDS_PER_DESTINATION_PER_HOUR /\ CodeSent(d)' = CodeSent(d)
      BY <1>b, <2>1, <2>4 DEF CodeSent
    <3> QED BY <1>a, <3>2, <3>3 DEF CodeSpared
  <2> QED BY <2>3, <2>4
<1>2. ASSUME NEW r \in Req, NEW v \in CodeUser, NEW c \in CodeChannels, NEW e \in CodeDest \cup {NoDest},
             NEW k \in 0..MaxCodes, NEW pc \in {"lookup", "oauth"},
             Owned!begin(r, v, c, e, k, pc), UNCHANGED codes
      PROVE  CodeSpared(d)'
  <2>1. pc \in Owned!Pc
    BY DEF Owned!Pc
  <2>2. CodeOnlyMoves(r) /\ req'[r].pc = pc
    BY <1>0, <1>2, <2>1, CodeBegun DEF CodeOnlyMoves
  <2>3. Owned!Issuing(d)' \subseteq Owned!Issuing(d)
    BY <2>2 DEF Owned!Issuing, CodeOnlyMoves
  <2> QED BY <1>2, <1>a, <1>b, <2>3, CodeSparedKept
<1>3. ASSUME NEW r \in Req, NEW v \in CodeUser, NEW c \in CodeChannels,
             NEW k \in {0} \cup {j \in DOMAIN codes : codes[j].user = v}, Owned!check_code(r, v, c, k)
      PROVE  CodeSpared(d)'
  <2>1. k \in 0..MaxCodes
    BY <1>0, CodeField DEF Owned!LimitsAssumption, Owned!CodeId
  <2> QED BY <1>2, <1>3, <2>1 DEF Owned!check_code
<1>4. ASSUME NEW r \in Req, NEW v \in CodeUser, NEW e \in CodeDest, "discord" \in CodeChannels,
             Owned!discord_oauth_callback(r, v, e)
      PROVE  CodeSpared(d)'
  <2>1. 0 \in 0..MaxCodes
    BY DEF Owned!LimitsAssumption
  <2> QED BY <1>2, <1>4, <2>1 DEF Owned!discord_oauth_callback
<1>5. ASSUME NEW r \in Req, Owned!step(r) \/ Owned!die(r) PROVE CodeSpared(d)'
  BY <1>5, <1>a, CodeCreateSpared, CodeSentStep, CodeIssuingStep, CodeSparedKept
<1>6. ASSUME NEW k \in DOMAIN codes, Owned!expire(k) PROVE CodeSpared(d)'
  <2>1. UNCHANGED req /\ codes' = [codes EXCEPT ![k].live = FALSE]
    BY <1>6 DEF Owned!expire
  <2>2. CodeSent(d)' = CodeSent(d)
    BY <1>0, <2>1, CodeChanged, CodeSentChanged
  <2> QED BY <1>a, <2>1, <2>2, CodeSparedKept DEF Owned!Issuing
<1>7. CASE UNCHANGED <<codes, req>>
  BY <1>7, <1>a, <1>b, CodeSparedKept DEF Owned!Issuing
<1> QED BY <1>1, <1>3, <1>4, <1>5, <1>6, <1>7 DEF Owned!Next, Owned!request,
      Owned!set_opt_out_by_destination, Owned!vars

-----------------------------------------------------------------------------
CodeGuarded == /\ CodeTyped
               /\ \A u \in CodeUser : u \notin raced => CodeSafe(u) /\ CodeSolo(u)
               /\ \A d \in CodeDest : d \notin raced => CodeSpared(d)

\* CodeGuarded holds in every reachable state.
LEMMA CodeGuardedAlways == ASSUME Owned!LimitsAssumption PROVE Owned!Spec => []CodeGuarded
<1>1. Owned!Init => \A u \in CodeUser : CodeSafe(u) /\ CodeSolo(u)
  <2> SUFFICES ASSUME Owned!Init, NEW u \in CodeUser PROVE CodeSafe(u) /\ CodeSolo(u)
    OBVIOUS
  <2>1. \A r \in Req : req[r].pc = "idle"
    BY DEF Owned!Init, Owned!Idle
  <2>2. CodesOf(u) = {}
    BY DEF Owned!Init, CodesOf
  <2>3. \A r \in Req : ~CodeDoing(u, r, CodeLoaded)
    BY <2>1 DEF CodeDoing, CodeLoaded
  <2>4. CodeShown(u)
    BY DEF Owned!Init, CodeShown, Owned!Unregistered
  <2>5. CodeConfirmed(u) /\ CodeRegistered(u)
    BY <2>3 DEF CodeConfirmed, CodeRegistered, CodeDoing, CodeLoaded
  <2>6. CodeCurrent(u) /\ CodeSole(u)
    BY <2>2 DEF CodeCurrent, CodeSole
  <2>7. CodeCounted(u)
    BY <2>2, <2>3 DEF CodeCounted, CodeDoing, CodeLoaded
  <2> QED BY <2>1, <2>4, <2>5, <2>6, <2>7 DEF CodeSafe, CodeSolo
<1>2. Owned!Init => \A d \in CodeDest : CodeSpared(d)
  <2> SUFFICES ASSUME Owned!Init, NEW d \in CodeDest PROVE CodeSpared(d)
    OBVIOUS
  <2>1. Owned!Issuing(d) = {}
    BY DEF Owned!Init, Owned!Idle, Owned!Issuing
  <2>2. CodeSent(d) = {}
    BY DEF Owned!Init, CodeSent
  <2>3. Cardinality(CodeSent(d)) = 0
    BY <2>2, FS_EmptySet
  <2> QED BY <2>1, <2>3 DEF CodeSpared, Owned!LimitsAssumption
<1>3. Owned!Init => raced = {}
  BY DEF Owned!Init
<1>4. CodeTyped /\ CodeTyped' /\ CodeGuarded /\ [Owned!Next]_(Owned!vars) => CodeGuarded'
  <2> SUFFICES ASSUME CodeTyped, CodeTyped', CodeGuarded, [Owned!Next]_(Owned!vars) PROVE CodeGuarded'
    OBVIOUS
  <2>1. ASSUME NEW u \in CodeUser, u \notin raced' PROVE CodeSafe(u)' /\ CodeSolo(u)'
    BY <2>1, CodeSafeInductive DEF CodeGuarded
  <2>2. ASSUME NEW d \in CodeDest, d \notin raced' PROVE CodeSpared(d)'
    BY <2>2, CodeSparedInductive DEF CodeGuarded
  <2> QED BY <2>1, <2>2 DEF CodeGuarded
<1>5. Owned!Init /\ CodeTyped => CodeGuarded
  BY <1>1, <1>2 DEF CodeGuarded
<1> QED BY <1>4, <1>5, CodeTypes, PTL DEF Owned!Spec

\* A verified mark of a user without overlapping requests is for a destination whose
\* code the user gave back, or that a provider vouched for (check_code, the callback).
THEOREM CodeOwnership == ASSUME Owned!LimitsAssumption PROVE Owned!Spec => []Owned!OwnershipProven
<1>1. CodeGuarded => Owned!OwnershipProven
  BY DEF CodeGuarded, CodeSafe, CodeShown, Owned!OwnershipProven
<1> QED BY <1>1, CodeGuardedAlways, PTL

\* A code of such a user takes MAX_CHECK_ATTEMPTS guesses at most, one code per channel
\* is live, and a destination is sent no more codes than its limit (issue_code).
THEOREM CodeLimitsHold == ASSUME Owned!LimitsAssumption PROVE Owned!Spec => []Owned!CodeLimits
<1>1. ASSUME CodeGuarded PROVE Owned!GuessBudget
  <2>1. \A k \in DOMAIN codes : codes[k] \in Owned!Code
    BY <1>1 DEF CodeGuarded, CodeTyped, Owned!TypeOK
  <2> SUFFICES ASSUME NEW k \in DOMAIN codes, codes[k].user \notin raced
               PROVE  guesses[k] <= MAX_CHECK_ATTEMPTS
    BY DEF Owned!GuessBudget
  <2>2. codes[k].user \in CodeUser
    BY <2>1 DEF Owned!Code
  <2>3. CodeCounted(codes[k].user)
    BY <1>1, <2>2 DEF CodeGuarded, CodeSafe
  <2> QED BY <2>3 DEF CodeCounted, CodesOf
<1>2. ASSUME CodeGuarded PROVE Owned!OneLiveCode
  <2> SUFFICES ASSUME NEW u \in CodeUser, u \notin raced, NEW c \in CodeChannels
               PROVE  Cardinality(Owned!Live(u, c)) <= 1
    BY CodeCardinality DEF Owned!OneLiveCode
  <2>1. \A j, k \in Owned!Live(u, c) : j = k
    BY <1>2 DEF CodeGuarded, CodeSafe, CodeSole, Owned!Live, CodesOf
  <2>2. CASE Owned!Live(u, c) = {}
    BY <2>2, FS_EmptySet
  <2>3. CASE Owned!Live(u, c) # {}
    <3>1. PICK k \in Owned!Live(u, c) : TRUE
      BY <2>3
    <3>2. Owned!Live(u, c) = {k}
      BY <2>1, <3>1
    <3> QED BY <3>2, FS_Singleton, CodeCardinality
  <2> QED BY <2>2, <2>3
<1>3. ASSUME CodeGuarded PROVE Owned!DestinationLimited
  BY <1>3, CodeCardinality DEF CodeGuarded, CodeSpared, CodeSent, Owned!DestinationLimited
<1>4. CodeGuarded => Owned!CodeLimits
  BY <1>1, <1>2, <1>3 DEF Owned!CodeLimits
<1> QED BY <1>4, CodeGuardedAlways, PTL

-----------------------------------------------------------------------------
(***************************************************************************)
(* The components side by side                                             *)
(***************************************************************************)

\* Every behaviour of the run is one of the delivery and of the verification, up to steps
\* that change nothing of theirs.
LEMMA SumImplements == SumSpec => DSpec /\ Owned!Spec
<1>1. SumInit => DInit /\ Owned!Init
  BY DEF SumInit
<1>2. [SumNext]_all => [DNext]_allvars
  BY DEF SumNext, all, allvars, vars, dvars
<1>3. [SumNext]_all => [Owned!Next]_(Owned!vars)
  BY DEF SumNext, all, code_vars, Owned!vars
<1> QED BY <1>1, <1>2, <1>3, PTL DEF SumSpec, DSpec, Owned!Spec

\* A message only goes where its user proved to be reachable, whatever became of the
\* registration, the preference and the plan while it waited.
THEOREM OnlyVerifiedRun == ASSUME ChannelsAsInCode PROVE SumSpec => []QueuedWasVerified
BY SumImplements, OnlyVerified, PTL

\* A registration marked verified shows a destination whose own code its user entered, or
\* that Discord's OAuth handed over, in every order of the requests of other users and of
\* the user's own one after the other (issue_code, check_code, discord_oauth_callback).
THEOREM DestinationsOwned == SumSpec => []OwnershipProven
<1>1. Owned!OwnershipProven => OwnershipProven
  BY DEF OwnershipProven
<1> QED BY <1>1, SumImplements, CodeOwnership, PartsAssumption, PTL

\* Of such a user one code is live for each channel and none is guessed at more than
\* MAX_CHECK_ATTEMPTS times; and a destination receives at most
\* MAX_SENDS_PER_DESTINATION_PER_HOUR codes, whoever asks for them.
THEOREM CodesLimited == SumSpec => []CodeLimits
<1>1. Owned!CodeLimits => CodeLimits
  BY DEF CodeLimits
<1> QED BY <1>1, SumImplements, CodeLimitsHold, PartsAssumption, PTL
=============================================================================
