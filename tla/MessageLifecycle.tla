-------------------------- MODULE MessageLifecycle --------------------------
(***************************************************************************)
(* What the delivery queue promises of each message, whatever the number   *)
(* of ticks, retries and crashes: it is settled once, it is reported sent  *)
(* only if a provider took it, and a provider is never handed a message    *)
(* that was skipped or is already settled.                                 *)
(***************************************************************************)
CONSTANT Msg

VARIABLES
    status,  \* status[m]: the row's status, with "absent" and "gone"
    taken    \* the messages some provider has taken

mvars == <<status, taken>>

MInit ==
    /\ status = [m \in Msg |-> "absent"]
    /\ taken = {}

\* Messages appear queued or skipped, several at a time (one per device).
Submit(S) ==
    /\ \A m \in S : status[m] = "absent"
    /\ \E new \in [S -> {"queued", "skipped"}] :
          status' = [m \in Msg |-> IF m \in S THEN new[m] ELSE status[m]]
    /\ UNCHANGED taken

\* A provider takes the message.  A call may outlive the deletion of its row.
Take(m) ==
    /\ status[m] \in {"queued", "gone"}
    /\ taken' = taken \cup {m}
    /\ UNCHANGED status

Settle(m) ==
    /\ status[m] = "queued"
    /\ \/ status' = [status EXCEPT ![m] = "failed"]
       \/ m \in taken /\ status' = [status EXCEPT ![m] = "sent"]
    /\ UNCHANGED taken

\* A user's rows are deleted.
Delete(S) ==
    /\ status' = [m \in Msg |-> IF m \in S THEN "gone" ELSE status[m]]
    /\ UNCHANGED taken

MNext ==
    \/ \E S \in SUBSET Msg : Submit(S)
    \/ \E S \in SUBSET Msg : Delete(S)
    \/ \E m \in Msg : Take(m) \/ Settle(m)

MSpec == MInit /\ [][MNext]_mvars
=============================================================================
