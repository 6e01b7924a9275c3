---------------------------- MODULE Registration ----------------------------
(***************************************************************************)
(* The rows of notification_channels and the pure steps of Repo's methods  *)
(* on them.  A registration is the row of one user and one channel; dest = *)
(* NoDest stands for "no row".                                             *)
(***************************************************************************)
CONSTANTS
    User,
    CHANNELS,   \* "sms", "email", "discord": the channels a user may register
    Dest,
    NoDest

Reg == [dest: Dest \cup {NoDest}, verified: BOOLEAN, opted_out: BOOLEAN]

Unregistered == [dest |-> NoDest, verified |-> FALSE, opted_out |-> FALSE]

\* Mutant of Upserted: a new destination keeps the mark of the old one.
Upserted_keeps(reg, d) == [reg EXCEPT !.dest = d]

\* Repo.upsert_notification_channel: a changed destination resets both marks.
Upserted(reg, d) ==
    IF reg.dest = d THEN reg
    ELSE [dest |-> d, verified |-> FALSE, opted_out |-> FALSE]

\* Repo.mark_channel_verified, whatever destination the row has by now.
MarkedVerified(reg) ==
    IF reg.dest = NoDest THEN reg
    ELSE [reg EXCEPT !.verified = TRUE, !.opted_out = FALSE]

\* Mutant of Usable: without the verified mark.
Usable_unverified(reg) == reg.dest # NoDest /\ ~reg.opted_out

\* The channel condition of Repo.set_preferred_channel.
Usable(reg) == reg.dest # NoDest /\ reg.verified /\ ~reg.opted_out

\* Repo.set_opt_out_by_destination: every registration of the destination.
OptedOut(chan, c, d, flag) ==
    [u \in User |->
       [chan[u] EXCEPT ![c] =
          IF @.dest = d THEN [@ EXCEPT !.opted_out = flag] ELSE @]]
=============================================================================
