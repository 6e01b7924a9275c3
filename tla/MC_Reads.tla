-------------------------- MODULE MC_Reads --------------------------
\* What a browser reads while it waits: the stream of a deep dive and the snapshots of
\* the dashboard.  The two share no variable: a behaviour is of one of them, named by
\* part, and the other stays in its initial state.
EXTENDS DeepDiveEvents

CONSTANTS
    User, Shared, Worker, Web, Task, MaxUsers, None

VARIABLES
    part,        \* the component this behaviour is of
    backend, snaps, section, task, lock, pending, snap_late

Snap == INSTANCE SnapshotCache WITH
    late <- snap_late

ASSUME PartsAssumption ==
    /\ DiveAssumption /\ Snap!SnapshotAssumption

Parts == {"dive", "snap"}

snap_vars ==
    <<backend, snaps, section, task, lock, pending, snap_late>>

SumInit ==
    /\ part \in Parts
    /\ Init
    /\ Snap!Init
    /\ part # "snap" => backend = "process"

SumNext ==
    /\ UNCHANGED part
    /\ \/ /\ part = "dive" /\ Next
          /\ UNCHANGED snap_vars
       \/ /\ part = "snap" /\ Snap!Next
          /\ UNCHANGED vars

all == <<part, vars, snap_vars>>

SumSpec == SumInit /\ [][SumNext]_all

\* The fairness of each component, for the behaviours that are its own.
FairSumSpec ==
    /\ SumSpec
    /\ \A k \in Key : WF_vars(part = "dive" /\ pipeline(k))
    /\ \A c \in Client :
        WF_vars(part = "dive" /\ deep_dive_events(c)) /\ WF_vars(part = "dive" /\ read(c))
    /\ \A u \in User : WF_snap_vars(part = "snap" /\ Snap!lock_expires(u))
    /\ \A u \in User : SF_snap_vars(part = "snap" /\
           \E w \in Worker, t \in Task : Snap!serve_stale(u, w, t))
    /\ SF_snap_vars(part = "snap" /\
           \E t \in Task : Snap!take_lock(t) /\ task'[t] # Snap!Idle)
    /\ \A t \in Task :
        /\ WF_snap_vars(part = "snap" /\ Snap!step(t))
        /\ SF_snap_vars(part = "snap" /\ Snap!built(t))
        /\ SF_snap_vars(part = "snap" /\ Snap!put(t))

-----------------------------------------------------------------------------
(***************************************************************************)
(* Properties of the instance; those of DeepDiveEvents keep their names    *)
(***************************************************************************)

\* Two rebuilds of a section run at once only if one of them has outlived its lock.
OneRebuild == Snap!OneRebuild

\* An open dashboard does not stay behind the data for ever.
StaleHeals == part = "snap" => Snap!StaleHeals
=============================================================================
