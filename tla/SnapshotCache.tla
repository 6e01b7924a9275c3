---------------------------- MODULE SnapshotCache ----------------------------
(***************************************************************************)
(* The dashboard's snapshot store (app/perf/snapshot.py), with its two     *)
(* backends, the bootstrap endpoint and the warming job that fill it, and  *)
(* the writes that drop sections.  A user has one section, and of its data *)
(* only this is kept: was it read before or after the last write?          *)
(***************************************************************************)
EXTENDS Naturals, FiniteSets, SequencesExt

CONSTANTS
    User,
    Shared,       \* the users with Redis, whose keys have nothing to do with each other
    Worker,       \* web processes; with the in-process backend only Web is one
    Web,
    Task,         \* slots for builds under way: a bound on their number
    MaxUsers,     \* SnapshotStore(max_users)
    None

SnapshotAssumption == Shared \subseteq User /\ Web \in Worker /\ MaxUsers \in Nat \ {0}

VARIABLES
    backend,      \* configure(redis_url): "process" or "redis"
    snaps,        \* _snaps: users with a snapshot, least recently used first
    section,      \* the section: None, "fresh", or "old" (a write came after its read)
    task,         \* builds under way
    lock,         \* users whose snap:lock key exists
    pending,      \* users with a write that has not invalidated yet
    late          \* tasks that outlived their lock (history)

vars == <<backend, snaps, section, task, lock, pending, late>>

Data == {"fresh", "old"}
Idle == [at |-> "idle", user |-> None, worker |-> None, kind |-> None, data |-> None]
Building == [at : {"lock", "start", "built", "put"}, user : User, worker : Worker,
             kind : {"inline", "background"}, data : Data \cup {None}]

TypeOK ==
    /\ backend \in {"process", "redis"}
    /\ snaps \in Seq(User)
    /\ section \in [User -> Data \cup {None}]
    /\ task \in [Task -> Building \cup {Idle}]
    /\ {lock, pending} \subseteq SUBSET User
    /\ late \subseteq Task

Init ==
    /\ backend \in {"process", "redis"}
    /\ snaps = <<>> /\ section = [u \in User |-> None]
    /\ task = [t \in Task |-> Idle]
    /\ lock = {} /\ pending = {} /\ late = {}

Process == backend = "process"
Users == IF Process THEN User ELSE Shared
Workers == IF Process THEN {Web} ELSE Worker

to(t, where) == task' = [task EXCEPT ![t].at = where]
end(t) == task' = [task EXCEPT ![t] = Idle] /\ late' = late \ {t}
lockers(u) == {t \in Task : /\ task[t].user = u /\ task[t].kind = "background"
                            /\ task[t].at \in {"start", "built"}}
used(u) == IF Contains(snaps, u) THEN Append(Remove(snaps, u), u) ELSE snaps


-----------------------------------------------------------------------------
(***************************************************************************)
(* Reads                                                                   *)
(***************************************************************************)
\* dashboard_bootstrap, no section: it is built inline.
build_inline(u, w, t) ==
    /\ section[u] = None /\ w \in Workers /\ task[t] = Idle
    /\ task' = [task EXCEPT ![t] =
           [at |-> "start", user |-> u, worker |-> w, kind |-> "inline", data |-> None]]
    /\ snaps' = used(u)
    /\ UNCHANGED <<backend, section, lock, pending, late>>

\* Mutant of inflight: each caller starts a rebuild.
inflight_none(u, w) == FALSE

inflight(u, w) == \E t \in Task :
    task[t].user = u /\ task[t].worker = w /\ task[t].kind = "background"

\* SnapshotStore.refresh and RedisSnapshotStore.refresh.
refresh(u, w, t) ==
    /\ w \in Workers /\ task[t] = Idle /\ ~inflight(u, w)
    /\ task' = [task EXCEPT ![t] =
           [at |-> IF Process THEN "start" ELSE "lock", user |-> u, worker |-> w,
            kind |-> "background", data |-> None]]
    /\ UNCHANGED <<backend, section, lock, pending, late>>

\* dashboard_bootstrap, a section past its TTL: served, and rebuilt in background.
serve_stale(u, w, t) ==
    /\ section[u] # None /\ snaps' = used(u)
    /\ refresh(u, w, t)

\* _run_quote_warm, for the users active in the last half hour: any of them may be.
warm(u, w, t) == refresh(u, w, t) /\ UNCHANGED snaps

-----------------------------------------------------------------------------
(***************************************************************************)
(* Builds                                                                  *)
(***************************************************************************)

\* SET NX EX 60: "first worker in wins, the rest skip", as they do if Redis is down.
take_lock(t) ==
    /\ task[t].at = "lock"
    /\ \/ /\ task[t].user \notin lock
          /\ lock' = lock \cup {task[t].user} /\ to(t, "start") /\ UNCHANGED late
       \/ end(t) /\ UNCHANGED lock
    /\ UNCHANGED <<backend, snaps, section, pending>>

\* _build_section reads the database; its quotes take longer.
build(t) ==
    /\ task[t].at = "start"
    /\ task' = [task EXCEPT ![t].at = "built", ![t].data = "fresh"]
    /\ UNCHANGED <<backend, snaps, section, lock, pending, late>>

\* A task that has outlived its lock takes the lock of the next one away.
unlock(t) ==
    LET locked == ~Process /\ task[t].kind = "background" IN
    /\ lock' = IF locked THEN lock \ {task[t].user} ELSE lock
    /\ late' = IF locked /\ t \in late THEN (late \cup lockers(task[t].user)) \ {t} ELSE late \ {t}

\* The builder returns; the finally of _rebuild drops the lock, whosever it is now.
built(t) ==
    /\ task[t].at = "built" /\ to(t, "put") /\ unlock(t)
    /\ UNCHANGED <<backend, snaps, section, pending>>

\* The builder raises, here or as well before its read:
\* "A failed rebuild keeps the previous (stale) copy"; an inline one answers an error.
build_fails(t) ==
    /\ task[t].at = "built" /\ unlock(t)
    /\ task' = [task EXCEPT ![t] = Idle]
    /\ UNCHANGED <<backend, snaps, section, pending>>

\* Mutant of put: a section that is there is kept.
put_once(t) ==
    LET u == task[t].user IN
    /\ task[t].at = "put" /\ end(t)
    /\ section' = [section EXCEPT ![u] = IF @ = None THEN task[t].data ELSE @]
    /\ UNCHANGED <<backend, snaps, lock, pending>>

\* SnapshotStore.put evicts the least recently used users, and forgets their touch.
put(t) ==
    LET u       == task[t].user
        recent  == Append(Remove(snaps, u), u)
        evicted == IF Process /\ Len(recent) > MaxUsers
                     THEN Range(SubSeq(recent, 1, Len(recent) - MaxUsers)) ELSE {}
    IN  /\ task[t].at = "put" /\ end(t)
        /\ section' = [v \in User |-> IF v = u THEN task[t].data
                                     ELSE IF v \in evicted THEN None ELSE section[v]]
        /\ snaps' = IF Process THEN SelectSeq(recent, LAMBDA v : v \notin evicted) ELSE snaps
        /\ UNCHANGED <<backend, lock, pending>>

\* RedisSnapshotStore.put fails, or a clear comes between its GET snap:ver and SET.
put_lost(t) ==
    /\ ~Process /\ task[t].at = "put" /\ end(t)
    /\ UNCHANGED <<backend, snaps, section, lock, pending>>

-----------------------------------------------------------------------------
(***************************************************************************)
(* Writes                                                                  *)
(***************************************************************************)

\* A handler writes what the section shows: what was read before is old.
write(u) ==
    /\ u \notin pending /\ pending' = pending \cup {u}
    /\ section' = [section EXCEPT ![u] = IF @ = None THEN None ELSE "old"]
    /\ task' = [t \in Task |->
           IF task[t].user = u /\ task[t].data # None
             THEN [task[t] EXCEPT !.data = "old"] ELSE task[t]]
    /\ UNCHANGED <<backend, snaps, lock, late>>

\* The handler's end: the snapshot stays, without the section.
invalidate(u) ==
    /\ u \in pending /\ pending' = pending \ {u}
    /\ section' = [section EXCEPT ![u] = None]
    /\ UNCHANGED <<backend, snaps, task, lock, late>>

\* The handler raised after its write, or Redis did not take the DELETE.
invalidate_lost(u) ==
    /\ u \in pending /\ pending' = pending \ {u}
    /\ UNCHANGED <<backend, snaps, section, task, lock, late>>

\* clear(), after jobs that rewrite the data of all: Redis only bumps snap:ver.
clear ==
    /\ section' = [u \in User |-> None]
    /\ snaps' = <<>>
    /\ UNCHANGED <<backend, task, lock, pending, late>>

-----------------------------------------------------------------------------
(***************************************************************************)
(* Faults                                                                  *)
(***************************************************************************)

\* _LOCK_EXPIRE_SECONDS pass; a worker that died held it, or a build is slow.
lock_expires(u) ==
    /\ u \in lock /\ lock' = lock \ {u}
    /\ late' = late \cup lockers(u)
    /\ UNCHANGED <<backend, snaps, section, task, pending>>

\* A worker stops: its builds are gone, and with the in-process backend the store;
\* its handlers may have been between a write and its invalidation.
restart(w) ==
    /\ w \in Workers
    /\ task' = [t \in Task |-> IF task[t].worker = w THEN Idle ELSE task[t]]
    /\ late' = {t \in late : task[t].worker # w}
    /\ \E lost \in SUBSET pending :
           /\ Process => lost = pending
           /\ pending' = pending \ lost
           /\ IF Process
                THEN snaps' = <<>> /\ section' = [u \in User |-> None]
                ELSE UNCHANGED <<snaps, section>>
    /\ UNCHANGED <<backend, lock>>

served(u, w, t) == build_inline(u, w, t) \/ serve_stale(u, w, t) \/ warm(u, w, t)
step(t) == take_lock(t) \/ build(t) \/ built(t) \/ build_fails(t) \/ put(t) \/ put_lost(t)

Next ==
    \/ \E u \in Users, w \in Worker, t \in Task : served(u, w, t)
    \/ \E t \in Task : step(t)
    \/ \E u \in Users : write(u) \/ invalidate(u) \/ invalidate_lost(u) \/ lock_expires(u)
    \/ clear \/ \E w \in Worker : restart(w)

Spec == Init /\ [][Next]_vars

\* An open dashboard loads its sections again; a lock expires; builds come to their
\* end, and one that is tried again and again reads, is kept and lands.
FairSpec ==
    /\ Spec
    /\ \A u \in User : WF_vars(lock_expires(u))
    /\ \A u \in User : SF_vars(\E w \in Worker, t \in Task : serve_stale(u, w, t))
    /\ SF_vars(\E t \in Task : take_lock(t) /\ task'[t] # Idle)
    /\ \A t \in Task : WF_vars(step(t)) /\ SF_vars(built(t)) /\ SF_vars(put(t))

-----------------------------------------------------------------------------
(***************************************************************************)
(* Properties                                                              *)
(***************************************************************************)

\* "Single-flight per (user, section)": two rebuilds of a section run at once only
\* if one of them has outlived its lock.
OneRebuild ==
    \A u \in User : \A t, s \in lockers(u) \ late : t = s

\* "Serve stale, refresh in background": an open dashboard does not stay behind the
\* data for ever, whatever was lost or raced, once its user stops writing and the
\* workers stay up.
StaleHeals ==
    \A u \in User : <>[](u \notin pending) /\ <>[][\A w \in Worker : ~restart(w)]_vars
                      => <>[](section[u] # "old")
=============================================================================
