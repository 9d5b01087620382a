--------------------------- MODULE SchedulerLock ---------------------------
(***************************************************************************)
(* The lock in the database that picks the one process that runs the       *)
(* background jobs (app/services/scheduler_lock.py, app/main.py).          *)
(*                                                                         *)
(* A process tries to take the lock once, at startup.  If it gets it, it   *)
(* runs a scheduler whose heartbeat job pushes the expiry of the lock; at  *)
(* shutdown it releases the lock.  Each of these operations reads the row, *)
(* outside any transaction since SELECT ... FOR UPDATE locks nothing on    *)
(* SQLite, and then writes it by its id.  The table holds one row, and     *)
(* SQLite gives its id to the next row once it is deleted: a stale write   *)
(* hits whatever row is there.                                             *)
(***************************************************************************)
EXTENDS Integers, FiniteSets

CONSTANTS
  Processes,    \* owner names, "<hostname>-<pid>"; a restart may reuse one
  NoProcess,    \* owner of the lock when the table is empty
  TTL,          \* lifetime of the lock, in minutes
  Beat,         \* period of the heartbeat job
  MaxTime,      \* bound on the clock
  Overlap,      \* whether processes may start at the same time
  Timely        \* whether jobs run on time and statements take no time

ASSUME SchedulerAssumption ==
  /\ NoProcess \notin Processes
  /\ TTL \in Nat /\ Beat \in Nat /\ Beat < TTL
  /\ MaxTime \in Nat
  /\ Overlap \in BOOLEAN /\ Timely \in BOOLEAN

VARIABLES
  now,          \* the clock, which all processes share
  lock,         \* the row of scheduler_locks: its owner and its expiry
  at,           \* where each process stands
  clock,        \* the time each process read when its operation began
  saw,          \* the row it read, and will act on
  stray         \* the time of a heartbeat that outlives its scheduler

vars == <<now, lock, at, clock, saw, stray>>

\* "failed": the startup raised; "standby": it serves without a scheduler.
Stages ==
  {"off", "failed", "acquiring", "standby", "active", "beating", "releasing"}

Row == [owner : Processes \cup {NoProcess}, expires : Nat]
NoRow == [owner |-> NoProcess, expires |-> 0]
Exists(row) == row.owner # NoProcess

TypeOK ==
  /\ now \in Nat
  /\ lock \in Row
  /\ at \in [Processes -> Stages]
  /\ clock \in [Processes -> Nat]
  /\ saw \in [Processes -> Row]
  /\ stray \in [Processes -> SUBSET Nat]

Init ==
  /\ now = 0
  /\ lock = NoRow
  /\ at = [p \in Processes |-> "off"]
  /\ clock = [p \in Processes |-> 0]
  /\ saw = [p \in Processes |-> NoRow]
  /\ stray = [p \in Processes |-> {}]

\* The processes that run the background jobs.
Schedulers == {p \in Processes : at[p] \in {"active", "beating"}}

-----------------------------------------------------------------------------
Goto(p, stage) == at' = [at EXCEPT ![p] = stage]

\* Every operation begins with the time and the row.
Look(p, stage) ==
  /\ Goto(p, stage)
  /\ clock' = [clock EXCEPT ![p] = now]
  /\ saw' = [saw EXCEPT ![p] = lock]
  /\ UNCHANGED <<now, lock>>

StartUp(p) ==
  /\ at[p] \in {"off", "failed"} /\ stray[p] = {}
  /\ ~Overlap => \A q \in Processes : at[q] # "acquiring"
  /\ Look(p, "acquiring")
  /\ UNCHANGED stray

\* Plausible bug: the lifetime is taken off the clock.
InsertExpired(p) ==
  /\ at[p] = "acquiring" /\ ~Exists(saw[p])
  /\ lock' = [owner |-> p, expires |-> clock[p] - TTL]
  /\ Goto(p, "active")
  /\ UNCHANGED <<now, clock, saw, stray>>

\* No row: insert one.  If the unique name is taken by then, the handler names
\* IntegrityError, which the module does not import: the startup fails.
Insert(p) ==
  /\ at[p] = "acquiring" /\ ~Exists(saw[p])
  /\ IF Exists(lock)
     THEN Goto(p, "failed") /\ UNCHANGED lock
     ELSE /\ lock' = [owner |-> p, expires |-> clock[p] + TTL]
          /\ Goto(p, "active")
  /\ UNCHANGED <<now, clock, saw, stray>>

\* Plausible bug: an expired row is inserted anew.
InsertOverExpired(p) ==
  /\ at[p] = "acquiring" /\ Exists(saw[p]) /\ saw[p].expires <= clock[p]
  /\ Goto(p, "failed")
  /\ UNCHANGED <<now, lock, clock, saw, stray>>

\* The row it read has expired: take it over.  The UPDATE leaves out an owner
\* that does not change, and raises StaleDataError if it finds no row.
TakeOver(p) ==
  /\ at[p] = "acquiring" /\ Exists(saw[p]) /\ saw[p].expires <= clock[p]
  /\ IF Exists(lock)
     THEN /\ lock' = [owner |-> IF saw[p].owner = p THEN lock.owner ELSE p,
                      expires |-> clock[p] + TTL]
          /\ Goto(p, "active")
     ELSE Goto(p, "failed") /\ UNCHANGED lock
  /\ UNCHANGED <<now, clock, saw, stray>>

\* The row it read is its own, from a life before a crash: keep it.
TakeBack(p) ==
  /\ at[p] = "acquiring" /\ saw[p].owner = p /\ saw[p].expires > clock[p]
  /\ IF Exists(lock)
     THEN lock' = [lock EXCEPT !.expires = clock[p] + TTL] /\ Goto(p, "active")
     ELSE Goto(p, "failed") /\ UNCHANGED lock
  /\ UNCHANGED <<now, clock, saw, stray>>

\* The row it read is alive and belongs to another.
StandBy(p) ==
  /\ at[p] = "acquiring" /\ Exists(saw[p])
  /\ saw[p].expires > clock[p] /\ saw[p].owner # p
  /\ Goto(p, "standby")
  /\ UNCHANGED <<now, lock, clock, saw, stray>>

(***************************************************************************)
(* The heartbeat job.  It goes on when the lock was lost, without a word   *)
(* to the scheduler.                                                       *)
(***************************************************************************)
BeginBeat(p) ==
  /\ at[p] = "active"
  /\ Look(p, "beating")
  /\ UNCHANGED stray

\* Plausible bug: the heartbeat forgets the new expiry.
BeatInVain(p) ==
  /\ at[p] = "beating"
  /\ Goto(p, "active")
  /\ UNCHANGED <<now, lock, clock, saw, stray>>

EndBeat(p) ==
  /\ at[p] = "beating"
  /\ lock' = IF saw[p].owner = p /\ Exists(lock)
             THEN [lock EXCEPT !.expires = clock[p] + TTL] ELSE lock
  /\ Goto(p, "active")
  /\ UNCHANGED <<now, clock, saw, stray>>

\* The shutdown stops the scheduler without waiting for its jobs, then deletes
\* the row if it is its own.
ShutDown(p) ==
  /\ at[p] \in {"active", "beating"}
  /\ Look(p, "releasing")
  /\ stray' = [stray EXCEPT ![p] =
       IF at[p] = "beating" /\ saw[p].owner = p THEN {clock[p]} ELSE {}]

Release(p) ==
  /\ at[p] = "releasing"
  /\ lock' = IF saw[p].owner = p THEN NoRow ELSE lock
  /\ Goto(p, "off")
  /\ UNCHANGED <<now, clock, saw, stray>>

\* A heartbeat that was under way at the shutdown: if the row has been deleted
\* the job fails, if there is a new one it is the row of the next holder.
EndStray(p) ==
  \E t \in stray[p] :
    /\ lock' = IF Exists(lock) THEN [lock EXCEPT !.expires = t + TTL] ELSE lock
    /\ stray' = [stray EXCEPT ![p] = {}]
    /\ UNCHANGED <<now, at, clock, saw>>

\* A process is killed, or one without the lock stops: the row stays.
Die(p) ==
  /\ at[p] \notin {"off", "failed"} \/ stray[p] # {}
  /\ Goto(p, "off")
  /\ stray' = [stray EXCEPT ![p] = {}]
  /\ UNCHANGED <<now, lock, clock, saw>>

\* A scheduler on time has beaten in the last period, and no operation is
\* half-way.
OnTime(p) ==
  /\ at[p] \notin {"acquiring", "beating", "releasing"}
  /\ at[p] = "active" => now < clock[p] + Beat
  /\ stray[p] = {}

Tick ==
  /\ now < MaxTime
  /\ Timely => \A p \in Processes : OnTime(p)
  /\ now' = now + 1
  /\ UNCHANGED <<lock, at, clock, saw, stray>>

-----------------------------------------------------------------------------
Step(p) ==
  \/ StartUp(p) \/ Insert(p) \/ TakeOver(p) \/ TakeBack(p) \/ StandBy(p)
  \/ BeginBeat(p) \/ EndBeat(p) \/ EndStray(p) \/ ShutDown(p) \/ Release(p)
  \/ Die(p)

Next == Tick \/ \E p \in Processes : Step(p)

Spec == Init /\ [][Next]_vars

-----------------------------------------------------------------------------
\* "only one scheduler runs" (scheduler_lock.py): it holds when jobs run on
\* time and processes do not start at the same time.
OnlyOneScheduler ==
  \A p, q \in Schedulers : p = q

\* A running scheduler owns a lock that has not expired, so that nobody can
\* take it over, across crashes, restarts and heartbeats.
SchedulerOwnsLock ==
  \A p \in Schedulers : lock.owner = p /\ lock.expires > now

\* A process starts, with or without the scheduler: no startup fails on a row
\* that appeared or vanished since it was read.
NoStartupFails == \A p \in Processes : at[p] # "failed"
=============================================================================
