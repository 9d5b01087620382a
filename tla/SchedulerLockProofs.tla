------------------------ MODULE SchedulerLockProofs ------------------------
(***************************************************************************)
(* Why one scheduler runs at a time, for any number of processes and any   *)
(* lifetime of the lock that exceeds the period of the heartbeat, provided *)
(* that jobs run on time and that startups do not overlap.                 *)
(***************************************************************************)
EXTENDS SchedulerLock, TLAPS

\* Processes that hold the lock: they run the scheduler, or are about to
\* delete the row.
Holds(p) == at[p] \in {"active", "beating", "releasing"}

\* The lock of a holder is its own and alive, and will outlast its next beat.
HolderInv(p) ==
  /\ Holds(p) => lock.owner = p /\ lock.expires > now
  /\ at[p] = "active" => /\ clock[p] <= now
                         /\ clock[p] + TTL <= lock.expires
                         /\ now <= clock[p] + Beat
  /\ at[p] \in {"beating", "releasing"} => clock[p] = now /\ saw[p].owner = p

\* What a starting process read is still there, unless it is the live lock of
\* another process, whose heartbeat or release may have changed it, or its own
\* of an earlier life, which a stray heartbeat has prolonged.
StarterInv(p) ==
  at[p] = "acquiring" =>
    /\ clock[p] = now
    /\ \/ saw[p] = lock
       \/ Exists(saw[p]) /\ saw[p].owner # p /\ saw[p].expires > now
       \/ saw[p].owner = p /\ lock.owner = p /\ saw[p].expires > now /\ lock.expires > now
    /\ \A q \in Processes : at[q] = "acquiring" => q = p

\* A heartbeat strays at the time it began, when the lock was alive: what has
\* been written since then is as young.
StrayInv(p) ==
  stray[p] # {} => stray[p] = {now} /\ (Exists(lock) => lock.expires > now)

Inv ==
  /\ TypeOK
  /\ \A p \in Processes : HolderInv(p) /\ StarterInv(p) /\ StrayInv(p) /\ at[p] # "failed"

\* The deployment the property is about: a heartbeat on time, no two startups
\* at once.
Disciplined == Timely /\ ~Overlap

-----------------------------------------------------------------------------
LEMMA InitInv == Init => Inv
  BY SchedulerAssumption
  DEF Init, Inv, TypeOK, Row, NoRow, Stages, HolderInv, StarterInv, StrayInv, Holds

\* Each step keeps the types.
LEMMA TypeStep == TypeOK /\ [Next]_vars => TypeOK'
<1> SUFFICES ASSUME TypeOK, [Next]_vars PROVE TypeOK'
  OBVIOUS
<1> USE SchedulerAssumption DEF TypeOK, Row, NoRow, Stages, Goto
<1>1. CASE Tick
  BY <1>1 DEF Tick
<1>2. ASSUME NEW p \in Processes, Step(p) PROVE TypeOK'
  <2>1. CASE StartUp(p) \/ BeginBeat(p) \/ ShutDown(p)
    BY <2>1 DEF StartUp, BeginBeat, ShutDown, Look
  <2>2. CASE Insert(p)
    BY <2>2 DEF Insert
  <2>3. CASE TakeOver(p)
    BY <2>3 DEF TakeOver
  <2>4. CASE TakeBack(p)
    BY <2>4 DEF TakeBack
  <2>5. CASE StandBy(p) \/ Die(p)
    BY <2>5 DEF StandBy, Die
  <2>6. CASE EndBeat(p)
    BY <2>6 DEF EndBeat
  <2>7. CASE Release(p)
    BY <2>7 DEF Release
  <2>8. CASE EndStray(p)
    <3>1. PICK t \in stray[p] :
            /\ lock' = IF Exists(lock) THEN [lock EXCEPT !.expires = t + TTL] ELSE lock
            /\ stray' = [stray EXCEPT ![p] = {}]
            /\ UNCHANGED <<now, at, clock, saw>>
      BY <2>8 DEF EndStray
    <3> QED
      BY <3>1
  <2> QED
    BY <1>2, <2>1, <2>2, <2>3, <2>4, <2>5, <2>6, <2>7, <2>8 DEF Step
<1>3. CASE UNCHANGED vars
  BY <1>3 DEF vars
<1> QED
  BY <1>1, <1>2, <1>3 DEF Next

\* Two holders are one: the row names one owner.
LEMMA OneHolder ==
  ASSUME Inv, NEW p \in Processes, NEW q \in Processes, Holds(p), Holds(q)
  PROVE p = q
  BY DEF Inv, HolderInv

\* Time passes.
LEMMA TickStep == Disciplined /\ Inv /\ TypeOK' /\ Tick => Inv'
<1> SUFFICES ASSUME Disciplined, Inv, TypeOK', Tick, NEW p \in Processes
             PROVE HolderInv(p)' /\ StarterInv(p)' /\ StrayInv(p)' /\ (at[p] # "failed")'
  BY DEF Inv
<1> USE SchedulerAssumption DEF TypeOK, Row
<1>1. UNCHANGED <<lock, at, clock, saw, stray>> /\ now' = now + 1 /\ OnTime(p)
  BY DEF Tick, Disciplined
<1>2. at[p] \notin {"acquiring", "beating", "releasing"}
  BY <1>1 DEF OnTime
<1>3. HolderInv(p)'
  <2>1. CASE at[p] = "active"
    <3>1. clock[p] + TTL <= lock.expires /\ lock.owner = p /\ now < clock[p] + Beat
      BY <1>1, <2>1 DEF Inv, HolderInv, Holds, OnTime
    <3>2. now \in Nat /\ clock[p] \in Nat /\ lock.expires \in Nat
      BY DEF Inv
    <3>3. clock[p] <= now
      BY <2>1 DEF Inv, HolderInv
    <3>4. now + 1 <= clock[p] + Beat /\ now + 1 < lock.expires /\ clock[p] <= now + 1
      BY <3>1, <3>2, <3>3
    <3> QED
      BY <1>1, <2>1, <3>1, <3>4 DEF HolderInv, Holds
  <2>2. CASE at[p] # "active"
    BY <1>1, <1>2, <2>2 DEF HolderInv, Holds
  <2> QED
    BY <2>1, <2>2
<1>4. StarterInv(p)' /\ StrayInv(p)' /\ (at[p] # "failed")'
  BY <1>1, <1>2 DEF StarterInv, StrayInv, OnTime, Inv
<1> QED
  BY <1>3, <1>4

\* Process p moves: whoever writes the lock does so at the present time.
LEMMA StraysStayYoung ==
  ASSUME Disciplined, Inv, TypeOK', NEW p \in Processes, Step(p), ~EndStray(p),
         NEW q \in Processes
  PROVE StrayInv(q)'
<1> USE SchedulerAssumption DEF TypeOK, Row, Goto
<1>1. now' = now /\ now \in Nat /\ lock \in Row /\ clock[p] \in Nat /\ saw[p] \in Row
      /\ stray \in [Processes -> SUBSET Nat]
  BY DEF Inv, Step, StartUp, Insert, TakeOver, TakeBack, StandBy, BeginBeat, EndBeat,
         ShutDown, Release, Die, Look
<1>2. HolderInv(p) /\ StarterInv(p) /\ StrayInv(p) /\ StrayInv(q)
  BY DEF Inv
\* No heartbeat becomes stray, and the lock is as it was or new.
<1>3. ASSUME stray'[q] \in {{}, stray[q]},
             \/ UNCHANGED lock
             \/ ~Exists(lock')
             \/ lock'.expires = now + TTL
      PROVE StrayInv(q)'
  BY <1>1, <1>2, <1>3 DEF StrayInv, Exists
<1>4. CASE StartUp(p) \/ BeginBeat(p) \/ StandBy(p)
  BY <1>3, <1>4 DEF StartUp, BeginBeat, StandBy, Look
<1>5. CASE Die(p)
  BY <1>1, <1>3, <1>5 DEF Die
<1>6. CASE Insert(p) \/ TakeOver(p) \/ TakeBack(p)
  <2>1. clock[p] = now
    BY <1>2, <1>6 DEF Insert, TakeOver, TakeBack, StarterInv
  <2>2. UNCHANGED stray /\ (UNCHANGED lock \/ lock'.expires = clock[p] + TTL)
    BY <1>1, <1>6 DEF Insert, TakeOver, TakeBack
  <2> QED
    BY <1>3, <2>1, <2>2
<1>7. CASE EndBeat(p)
  <2>1. clock[p] = now
    BY <1>2, <1>7 DEF EndBeat, HolderInv
  <2>2. UNCHANGED stray /\ (UNCHANGED lock \/ lock'.expires = clock[p] + TTL)
    BY <1>1, <1>7 DEF EndBeat
  <2> QED
    BY <1>3, <2>1, <2>2
<1>8. CASE Release(p)
  <2>1. UNCHANGED stray /\ (UNCHANGED lock \/ ~Exists(lock'))
    BY <1>8 DEF Release, Exists, NoRow
  <2> QED
    BY <1>3, <2>1
<1>9. CASE ShutDown(p)
  <2>1. UNCHANGED lock /\ lock.expires > now /\ (at[p] = "beating" => clock[p] = now)
    BY <1>2, <1>9 DEF ShutDown, Look, HolderInv, Holds
  <2>2. stray'[q] \in {{}, stray[q], {now}}
    BY <1>1, <1>9, <2>1 DEF ShutDown
  <2> QED
    BY <1>1, <1>3, <2>1, <2>2 DEF StrayInv
<1> QED
  BY <1>4, <1>5, <1>6, <1>7, <1>8, <1>9 DEF Step

\* A stray heartbeat prolongs a lock that is alive already.
LEMMA StrayStep ==
  ASSUME Disciplined, Inv, TypeOK', NEW p \in Processes, EndStray(p)
  PROVE Inv'
<1> USE SchedulerAssumption DEF TypeOK, Row
<1>1. /\ lock' = IF Exists(lock) THEN [lock EXCEPT !.expires = now + TTL] ELSE lock
      /\ stray' = [stray EXCEPT ![p] = {}]
      /\ UNCHANGED <<now, at, clock, saw>>
      /\ Exists(lock) => lock.expires > now
  BY DEF EndStray, Inv, StrayInv
<1>2. now \in Nat /\ lock \in Row /\ lock' \in Row
  BY DEF Inv
<1>3. lock'.owner = lock.owner /\ (Exists(lock) => lock'.expires = now + TTL)
  BY <1>1, <1>2
<1>4. ~Exists(lock) => lock' = lock
  BY <1>1
<1>5. ASSUME NEW q \in Processes
      PROVE HolderInv(q)' /\ StarterInv(q)' /\ StrayInv(q)' /\ (at[q] # "failed")'
  <2>1. HolderInv(q) /\ StarterInv(q) /\ StrayInv(q) /\ at[q] # "failed"
        /\ clock[q] \in Nat /\ saw[q] \in Row
    BY DEF Inv
  <2>2. HolderInv(q)'
    BY <1>1, <1>2, <1>3, <2>1 DEF HolderInv, Holds, Exists
  <2>3. StrayInv(q)'
    BY <1>1, <1>2, <1>3, <2>1 DEF StrayInv, Exists, Inv
  <2>4. StarterInv(q)'
    <3>1. SUFFICES ASSUME at[q] = "acquiring"
          PROVE \/ saw[q] = lock'
                \/ Exists(saw[q]) /\ saw[q].owner # q /\ saw[q].expires > now
                \/ /\ saw[q].owner = q /\ lock'.owner = q
                   /\ saw[q].expires > now /\ lock'.expires > now
      BY <1>1, <2>1 DEF StarterInv, Exists
    <3>2. CASE ~Exists(lock)
      BY <1>4, <2>1, <3>1, <3>2 DEF StarterInv, Exists
    <3>3. CASE Exists(lock)
      <4>1. lock.expires > now /\ lock'.expires > now /\ Exists(lock')
        BY <1>1, <1>2, <1>3, <3>3 DEF Exists
      <4> QED
        BY <1>3, <2>1, <3>1, <3>3, <4>1 DEF StarterInv, Exists
    <3> QED
      BY <3>2, <3>3
  <2> QED
    BY <1>1, <2>1, <2>2, <2>3, <2>4
<1> QED
  BY <1>5 DEF Inv

\* Process p moves; the other processes keep their part of the invariant as
\* long as the lock keeps theirs.
LEMMA ProcessStep ==
  ASSUME Disciplined, Inv, TypeOK', NEW p \in Processes,
         Step(p), ~EndStray(p), \A q \in Processes : StrayInv(q)'
  PROVE Inv'
<1> USE SchedulerAssumption DEF TypeOK, Row, Goto
<1>1. now' = now /\ \A q \in Processes \ {p} :
        at'[q] = at[q] /\ clock'[q] = clock[q] /\ saw'[q] = saw[q] /\ stray'[q] = stray[q]
  BY DEF Step, StartUp, Insert, TakeOver, TakeBack, StandBy, BeginBeat, EndBeat,
         ShutDown, Release, Die, Look, Inv
<1>2. now \in Nat /\ clock[p] \in Nat /\ lock \in Row /\ saw[p] \in Row /\ lock' \in Row
  BY DEF Inv
<1>3. HolderInv(p) /\ StarterInv(p) /\ StrayInv(p) /\ at[p] # "failed"
  BY DEF Inv
\* A step that leaves the lock alone, and is not a startup.
<1>4. ASSUME UNCHANGED lock, at'[p] # "acquiring",
             HolderInv(p)', at'[p] # "failed"
      PROVE Inv'
  <2>1. StarterInv(p)'
    BY <1>4 DEF StarterInv
  <2>2. ASSUME NEW q \in Processes \ {p}
        PROVE HolderInv(q)' /\ StarterInv(q)' /\ at'[q] # "failed"
    <3>1. HolderInv(q) /\ StarterInv(q) /\ at[q] # "failed"
      BY DEF Inv
    <3>2. HolderInv(q)'
      BY <1>1, <1>4, <3>1 DEF HolderInv, Holds
    <3>3. StarterInv(q)'
      BY <1>1, <1>4, <3>1 DEF StarterInv, Exists
    <3> QED
      BY <1>1, <3>1, <3>2, <3>3
  <2> QED
    BY <1>4, <2>1, <2>2 DEF Inv
\* A starting process takes the lock that nobody holds.
<1>5. ASSUME at[p] = "acquiring", \A q \in Processes : ~Holds(q),
             at'[p] = "active", clock'[p] = clock[p],
             lock'.owner = p, lock'.expires = clock[p] + TTL
      PROVE Inv'
  <2>1. HolderInv(p)' /\ StarterInv(p)'
    BY <1>1, <1>2, <1>3, <1>5 DEF HolderInv, StarterInv, Holds
  <2>2. ASSUME NEW q \in Processes \ {p}
        PROVE HolderInv(q)' /\ StarterInv(q)' /\ at'[q] # "failed"
    <3>1. ~Holds(q) /\ at[q] # "acquiring" /\ at[q] # "failed"
      BY <1>3, <1>5 DEF Inv, StarterInv
    <3> QED
      BY <1>1, <3>1 DEF HolderInv, StarterInv, Holds
  <2> QED
    BY <1>5, <2>1, <2>2 DEF Inv
\* A holder changes its own lock: nobody else holds it, and a starting process
\* that read it read the live lock of another.
<1>6. ASSUME Holds(p), HolderInv(p)', at'[p] \in {"active", "off"}
      PROVE Inv'
  <2>1. StarterInv(p)' /\ at'[p] # "failed"
    BY <1>6 DEF StarterInv
  <2>2. ASSUME NEW q \in Processes \ {p}
        PROVE HolderInv(q)' /\ StarterInv(q)' /\ at'[q] # "failed"
    <3>1. ~Holds(q)
      BY <1>6, OneHolder
    <3>2. HolderInv(q)'
      BY <1>1, <3>1 DEF HolderInv, Holds
    <3>3. StarterInv(q) /\ at[q] # "failed"
      BY DEF Inv
    <3>4. lock.owner = p /\ lock.expires > now /\ p # NoProcess
      BY <1>3, <1>6 DEF HolderInv
    <3>5. StarterInv(q)'
      BY <1>1, <1>6, <3>3, <3>4 DEF StarterInv, Exists
    <3> QED
      BY <1>1, <3>2, <3>3, <3>5
  <2> QED
    BY <2>1, <2>2, <1>6 DEF Inv
<1>7. CASE StartUp(p)
  <2>1. /\ at[p] = "off" /\ at'[p] = "acquiring" /\ clock'[p] = now
        /\ saw'[p] = lock /\ UNCHANGED lock
        /\ \A q \in Processes : at[q] # "acquiring"
    BY <1>3, <1>7 DEF StartUp, Look, Disciplined, Inv
  <2>2. HolderInv(p)' /\ StarterInv(p)'
    BY <1>1, <2>1 DEF HolderInv, StarterInv, Holds
  <2>3. ASSUME NEW q \in Processes \ {p}
        PROVE HolderInv(q)' /\ StarterInv(q)' /\ at'[q] # "failed"
    <3>1. HolderInv(q) /\ at[q] # "failed" /\ at[q] # "acquiring"
      BY <2>1 DEF Inv
    <3> QED
      BY <1>1, <2>1, <3>1 DEF HolderInv, StarterInv, Holds
  <2> QED
    BY <2>1, <2>2, <2>3 DEF Inv
<1>8. CASE Insert(p)
  <2>1. saw[p] = lock /\ ~Exists(lock) /\ at[p] = "acquiring"
    BY <1>3, <1>8 DEF Insert, StarterInv, Exists
  <2>2. \A q \in Processes : ~Holds(q)
    BY <2>1 DEF Inv, HolderInv, Exists
  <2>3. /\ at'[p] = "active" /\ clock'[p] = clock[p]
        /\ lock'.owner = p /\ lock'.expires = clock[p] + TTL
    BY <1>8, <2>1 DEF Insert, Inv
  <2> QED
    BY <1>5, <2>1, <2>2, <2>3
<1>9. CASE TakeOver(p)
  <2>1. /\ saw[p] = lock /\ Exists(lock) /\ lock.expires <= now
        /\ at[p] = "acquiring"
    BY <1>2, <1>3, <1>9 DEF TakeOver, StarterInv
  <2>2. \A q \in Processes : ~Holds(q)
    BY <1>2, <2>1 DEF Inv, HolderInv
  <2>3. /\ at'[p] = "active" /\ clock'[p] = clock[p]
        /\ lock'.owner = p /\ lock'.expires = clock[p] + TTL
    BY <1>9, <2>1 DEF TakeOver, Inv
  <2> QED
    BY <1>5, <2>1, <2>2, <2>3
<1>10. CASE TakeBack(p)
  <2>1. lock.owner = p /\ Exists(lock) /\ at[p] = "acquiring"
    BY <1>3, <1>10 DEF TakeBack, StarterInv, Exists
  <2>2. \A q \in Processes : ~Holds(q)
    BY <2>1 DEF Inv, HolderInv, Holds
  <2>3. /\ at'[p] = "active" /\ clock'[p] = clock[p]
        /\ lock'.owner = p /\ lock'.expires = clock[p] + TTL
    BY <1>10, <2>1 DEF TakeBack, Inv
  <2> QED
    BY <1>5, <2>1, <2>2, <2>3
<1>11. CASE StandBy(p) \/ Die(p)
  BY <1>4, <1>11 DEF StandBy, Die, HolderInv, Holds, Inv
<1>12. CASE BeginBeat(p) \/ ShutDown(p)
  <2>1. /\ UNCHANGED lock /\ at[p] \in {"active", "beating"}
        /\ at'[p] \in {"beating", "releasing"}
        /\ clock'[p] = now /\ saw'[p] = lock
    BY <1>12 DEF BeginBeat, ShutDown, Look, Inv
  <2>2. HolderInv(p)'
    BY <1>1, <1>3, <2>1 DEF HolderInv, Holds
  <2> QED
    BY <1>4, <2>1, <2>2
<1>13. CASE EndBeat(p)
  <2>1. /\ at[p] = "beating" /\ Holds(p) /\ saw[p].owner = p /\ lock.owner = p
        /\ clock[p] = now /\ Exists(lock)
    BY <1>3, <1>13 DEF EndBeat, HolderInv, Holds, Exists
  <2>2. /\ at'[p] = "active" /\ clock'[p] = clock[p]
        /\ lock'.owner = p /\ lock'.expires = clock[p] + TTL
    BY <1>13, <2>1 DEF EndBeat, Inv
  <2>3. HolderInv(p)'
    BY <1>1, <1>2, <2>1, <2>2 DEF HolderInv, Holds
  <2> QED
    BY <1>6, <2>1, <2>2, <2>3
<1>14. CASE Release(p)
  <2>1. Holds(p) /\ at'[p] = "off"
    BY <1>14 DEF Release, Holds, Inv
  <2>2. HolderInv(p)'
    BY <2>1 DEF HolderInv, Holds
  <2> QED
    BY <1>6, <2>1, <2>2
<1> QED
  BY <1>7, <1>8, <1>9, <1>10, <1>11, <1>12, <1>13, <1>14 DEF Step

LEMMA InductiveInv == Disciplined /\ Inv /\ [Next]_vars => Inv'
<1> SUFFICES ASSUME Disciplined, Inv, [Next]_vars PROVE Inv'
  OBVIOUS
<1>1. TypeOK'
  BY TypeStep DEF Inv
<1>2. CASE Tick
  BY <1>1, <1>2, TickStep
<1>3. ASSUME NEW p \in Processes, Step(p) PROVE Inv'
  BY <1>1, <1>3, ProcessStep, StrayStep, StraysStayYoung
<1>4. CASE UNCHANGED vars
  BY <1>4 DEF vars, Inv, TypeOK, HolderInv, StarterInv, StrayInv, Holds, Exists
<1> QED
  BY <1>2, <1>3, <1>4 DEF Next

-----------------------------------------------------------------------------
\* Every variable keeps its type, whatever the timing.
THEOREM TypeCorrect == Spec => []TypeOK
<1>1. Init => TypeOK
  BY SchedulerAssumption DEF Init, TypeOK, Row, NoRow, Stages
<1> QED
  BY <1>1, TypeStep, PTL DEF Spec

\* With heartbeats on time and startups one after the other, at most one
\* process runs the scheduler.
THEOREM OneSchedulerAtATime == Disciplined /\ Spec => []OnlyOneScheduler
<1>1. Inv => OnlyOneScheduler
  BY OneHolder DEF OnlyOneScheduler, Schedulers, Holds
<1>2. SUFFICES ASSUME Disciplined PROVE Spec => []OnlyOneScheduler
  OBVIOUS
<1>3. Inv /\ [Next]_vars => Inv'
  BY <1>2, InductiveInv
<1> QED
  BY <1>1, <1>3, InitInv, PTL DEF Spec

\* Then a running scheduler always owns a lock that nobody may take over.
THEOREM OwnerKeepsLock == Disciplined /\ Spec => []SchedulerOwnsLock
<1>1. Inv => SchedulerOwnsLock
  BY DEF Inv, HolderInv, Holds, SchedulerOwnsLock, Schedulers
<1>2. SUFFICES ASSUME Disciplined PROVE Spec => []SchedulerOwnsLock
  OBVIOUS
<1>3. Inv /\ [Next]_vars => Inv'
  BY <1>2, InductiveInv
<1> QED
  BY <1>1, <1>3, InitInv, PTL DEF Spec

\* Then no startup fails on a row that appeared or vanished under its feet.
THEOREM StartupsSucceed == Disciplined /\ Spec => []NoStartupFails
<1>1. Inv => NoStartupFails
  BY DEF Inv, NoStartupFails
<1>2. SUFFICES ASSUME Disciplined PROVE Spec => []NoStartupFails
  OBVIOUS
<1>3. Inv /\ [Next]_vars => Inv'
  BY <1>2, InductiveInv
<1> QED
  BY <1>1, <1>3, InitInv, PTL DEF Spec
=============================================================================
