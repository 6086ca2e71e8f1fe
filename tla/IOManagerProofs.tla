-------------------------- MODULE IOManagerProofs --------------------------
(***************************************************************************)
(* Proofs about IOManager, for any set of threads, jobs and timers: the    *)
(* safety of the scheduler carries over to its subclass, whose idle fiber  *)
(* pushes expired timers and woken fibers, and the count of pending events *)
(* covers every fiber that waits for one.                                  *)
(***************************************************************************)
EXTENDS IOManager, SchedulerProofs

\* The types of the I/O manager's own variables.
IOTyped ==
    /\ tickled \in BOOLEAN /\ bell \in BOOLEAN
    /\ edges \subseteq Jobs
    /\ owed \in [Actors -> Nat]
    /\ step \in [Threads -> Steps]
    /\ sees \in [Threads -> SUBSET TimerJobs]
    /\ rung \in [Threads -> BOOLEAN] /\ got \in [Threads -> SUBSET Jobs]
    /\ check \in {"out", "pend", "base"}

\* A timer's callback is in m_timers or in one thread's batch, and not scheduled yet.
TimerPlaces ==
    /\ timers \subseteq TimerJobs \cap fresh /\ IsFiniteSet(timers) /\ due \subseteq timers
    /\ batch \in [Threads -> SUBSET TimerJobs]
    /\ \A t \in Threads : batch[t] \subseteq fresh \ timers /\ IsFiniteSet(batch[t])
    /\ \A t, u \in Threads : t # u => batch[t] \cap batch[u] = {}

Uncounting == {t \in Threads : step[t] = "uncount"}

Counts == IsFiniteSet(wakers) /\ pending = Cardinality(wakers) + Cardinality(Uncounting)

IOInv == TypeInv /\ Ownership /\ IOTyped /\ TimerPlaces /\ Counts

-----------------------------------------------------------------------------
(* The scheduler underneath.  Three steps of the I/O manager are not steps *)
(* of the plain scheduler: expired callbacks are pushed as a batch, idle() *)
(* ends a round without asking stopping(), and stop()'s loop enters run()  *)
(* because of a timer or a pending event.                                  *)

\* stop()'s loop goes round although the base class could stop.
GoesRound ==
    /\ caller = "stop" /\ caller' = "run"
    /\ UNCHANGED <<queue, counters, flags, fibers, pc, locals, world>>

\* Every other step is one of the scheduler.
LEMMA BaseSteps ==
    ASSUME [IONext]_ioVars
    PROVE  [Next]_vars \/ GoesRound \/ \E t \in Threads : PushExpired(t) \/ IdleDone(t)
<1>1. CASE UNCHANGED ioVars
  BY <1>1 DEF ioVars
<1>2. CASE IOStart \/ IOSchedule \/ IOStop \/ IOOver
  BY <1>2 DEF IOStart, IOSchedule, IOStop, IOOver, ioVars, Next, Program
<1>3. CASE CallerStep
  <2>1. CASE Tickle("caller") \/ CallerBase \/ IOJoin
    BY <2>1 DEF Tickle, CallerBase, IOJoin, Next, Program
  <2>2. CASE CallerTimers \/ CallerPending
    BY <2>2 DEF CallerTimers, CallerPending, CallerStops, GoesRound, vars
  <2> QED BY <1>3, <2>1, <2>2 DEF CallerStep
<1>4. ASSUME NEW t \in Threads, ThreadStep(t)
      PROVE  [Next]_vars \/ PushExpired(t) \/ IdleDone(t)
  <2>1. CASE Tickle(t) \/ \E j \in Jobs : AddTimer(t, j)
    BY <2>1 DEF Tickle, AddTimer
  <2>2. CASE \/ IOScan(t) \/ IOLoop(t) \/ IOSettleReady(t) \/ IOJob(t) \/ AddEvent(t)
             \/ \E j \in Jobs : IOSpawn(t, j)
    BY <2>2 DEF IOScan, IOLoop, IOSettleReady, IOJob, AddEvent, IOSpawn, Next, Job, Loop
  <2>3. CASE IOIdle(t)
    <3>1. CASE \/ IdleTimers(t) \/ IdlePending(t) \/ EpollReturn(t) \/ EpollTimeout(t)
               \/ ListExpired(t) \/ Uncount(t)
      BY <3>1 DEF IdleTimers, IdlePending, EpollReturn, EpollTimeout, ListExpired, Uncount
    <3>2. CASE IdleBase(t) \/ \E j \in Jobs : TriggerEvent(t, j)
      BY <3>2 DEF IdleBase, TriggerEvent, Next, Loop
    <3> QED BY <2>3, <3>1, <3>2 DEF IOIdle
  <2> QED BY <1>4, <2>1, <2>2, <2>3 DEF ThreadStep
<1>5. CASE \E j \in Jobs : Elapse(j) \/ EventOccurs(j)
  BY <1>5 DEF Elapse, EventOccurs
<1> QED BY <1>1, <1>2, <1>3, <1>4, <1>5 DEF IONext

\* The expired callbacks enter the queue: each once, and none is in it already.
LEMMA PushKeepsOwnership ==
    ASSUME IOInv, NEW t \in Threads, PushExpired(t)
    PROVE  TypeInv' /\ Ownership'
<1> USE DEF IOInv, counters, flags, fibers, locals
<1> DEFINE n == Cardinality(batch[t])
           B == batch[t]
<1>1. IsFiniteSet(B) /\ n \in Nat /\ B \subseteq fresh /\ B \subseteq Jobs
  BY FS_CardinalityType DEF TimerPlaces, TypeInv, Typed
<1>2. PICK s \in [1 .. n -> B] :
        /\ Range(s) = B
        /\ queue' = queue \o [i \in DOMAIN s |-> [task |-> s[i], thread |-> AnyThread]]
  BY DEF PushExpired
<1> DEFINE q == [i \in 1 .. n |-> [task |-> s[i], thread |-> AnyThread]]
<1>3. queue' = queue \o q /\ DOMAIN s = 1 .. n
  BY <1>2
<1>4. \A i \in 1 .. n : q[i] \in Entries /\ q[i].task = s[i] /\ s[i] \in B
  BY <1>1, <1>2 DEF Entries
<1>5. q \in Seq(Entries) /\ DOMAIN q = 1 .. n
  BY <1>1, <1>4
<1>6. Tasks(q) = B
  BY <1>2, <1>4, <1>5 DEF Tasks, Range
<1>7. \A i, k \in 1 .. n : i # k => s[i] # s[k]
  <2>1. IsFiniteSet(1 .. n) /\ Cardinality(1 .. n) = n
    BY <1>1, FS_Interval
  <2>2. s \in Surjection(1 .. n, B)
    BY <1>2 DEF Surjection, Range
  <2>3. s \in Injection(1 .. n, B)
    BY <2>1, <2>2, FS_SurjSameCardinalityImpliesInj
  <2> QED BY <2>3 DEF Injection, IsInjective
<1>8. Distinct(q)
  BY <1>4, <1>5, <1>7 DEF Distinct
<1>9. B \cap Tasks(queue) = {}
  BY <1>1 DEF Ownership, Places, Unclaimed
<1> HIDE DEF q, B, n
<1>10. /\ queue' \in Seq(Entries)
       /\ Tasks(queue') = Tasks(queue) \cup B /\ Distinct(queue')
  BY <1>3, <1>5, <1>6, <1>8, <1>9, ConcatTasks DEF TypeInv, Typed, Ownership, Places
<1>11. fresh' = fresh \ B /\ UNCHANGED <<fstate, pc, ft, cbFiber, wakers, ended>>
  BY DEF PushExpired, B
<1>12. TypeInv'
  BY <1>10, <1>11 DEF PushExpired, TypeInv, Typed, LocalsFit, Entered, Running, Started, Counted, Count
<1> QED BY <1>1, <1>10, <1>11, <1>12, OwnershipAccept

\* A round of idle() that ends without stopping() leaves the idle fiber.
LEMMA DoneKeepsOwnership ==
    ASSUME TypeInv, Ownership, NEW t \in Threads, IdleDone(t)
    PROVE  TypeInv' /\ Ownership'
<1> USE DEF counters, flags, fibers, locals, world
<1>1. At(t, "idle") /\ pc' = [pc EXCEPT ![t] = "idleLeft"]
  BY DEF IdleDone, InIdle, Goto
<1>2. UNCHANGED <<queue, counters, flags, fibers, locals, caller, world>>
  BY DEF IdleDone
<1>3. pc \in [Threads -> Locations] /\ "idleLeft" \in Locations /\ pc[t] = "idle"
  BY <1>1 DEF TypeInv, Typed, Locations, At
<1>4. Typed'
  BY <1>1, <1>2, <1>3 DEF TypeInv, Typed
<1>5. LocalsFit'
  BY <1>1, <1>2, <1>3 DEF TypeInv, LocalsFit, Entered, Running
<1>6. Started'
  BY <1>1, <1>2, RunsStarted DEF TypeInv, Started
<1>7. Counted'
  <2>1. Moves(t, "idleLeft")
    BY <1>1, <1>2, <1>3, CountNat DEF Moves, In, Working, Idling, TypeInv
  <2> QED BY <2>1, MovedCounts DEF TypeInv
<1>8. Ownership'
  <2>1. UNCHANGED owned
    BY <1>2 DEF owned
  <2>2. \A u \in Threads : pc'[u] = pc[u] \/ (pc[u] \in Outside /\ pc'[u] \in Outside)
    BY <1>1, <1>3 DEF Outside
  <2> QED BY <2>1, <2>2, OwnershipQuiet
<1> QED BY <1>4, <1>5, <1>6, <1>7, <1>8 DEF TypeInv

\* Entering run() once more changes no job.
LEMMA RoundKeepsOwnership ==
    ASSUME TypeInv, Ownership, GoesRound
    PROVE  TypeInv' /\ Ownership'
<1> USE DEF GoesRound, counters, flags, fibers, locals, world
<1>1. TypeInv'
  BY DEF TypeInv, Typed, CallerLocations, LocalsFit, Entered, Running, Started, Counted, Count
<1>2. UNCHANGED owned /\ UNCHANGED pc
  BY DEF owned
<1> QED BY <1>1, <1>2, OwnershipQuiet

\* What holds of the scheduler holds of the I/O manager.
LEMMA BaseKept ==
    ASSUME IOInv, [IONext]_ioVars
    PROVE  TypeInv' /\ Ownership'
<1>1. CASE [Next]_vars
  BY <1>1, TypeStep, OwnershipStep DEF IOInv
<1> QED BY <1>1, BaseSteps, PushKeepsOwnership, DoneKeepsOwnership, RoundKeepsOwnership DEF IOInv

-----------------------------------------------------------------------------
(* The I/O manager's own variables.                                        *)

\* There are finitely many threads.
LEMMA ThreadsFinite == IsFiniteSet(Threads) /\ Cardinality(Threads) \in Nat
<1>1. IsFiniteSet(Workers \cup {Root})
  BY ThreadsAssumption, FS_AddElement
<1>2. IsFiniteSet(Threads)
  BY <1>1, ThreadsAssumption DEF Threads
<1> QED BY <1>2, FS_CardinalityType

\* An actor may come to owe tickle() calls, and makes one of those it owes.
LEMMA OwedTyped ==
    ASSUME owed \in [Actors -> Nat], NEW a \in Actors,
           \/ \E n \in Nat : Owe(a, n)
           \/ \E c \in BOOLEAN : OweIf(a, c)
           \/ owed[a] > 0 /\ Owe(a, -1)
    PROVE  owed' \in [Actors -> Nat]
<1>1. owed[a] \in Nat
  OBVIOUS
<1>2. ASSUME NEW n \in Int, owed[a] + n \in Nat, Owe(a, n)
      PROVE  owed' \in [Actors -> Nat]
  BY <1>2 DEF Owe
<1>3. ASSUME NEW c \in BOOLEAN, OweIf(a, c)
      PROVE  Owe(a, 1) \/ Owe(a, 0)
  <2>1. CASE c = TRUE
    BY <1>3, <2>1 DEF OweIf
  <2>2. CASE c = FALSE
    BY <1>3, <2>2 DEF OweIf
  <2> QED BY <2>1, <2>2
<1>4. ASSUME owed[a] > 0 PROVE owed[a] + (-1) \in Nat
  BY <1>1, <1>4
<1> QED BY <1>1, <1>2, <1>3, <1>4

\* Every variable of the I/O manager keeps its type.
LEMMA IOTypedKept ==
    ASSUME IOInv, [IONext]_ioVars
    PROVE  IOTyped'
<1> USE DEF IOInv, IOTyped, ioButOwed, Steps, Step
<1>0. Threads \subseteq Actors /\ "caller" \in Actors
  BY DEF Actors
<1>1. CASE UNCHANGED ioVars
  BY <1>1 DEF ioVars, io
<1>2. CASE IOStart \/ IOJoin \/ IOOver
  BY <1>2 DEF IOStart, IOJoin, IOOver, ioVars, io
<1>3. CASE IOSchedule \/ IOStop
  <2>1. owed' \in [Actors -> Nat]
    <3>1. CASE IOSchedule
      <4>1. NeedTickle \in BOOLEAN
        BY DEF NeedTickle
      <4> QED BY <1>0, <3>1, <4>1, OwedTyped DEF IOSchedule
    <3>2. CASE IOStop
      BY <1>0, <3>2, OwedTyped, ThreadsFinite DEF IOStop
    <3> QED BY <1>3, <3>1, <3>2
  <2> QED BY <1>3, <2>1 DEF IOSchedule, IOStop
<1>4. CASE CallerTimers \/ CallerPending \/ CallerBase
  BY <1>4 DEF CallerTimers, CallerPending, CallerBase
<1>5. ASSUME NEW a \in Actors, Tickle(a)
      PROVE  IOTyped'
  <2>1. owed' \in [Actors -> Nat]
    BY <1>5, OwedTyped DEF Tickle
  <2> QED BY <1>5, <2>1 DEF Tickle
<1>6. ASSUME NEW t \in Threads,
             IOScan(t) \/ IOSettleReady(t) \/ \E j \in Jobs : IOSpawn(t, j) \/ AddTimer(t, j)
      PROVE  IOTyped'
  <2>1. \E c \in BOOLEAN : OweIf(t, c)
    <3>1. TickleMe(t) \in BOOLEAN /\ NeedTickle \in BOOLEAN
      BY DEF TickleMe, NeedTickle
    <3>2. CASE \E j \in Jobs : AddTimer(t, j)
      <4>1. PICK first \in BOOLEAN : OweIf(t, first /\ ~tickled)
        BY <3>2 DEF AddTimer
      <4>2. (first /\ ~tickled) \in BOOLEAN
        OBVIOUS
      <4> QED BY <4>1, <4>2
    <3> QED BY <1>6, <3>1, <3>2 DEF IOScan, IOSettleReady, IOSpawn
  <2>2. owed' \in [Actors -> Nat]
    BY <1>0, <2>1, OwedTyped
  <2>3. tickled' \in BOOLEAN
    BY <1>6 DEF IOScan, IOSettleReady, IOSpawn, AddTimer
  <2> QED BY <1>6, <2>2, <2>3 DEF IOScan, IOSettleReady, IOSpawn, AddTimer
<1>7. ASSUME NEW t \in Threads, IOLoop(t) \/ IOJob(t) \/ AddEvent(t)
      PROVE  IOTyped'
  BY <1>7 DEF IOLoop, IOJob, AddEvent, io
<1>8. ASSUME NEW t \in Threads, IOIdle(t)
      PROVE  IOTyped'
  <2>1. CASE IdleTimers(t) \/ IdlePending(t) \/ IdleBase(t)
    BY <2>1 DEF IdleTimers, IdlePending, IdleBase, TimerPlaces
  <2>2. CASE EpollReturn(t) \/ EpollTimeout(t) \/ ListExpired(t)
    BY <2>2 DEF EpollReturn, EpollTimeout, ListExpired
  <2>3. CASE Uncount(t) \/ IdleDone(t)
    BY <2>3 DEF Uncount, IdleDone
  <2>4. CASE PushExpired(t) \/ \E j \in Jobs : TriggerEvent(t, j)
    <3>1. owed' \in [Actors -> Nat]
      <4>1. NeedTickle \in BOOLEAN
        BY DEF NeedTickle
      <4> QED BY <1>0, <2>4, <4>1, OwedTyped DEF PushExpired, TriggerEvent
    <3> QED BY <2>4, <3>1 DEF PushExpired, TriggerEvent
  <2> QED BY <1>8, <2>1, <2>2, <2>3, <2>4 DEF IOIdle
<1>9. CASE \E j \in Jobs : Elapse(j) \/ EventOccurs(j)
  BY <1>9 DEF Elapse, EventOccurs
<1> QED BY <1>0, <1>1, <1>2, <1>3, <1>4, <1>5, <1>6, <1>7, <1>8, <1>9 DEF IONext, CallerStep, ThreadStep

\* A timer's callback stays in one place until a thread schedules it: the program
\* and the jobs hand over others.
LEMMA TimerPlacesKept ==
    ASSUME IOInv, [IONext]_ioVars
    PROVE  TimerPlaces'
<1> USE DEF IOInv, TimerPlaces
<1>1. CASE /\ UNCHANGED <<timers, batch>> /\ TimerJobs \cap fresh \subseteq fresh'
           /\ due' = due \/ \E j \in timers : due' = due \cup {j}
  BY <1>1
<1>2. CASE IOSchedule
  <2>1. TimerJobs \cap fresh \subseteq fresh'
    <3>1. TimerJobs \cap Range(Batch) = {}
      BY TimerJobsAssumption, JobsAssumption DEF Range
    <3> QED BY <1>2, <3>1, TimerJobsAssumption DEF IOSchedule, UserBatch, UserSchedule, UserReschedule
  <2> QED BY <1>1, <1>2, <2>1 DEF IOSchedule, ioButOwed
<1>3. ASSUME NEW t \in Threads, NEW j \in Jobs, IOSpawn(t, j)
      PROVE  TimerPlaces'
  BY <1>1, <1>3 DEF IOSpawn, Spawn, ioButOwed
<1>4. ASSUME NEW t \in Threads, NEW j \in Jobs, AddTimer(t, j)
      PROVE  TimerPlaces'
  <2>1. timers' = timers \cup {j} /\ j \in TimerJobs \cap fresh /\ \A u \in Threads : j \notin batch[u]
    BY <1>4 DEF AddTimer
  <2>2. IsFiniteSet(timers')
    BY <2>1, FS_AddElement
  <2> QED BY <1>4, <2>1, <2>2 DEF AddTimer, vars, world
<1>5. ASSUME NEW t \in Threads, ListExpired(t)
      PROVE  TimerPlaces'
  <2>1. /\ batch' = [batch EXCEPT ![t] = due] /\ timers' = timers \ due /\ due' = {} /\ fresh' = fresh
        /\ batch[t] \in SUBSET TimerJobs
    BY <1>5 DEF ListExpired, vars, world
  <2>2. IsFiniteSet(due) /\ IsFiniteSet(timers')
    BY <2>1, FS_Subset
  <2>3. \A u \in Threads : batch'[u] = IF u = t THEN due ELSE batch[u]
    BY <2>1
  <2>4. batch' \in [Threads -> SUBSET TimerJobs]
    BY <2>1
  <2> QED BY <2>1, <2>2, <2>3, <2>4
<1>6. ASSUME NEW t \in Threads, PushExpired(t)
      PROVE  TimerPlaces'
  <2>1. /\ batch' = [batch EXCEPT ![t] = {}] /\ fresh' = fresh \ batch[t]
        /\ UNCHANGED <<timers, due>>
    BY <1>6 DEF PushExpired
  <2>2. \A u \in Threads : batch'[u] = IF u = t THEN {} ELSE batch[u]
    BY <2>1
  <2>3. batch' \in [Threads -> SUBSET TimerJobs]
    BY <2>1
  <2> QED BY <2>1, <2>2, <2>3, FS_EmptySet
<1>7. CASE \E j \in Jobs : Elapse(j) \/ EventOccurs(j)
  BY <1>1, <1>7 DEF Elapse, EventOccurs, vars, world
<1>8. CASE IOStart \/ IOStop \/ CallerStep \/ IOOver \/ UNCHANGED ioVars
  <2> USE DEF ioButOwed, ioVars, vars, world, io
  <2>1. CASE IOStart \/ IOStop \/ IOOver \/ UNCHANGED ioVars
    BY <1>1, <2>1 DEF IOStart, Start, IOStop, Stop, IOOver
  <2>2. CASE CallerStep
    BY <1>1, <2>2 DEF CallerStep, Tickle, CallerTimers, CallerPending, CallerBase, StopLoop, IOJoin, Join
  <2> QED BY <1>8, <2>1, <2>2
<1>9. ASSUME NEW t \in Threads,
             \/ Tickle(t) \/ IOScan(t) \/ IOLoop(t) \/ IOSettleReady(t) \/ IOJob(t) \/ AddEvent(t)
      PROVE  TimerPlaces'
  <2> USE DEF ioButOwed, io, vars, world
  <2>1. UNCHANGED <<timers, batch, due, fresh>>
    <3>1. CASE Tickle(t) \/ IOScan(t) \/ IOSettleReady(t) \/ IOJob(t) \/ AddEvent(t)
      BY <3>1 DEF Tickle, IOScan, TakeTask, FindNothing, IOSettleReady, SettleReady, IOJob, Finish,
                  YieldToReady, AddEvent, YieldToHold
    <3>2. CASE IOLoop(t)
      BY <3>2 DEF IOLoop, SwapInFiber, DropFinished, SwapInCallback, SwapOut, Release,
                  SettleFinished, SettleHold, EnterIdle, LeaveIdle, ExitRun
    <3> QED BY <1>9, <3>1, <3>2
  <2> QED BY <1>1, <2>1
<1>10. ASSUME NEW t \in Threads,
              \/ IdleTimers(t) \/ IdlePending(t) \/ IdleBase(t) \/ EpollReturn(t) \/ EpollTimeout(t)
              \/ Uncount(t) \/ IdleDone(t) \/ \E j \in Jobs : TriggerEvent(t, j)
       PROVE  TimerPlaces'
  <2>1. UNCHANGED <<timers, batch, due, fresh>>
    BY <1>10 DEF IdleTimers, IdlePending, IdleBase, IdleCheck, EpollReturn, EpollTimeout, Uncount,
                 IdleDone, TriggerEvent, Wake, vars, world
  <2> QED BY <1>1, <2>1
<1> QED BY <1>2, <1>3, <1>4, <1>5, <1>6, <1>7, <1>8, <1>9, <1>10 DEF IONext, ThreadStep, IOIdle

-----------------------------------------------------------------------------
(* The count of pending events.                                            *)

\* One thread moves inside idle(): the threads about to count down change by one
\* when it comes to that point or leaves it.
LEMMA UncountingMoves ==
    ASSUME step \in [Threads -> Steps], NEW t \in Threads, NEW s, Step(t, s)
    PROVE  /\ Cardinality(Uncounting) \in Nat
           /\ step[t] # "uncount" /\ s # "uncount" => Uncounting' = Uncounting
           /\ step[t] # "uncount" /\ s = "uncount" => Cardinality(Uncounting') = Cardinality(Uncounting) + 1
           /\ step[t] = "uncount" /\ s # "uncount" => Cardinality(Uncounting') = Cardinality(Uncounting) - 1
<1>1. \A u \in Threads : step'[u] = IF u = t THEN s ELSE step[u]
  BY DEF Step
<1>2. IsFiniteSet(Uncounting) /\ Cardinality(Uncounting) \in Nat
  <2>1. Uncounting \in SUBSET Threads
    BY DEF Uncounting
  <2>2. IsFiniteSet(Uncounting)
    BY <2>1, ThreadsFinite, FS_Subset
  <2> QED BY <2>2, FS_CardinalityType
<1>3. ASSUME step[t] # "uncount", s # "uncount" PROVE Uncounting' = Uncounting
  BY <1>1, <1>3 DEF Uncounting
<1>4. ASSUME step[t] # "uncount", s = "uncount"
      PROVE  Cardinality(Uncounting') = Cardinality(Uncounting) + 1
  <2>1. Uncounting' = Uncounting \cup {t} /\ t \notin Uncounting
    BY <1>1, <1>4 DEF Uncounting
  <2> QED BY <2>1, <1>2, FS_AddElement
<1>5. ASSUME step[t] = "uncount", s # "uncount"
      PROVE  Cardinality(Uncounting') = Cardinality(Uncounting) - 1
  <2>1. Uncounting' = Uncounting \ {t} /\ t \in Uncounting
    BY <1>1, <1>5 DEF Uncounting
  <2> QED BY <2>1, <1>2, FS_RemoveElement
<1> QED BY <1>2, <1>3, <1>4, <1>5

\* addEvent counts before the fiber is its event's, and idle() counts down after
\* the fiber is back in the queue.
LEMMA CountsKept ==
    ASSUME IOInv, [IONext]_ioVars
    PROVE  Counts'
<1> USE DEF IOInv, Counts
<1>0. step \in [Threads -> Steps] /\ Cardinality(wakers) \in Nat
  BY FS_CardinalityType DEF IOTyped
<1>1. CASE UNCHANGED <<wakers, pending, step>>
  BY <1>1 DEF Uncounting
<1>2. ASSUME NEW t \in Threads, NEW s \in Steps \ {"uncount"}, Step(t, s), step[t] # "uncount",
             UNCHANGED <<wakers, pending>>
      PROVE  Counts'
  <2>1. Uncounting' = Uncounting
    BY <1>0, <1>2, UncountingMoves
  <2> QED BY <1>2, <2>1
<1>3. ASSUME NEW t \in Threads, AddEvent(t)
      PROVE  Counts'
  <2>1. /\ wakers' = wakers \cup {Running(t)} /\ pending' = pending + 1 /\ step' = step /\ pc[t] = "exec"
    BY <1>3 DEF AddEvent, YieldToHold, At
  <2>2. Running(t) \notin wakers
    BY <2>1 DEF Ownership, Executing, Unclaimed
  <2>3. IsFiniteSet(wakers') /\ Cardinality(wakers') = Cardinality(wakers) + 1
    BY <2>1, <2>2, FS_AddElement
  <2>4. Uncounting' = Uncounting /\ Cardinality(Uncounting) \in Nat
    <3>1. Uncounting \in SUBSET Threads
      BY DEF Uncounting
    <3>2. IsFiniteSet(Uncounting)
      BY <3>1, ThreadsFinite, FS_Subset
    <3> QED BY <2>1, <3>2, FS_CardinalityType DEF Uncounting
  <2> QED BY <1>0, <2>1, <2>3, <2>4
<1>4. ASSUME NEW t \in Threads, NEW j \in Jobs, TriggerEvent(t, j)
      PROVE  Counts'
  <2>1. /\ j \in wakers /\ wakers' = wakers \ {j} /\ pending' = pending
        /\ step[t] = "events" /\ Step(t, "uncount")
    BY <1>4 DEF TriggerEvent, InIdle, Wake
  <2>2. IsFiniteSet(wakers') /\ Cardinality(wakers') = Cardinality(wakers) - 1
    BY <2>1, FS_RemoveElement
  <2>3. Cardinality(Uncounting) \in Nat /\ Cardinality(Uncounting') = Cardinality(Uncounting) + 1
    BY <1>0, <2>1, UncountingMoves
  <2> QED BY <1>0, <2>1, <2>2, <2>3
<1>5. ASSUME NEW t \in Threads, Uncount(t)
      PROVE  Counts'
  <2>1. /\ wakers' = wakers /\ pending' = pending - 1 /\ step[t] = "uncount" /\ Step(t, "events")
    BY <1>5 DEF Uncount, InIdle, vars, world
  <2>2. Cardinality(Uncounting) \in Nat /\ Cardinality(Uncounting') = Cardinality(Uncounting) - 1
    BY <1>0, <2>1, UncountingMoves
  <2> QED BY <1>0, <2>1, <2>2
<1>6. ASSUME NEW t \in Threads,
             \/ IdleTimers(t) \/ IdlePending(t) \/ IdleBase(t) \/ EpollReturn(t) \/ EpollTimeout(t)
             \/ ListExpired(t) \/ PushExpired(t) \/ IdleDone(t)
      PROVE  Counts'
  <2>1. UNCHANGED <<wakers, pending>>
    BY <1>6 DEF IdleTimers, IdlePending, IdleBase, IdleCheck, EpollReturn, EpollTimeout, ListExpired,
                PushExpired, IdleDone, vars, world
  <2>2. step[t] # "uncount" /\ \E s \in Steps \ {"uncount"} : Step(t, s)
    BY <1>6 DEF IdleTimers, IdlePending, IdleBase, EpollReturn, EpollTimeout, ListExpired,
                PushExpired, IdleDone, InIdle, Steps
  <2> QED BY <1>2, <2>1, <2>2
<1>7. CASE UNCHANGED ioVars \/ IOStart \/ IOSchedule \/ IOStop \/ CallerStep \/ IOOver
  <2> USE DEF ioButOwed, ioVars, vars, world, io
  <2>1. UNCHANGED <<wakers, pending, step>>
    <3>1. CASE UNCHANGED ioVars \/ IOStart \/ IOSchedule \/ IOStop \/ IOOver
      BY <3>1 DEF IOStart, Start, IOSchedule, UserBatch, UserSchedule, UserReschedule, IOStop, Stop, IOOver
    <3>2. CASE CallerStep
      BY <3>2 DEF CallerStep, Tickle, CallerTimers, CallerPending, CallerBase, StopLoop, IOJoin, Join
    <3> QED BY <1>7, <3>1, <3>2
  <2> QED BY <1>1, <2>1
<1>8. ASSUME NEW t \in Threads,
             \/ Tickle(t) \/ IOScan(t) \/ IOLoop(t) \/ IOSettleReady(t) \/ IOJob(t)
             \/ \E j \in Jobs : IOSpawn(t, j) \/ AddTimer(t, j)
      PROVE  Counts'
  <2> USE DEF ioButOwed, io, vars, world
  <2>1. UNCHANGED <<wakers, pending, step>>
    <3>1. CASE Tickle(t) \/ IOScan(t) \/ IOSettleReady(t) \/ IOJob(t)
      BY <3>1 DEF Tickle, IOScan, TakeTask, FindNothing, IOSettleReady, SettleReady, IOJob, Finish,
                  YieldToReady
    <3>2. CASE IOLoop(t)
      BY <3>2 DEF IOLoop, SwapInFiber, DropFinished, SwapInCallback, SwapOut, Release,
                  SettleFinished, SettleHold, EnterIdle, LeaveIdle, ExitRun
    <3>3. CASE \E j \in Jobs : IOSpawn(t, j) \/ AddTimer(t, j)
      BY <3>3 DEF IOSpawn, Spawn, AddTimer
    <3> QED BY <1>8, <3>1, <3>2, <3>3
  <2> QED BY <1>1, <2>1
<1>9. CASE \E j \in Jobs : Elapse(j) \/ EventOccurs(j)
  BY <1>1, <1>9 DEF Elapse, EventOccurs, vars, world
<1> QED BY <1>3, <1>4, <1>5, <1>6, <1>7, <1>8, <1>9 DEF IONext, ThreadStep, IOIdle

-----------------------------------------------------------------------------
(* The theorems.                                                           *)

\* The I/O manager starts without timers, events or jobs.
LEMMA IOInitInv == IOInit => IOInv
<1> SUFFICES ASSUME IOInit PROVE IOInv
  OBVIOUS
<1>1. TypeInv /\ Ownership
  BY TypeInit, OwnershipInit DEF IOInit
<1>2. IOTyped
  BY DEF IOInit, IOTyped, Steps
<1>3. TimerPlaces
  BY FS_EmptySet DEF IOInit, TimerPlaces
<1>4. Counts
  <2>1. Uncounting = {} /\ wakers = {} /\ pending = 0
    BY DEF IOInit, Init, Uncounting
  <2> QED BY <2>1, FS_EmptySet DEF Counts
<1> QED BY <1>1, <1>2, <1>3, <1>4 DEF IOInv

\* In every behaviour the jobs of the I/O manager have one owner, a timer's callback
\* is in one place and m_pendingEventCount counts the waiting fibers.
THEOREM IOInvariant == IOSpec => []IOInv
<1>1. IOInv /\ [IONext]_ioVars => IOInv'
  BY BaseKept, IOTypedKept, TimerPlacesKept, CountsKept DEF IOInv
<1> QED BY <1>1, IOInitInv, PTL DEF IOSpec

\* m_pendingEventCount covers every fiber that waits for an event, from addEvent
\* until the fiber is back in the queue, and every variable keeps its type.
THEOREM WaitersCounted == IOSpec => []WaitersCovered
<1>1. ASSUME IOInv PROVE WaitersCovered
  <2>1. PendingCovers
    BY <1>1 DEF IOInv, Counts, PendingCovers, Uncounting
  <2>2. pending \in Nat
    <3>1. Uncounting \in SUBSET Threads
      BY DEF Uncounting
    <3>2. IsFiniteSet(Uncounting)
      BY <3>1, ThreadsFinite, FS_Subset
    <3> QED BY <1>1, <3>2, FS_CardinalityType DEF IOInv, Counts
  <2>3. TypeOK
    BY <1>1, CountNat DEF IOInv, TypeInv, Typed, TypeOK, Entries
  <2> QED BY <1>1, <2>1, <2>2, <2>3 DEF IOInv, IOTyped, TimerPlaces, WaitersCovered, IOTypeOK
<1> QED BY <1>1, IOInvariant, PTL

\* The scheduler's safety survives in its subclass: no two threads on one stack,
\* no assertion of swapIn() or reset() fails, and every accepted job, be it pushed by
\* idle() or by schedule(), has an owner until it has ended.
THEOREM IOSwitchingSafe == IOSpec => [](FiberMutex /\ AssertsHold /\ NothingLost /\ CountersExact)
<1>1. IOInv => FiberMutex /\ AssertsHold /\ NothingLost /\ CountersExact
  BY DEF IOInv, Ownership, OneStack, FiberMutex, OnStack, Entered, TypeInv, LocalsFit, Dispatching,
         SpareIsFree, AssertsHold, Resettable, Counted, Count, CountersExact, Working, Idling
<1> QED BY <1>1, IOInvariant, PTL
-----------------------------------------------------------------------------
(* stop() of a lone caller.                                                *)

\* A default-constructed IOManager: the caller's thread is the only one.
Alone == UseCaller /\ Workers = {}

\* where the one thread is when its caller is not inside run()
CallerOut ==
    /\ caller = "user" => pc[Root] = "scan"
    /\ caller = "stop" => pc[Root] \in {"scan", "swapped", "idleLeft"}

\* a thread is inside idle() when it is at one of its steps, and has callbacks only to push them
IdleSteps ==
    \A t \in Threads : /\ step[t] # "out" => pc[t] = "idle"
                       /\ step[t] # "push" => batch[t] = {}

\* what stop()'s loop has found out so far is still true
Asked ==
    /\ check # "out" => caller = "stop" /\ timers = {}
    /\ check = "base" => pending = 0

Drained ==
    /\ timers = {} /\ wakers = {} /\ \A t \in Threads : batch[t] = {}
    /\ Jobs \ (fresh \cup ended) = {}

StopInv == CallerOut /\ IdleSteps /\ Asked /\ (caller \in {"join", "returned"} => Drained)

\* The only thread is the caller's.
LEMMA OneThread ==
    ASSUME Alone
    PROVE  Threads = {Root}
BY DEF Alone, Threads

\* Before start() nothing is under way.
LEMMA StopInit ==
    ASSUME Alone, IOInit
    PROVE  StopInv
<1>1. pc[Root] = "scan"
  BY OneThread DEF IOInit, Init, Alone
<1> QED BY <1>1 DEF IOInit, Init, StopInv, CallerOut, IdleSteps, Asked

\* What the program and stop() do: stop() returns from its loop only when the timers, the
\* waiting fibers and the queue are gone, and the thread is between two jobs.
LEMMA StopByCaller ==
    ASSUME Alone, IOInv, StopInv,
           IOStart \/ IOSchedule \/ IOStop \/ CallerStep \/ IOOver \/ UNCHANGED ioVars
    PROVE  StopInv'
<1> USE OneThread DEF io, ioButOwed, vars, world, locals, flags, counters, fibers
<1>1. CASE IOStart
  <2>1. pc' = pc
    BY <1>1 DEF IOStart, Start, Alone, IOInv, TypeInv, Typed
  <2> QED BY <1>1, <2>1 DEF IOStart, Start, StopInv, CallerOut, IdleSteps, Asked, Drained
<1>2. CASE IOSchedule
  <2>1. UNCHANGED <<pc, caller, timers, pending, step, batch, check>> /\ caller = "user"
    BY <1>2 DEF IOSchedule, UserBatch, UserSchedule, UserReschedule
  <2> QED BY <2>1 DEF StopInv, CallerOut, IdleSteps, Asked, Drained
<1>3. CASE IOStop
  <2>1. UNCHANGED <<pc, timers, pending, step, batch, check>> /\ caller = "user" /\ caller' = "stop"
    BY <1>3 DEF IOStop, Stop, Alone
  <2> QED BY <2>1 DEF StopInv, CallerOut, IdleSteps, Asked
<1>4. CASE Tickle("caller") \/ IOJoin \/ IOOver \/ UNCHANGED ioVars
  <2>1. /\ UNCHANGED <<pc, timers, pending, step, batch, check, wakers, fresh, ended>>
        /\ caller' = caller \/ (caller = "join" /\ caller' = "returned")
    BY <1>4 DEF Tickle, IOJoin, Join, IOOver, ioVars
  <2> QED BY <2>1 DEF StopInv, CallerOut, IdleSteps, Asked, Drained
<1>5. CASE CallerTimers \/ CallerPending
  <2>1. UNCHANGED <<pc, timers, pending, step, batch>> /\ caller = "stop"
    BY <1>5 DEF CallerTimers, CallerPending, CallerStops
  <2>2. \/ caller' = "run" /\ check' = "out"
        \/ caller' = "stop" /\ check' = "pend" /\ timers = {}
        \/ caller' = "stop" /\ check' = "base" /\ timers = {} /\ pending = 0
    BY <1>5 DEF CallerTimers, CallerPending, CallerStops, StopInv, Asked
  <2> QED BY <2>1, <2>2 DEF StopInv, CallerOut, IdleSteps, Asked
<1>6. CASE CallerBase
  <2>1. /\ UNCHANGED <<pc, timers, pending, step, batch, queue, wakers, fresh, ended>> /\ caller = "stop"
        /\ check = "base" /\ check' = "out" /\ caller' = IF Stopping THEN "join" ELSE "run"
    BY <1>6 DEF CallerBase, CallerStops, StopLoop
  <2>2. CASE ~Stopping
    BY <2>1, <2>2 DEF StopInv, CallerOut, IdleSteps, Asked
  <2>3. CASE Stopping
    <3>1. timers = {} /\ pending = 0 /\ queue = <<>>
      BY <2>1, <2>3 DEF StopInv, Asked, Stopping
    <3>2. pc[Root] \in {"scan", "idleLeft"}
      <4>1. ASSUME pc[Root] = "swapped" PROVE FALSE
        <5>1. {t \in Threads : pc[t] \in Working} = {Root}
          BY <4>1 DEF Working
        <5>2. Cardinality({Root}) = 1
          BY FS_Singleton
        <5>3. active = 0 /\ active = Cardinality({t \in Threads : pc[t] \in Working})
          BY <2>3 DEF Stopping, IOInv, TypeInv, Counted, Count
        <5> QED BY <5>1, <5>2, <5>3
      <4> QED BY <2>1, <4>1 DEF StopInv, CallerOut
    <3>3. step[Root] = "out" /\ batch[Root] = {}
      BY <3>2 DEF StopInv, IdleSteps
    <3>4. wakers = {}
      <4>1. Uncounting = {}
        BY <3>3 DEF Uncounting
      <4>2. Cardinality(wakers) = 0 /\ IsFiniteSet(wakers)
        <5>1. Cardinality(Uncounting) = 0
          BY <4>1, FS_EmptySet
        <5>2. IsFiniteSet(wakers) /\ Cardinality(wakers) \in Nat
          BY FS_CardinalityType DEF IOInv, Counts
        <5> QED BY <3>1, <5>1, <5>2 DEF IOInv, Counts
      <4> QED BY <4>2, FS_EmptySet
    <3>5. Jobs \ (fresh \cup ended) = {}
      <4>1. Tasks(queue) = {}
        BY <3>1 DEF Tasks
      <4>2. \A t \in Threads, j \in Jobs : ~Holds(t, j)
        BY <3>2 DEF Holds
      <4> QED BY <3>4, <4>1, <4>2 DEF IOInv, Ownership, NothingLost
    <3>6. Drained'
      BY <2>1, <3>1, <3>3, <3>4, <3>5 DEF Drained
    <3> QED BY <2>1, <2>3, <3>6 DEF StopInv, CallerOut, IdleSteps, Asked
  <2> QED BY <2>2, <2>3
<1> QED BY <1>1, <1>2, <1>3, <1>4, <1>5, <1>6 DEF CallerStep

\* Time, events and the tickle() calls still owed change nothing stop() relies on.
LEMMA StopByWorld ==
    ASSUME StopInv, NEW t \in Threads,
           Tickle(t) \/ \E j \in Jobs : Elapse(j) \/ EventOccurs(j)
    PROVE  StopInv'
<1>1. UNCHANGED <<pc, caller, timers, pending, step, batch, check, wakers, fresh, ended>>
  BY DEF Tickle, Elapse, EventOccurs, vars, world
<1> QED BY <1>1 DEF StopInv, CallerOut, IdleSteps, Asked, Drained

\* run() outside idle(): it goes back to stop() only off the stack of an ended job.
LEMMA StopByLoop ==
    ASSUME Alone, IOInv, StopInv, NEW t \in Threads,
           \/ IOScan(t) \/ IOLoop(t) \/ IOSettleReady(t) \/ IOJob(t) \/ AddEvent(t)
           \/ \E j \in Jobs : IOSpawn(t, j) \/ AddTimer(t, j)
    PROVE  StopInv'
<1> USE DEF io, ioButOwed, vars, world, locals, flags, counters, fibers
<1>0. t = Root /\ pc \in [Threads -> Locations] /\ Threads = {Root}
  BY OneThread DEF IOInv, TypeInv, Typed
<1>1. caller = "run" /\ pc[t] # "idle"
  BY <1>0 DEF IOScan, TakeTask, FindNothing, IOLoop, SwapInFiber, DropFinished, SwapInCallback, SwapOut,
              Release, SettleFinished, SettleHold, EnterIdle, LeaveIdle, ExitRun, IOSettleReady, SettleReady,
              IOJob, Finish, YieldToReady, AddEvent, YieldToHold, IOSpawn, Spawn, AddTimer, At
<1>2. UNCHANGED <<step, batch, check>>
  BY DEF IOScan, IOLoop, IOSettleReady, IOJob, AddEvent, IOSpawn, AddTimer
<1>3. caller' \in {"run", "exited"} \/ (caller' = "stop" /\ pc'[t] = "swapped")
  <2>1. CASE IOScan(t) \/ IOSettleReady(t) \/ IOJob(t) \/ AddEvent(t)
    BY <1>1, <2>1 DEF IOScan, TakeTask, FindNothing, IOSettleReady, SettleReady, IOJob, Finish,
                      YieldToReady, AddEvent, YieldToHold
  <2>2. CASE \E j \in Jobs : IOSpawn(t, j) \/ AddTimer(t, j)
    BY <1>1, <2>2 DEF IOSpawn, Spawn, AddTimer
  <2>3. CASE IOLoop(t)
    BY <1>0, <1>1, <2>3 DEF IOLoop, SwapInFiber, DropFinished, SwapInCallback, SwapOut, Release,
                            SettleFinished, SettleHold, EnterIdle, LeaveIdle, ExitRun, Goto
  <2> QED BY <2>1, <2>2, <2>3
<1>4. step[Root] = "out" /\ batch[Root] = {} /\ check = "out"
  BY <1>0, <1>1 DEF StopInv, IdleSteps, Asked
<1> QED BY <1>0, <1>2, <1>3, <1>4 DEF StopInv, CallerOut, IdleSteps, Asked

\* idle(): a callback is in the batch only between listExpiredCb() and its scheduling.
LEMMA StopByIdle ==
    ASSUME Alone, IOInv, StopInv, NEW t \in Threads, IOIdle(t)
    PROVE  StopInv'
<1> USE DEF vars, world, locals, flags, counters, fibers
<1>0. /\ t = Root /\ pc \in [Threads -> Locations] /\ Threads = {Root}
      /\ step \in [Threads -> Steps] /\ batch \in [Threads -> SUBSET TimerJobs]
  BY OneThread DEF IOInv, TypeInv, Typed, IOTyped, TimerPlaces
<1>1. caller = "run" /\ pc[t] = "idle"
  BY <1>0 DEF IOIdle, IdleTimers, IdlePending, IdleBase, EpollReturn, EpollTimeout, ListExpired,
              PushExpired, Uncount, IdleDone, TriggerEvent, InIdle, At
<1>2. check' = check /\ check = "out"
  <2>1. check' = check
    BY DEF IOIdle, IdleTimers, IdlePending, IdleBase, EpollReturn, EpollTimeout, ListExpired,
           PushExpired, Uncount, IdleDone, TriggerEvent
  <2> QED BY <1>1, <2>1 DEF StopInv, Asked
<1>3. \/ caller' = "run" /\ pc'[t] = "idle"
      \/ caller' \in {"run", "stop"} /\ pc'[t] = "idleLeft" /\ step'[t] = "out"
  <2>1. CASE IdleTimers(t) \/ IdlePending(t) \/ EpollReturn(t) \/ EpollTimeout(t) \/ ListExpired(t) \/ Uncount(t)
    BY <1>1, <2>1 DEF IdleTimers, IdlePending, EpollReturn, EpollTimeout, ListExpired, Uncount
  <2>2. CASE PushExpired(t) \/ \E j \in Jobs : TriggerEvent(t, j)
    BY <1>1, <2>2 DEF PushExpired, TriggerEvent, Wake
  <2>3. CASE IdleDone(t)
    BY <1>0, <1>1, <2>3 DEF IdleDone, Step, Goto
  <2>4. CASE IdleBase(t)
    BY <1>0, <1>1, <2>4 DEF IdleBase, IdleCheck, Step, Goto
  <2> QED BY <2>1, <2>2, <2>3, <2>4 DEF IOIdle
<1>4. step'[t] # "push" => batch'[t] = {}
  <2>1. CASE ListExpired(t)
    BY <1>0, <2>1 DEF ListExpired, Step
  <2>2. CASE PushExpired(t)
    BY <1>0, <2>2 DEF PushExpired
  <2>3. CASE ~ListExpired(t) /\ ~PushExpired(t)
    <3>1. step[t] # "push" /\ batch' = batch
      BY <2>3 DEF IOIdle, IdleTimers, IdlePending, IdleBase, EpollReturn, EpollTimeout,
                  Uncount, IdleDone, TriggerEvent, InIdle
    <3> QED BY <1>0, <3>1 DEF StopInv, IdleSteps
  <2> QED BY <2>1, <2>2, <2>3
<1> QED BY <1>0, <1>2, <1>3, <1>4 DEF StopInv, CallerOut, IdleSteps, Asked

\* "Waits until all tasks have been executed": when the caller's thread is the only one, stop()
\* returns with no armed timer, no waiting fiber, no expired callback on its way and no
\* unfinished job, although IOManager::stopping() reads the three at different moments.
THEOREM IOStopDrained ==
    ASSUME Alone
    PROVE  IOSpec => []IOStopDrains
<1>1. IOInit => StopInv
  BY StopInit
<1>2. IOInv /\ StopInv /\ [IONext]_ioVars => StopInv'
  <2> SUFFICES ASSUME IOInv, StopInv, [IONext]_ioVars PROVE StopInv'
    OBVIOUS
  <2>1. CASE IOStart \/ IOSchedule \/ IOStop \/ CallerStep \/ IOOver \/ UNCHANGED ioVars
    BY <2>1, StopByCaller
  <2>2. ASSUME NEW t \in Threads, ThreadStep(t)
        PROVE  StopInv'
    BY <2>2, StopByWorld, StopByLoop, StopByIdle DEF ThreadStep
  <2>3. CASE \E j \in Jobs : Elapse(j) \/ EventOccurs(j)
    BY <2>3, OneThread, StopByWorld
  <2> QED BY <2>1, <2>2, <2>3 DEF IONext
<1>3. StopInv => IOStopDrains
  BY DEF StopInv, Drained, IOStopDrains
<1> QED BY <1>1, <1>2, <1>3, IOInvariant, PTL DEF IOSpec
=============================================================================
