----------------------------- MODULE IOManager -----------------------------
(***************************************************************************)
(* IOManager (src/async/iomanager.cpp): the Scheduler whose idle fiber     *)
(* waits in epoll_wait for timers, descriptor events and the tickle pipe,  *)
(* and whose stopping() also asks the timers and the pending events.       *)
(*                                                                         *)
(* The threads of Scheduler move as before; tickle() is now a write to the *)
(* pipe made after the queue's mutex is released, and idle() is a sequence *)
(* of steps.  Timers and events are reduced to what the scheduler sees of  *)
(* them: TimerManager and FdEvents model their inside.                     *)
(***************************************************************************)
EXTENDS Scheduler

CONSTANT TimerJobs   \* spawned callbacks that are handed to addTimer, not to schedule

ASSUME TimerJobsAssumption == TimerJobs \subseteq Spawned

VARIABLES
    timers,    \* m_timers
    due,       \* the timers whose time has come
    tickled,   \* m_tickled
    pending,   \* m_pendingEventCount
    edges,     \* waiting fibers whose event has an edge epoll_wait has not returned
    bell,      \* the same for the tickle pipe
    owed,      \* tickle() calls each actor has decided on and not made
    step,      \* where each thread is in idle()
    sees,      \* the timers its getNextTimer() saw
    rung,      \* its epoll_wait returned the pipe
    got,       \* the events its epoll_wait returned and it has not processed
    batch,     \* callbacks its listExpiredCb() took and it has not scheduled
    check      \* where the caller is in the stopping() of stop()'s loop

io == <<timers, due, tickled, pending, edges, bell, owed, step, sees, rung, got, batch, check>>
ioVars == <<vars, io>>

Actors == Threads \cup {"caller"}
Steps == {"out", "pend", "base", "poll", "expire", "push", "events", "uncount"}

IOInit ==
    /\ Init
    /\ timers = {} /\ due = {} /\ tickled = FALSE
    /\ pending = 0 /\ edges = {} /\ bell = FALSE
    /\ owed = [a \in Actors |-> 0]
    /\ step = [t \in Threads |-> "out"]
    /\ sees = [t \in Threads |-> {}] /\ rung = [t \in Threads |-> FALSE]
    /\ got = [t \in Threads |-> {}] /\ batch = [t \in Threads |-> {}]
    /\ check = "out"

Free(a) == owed[a] = 0
Owe(a, n) == owed' = [owed EXCEPT ![a] = @ + n]
OweIf(a, cond) == Owe(a, IF cond THEN 1 ELSE 0)

\* schedule()'s need_tickle: the queue was empty before the push
NeedTickle == queue = <<>>

\* the scan passed over a task of another thread: tickle_me
TickleMe(t) ==
    \E k \in DOMAIN queue :
        /\ queue[k].thread \notin {AnyThread, t}
        /\ \A i \in 1 .. k : ~Eligible(t, queue[i])

-----------------------------------------------------------------------------
(* tickle()                                                                *)

\* IOManager::tickle: nothing is written when no thread is idle
Tickle(a) ==
    /\ owed[a] > 0 /\ caller # "exited"
    /\ Owe(a, -1)
    /\ bell' = (bell \/ idling > 0)
    /\ UNCHANGED <<vars, timers, due, tickled, pending, edges, step, sees, rung, got, batch, check>>

-----------------------------------------------------------------------------
(* The program.                                                            *)

ioButOwed == <<timers, due, tickled, pending, edges, bell, step, sees, rung, got, batch, check>>

IOSchedule ==
    /\ Free("caller")
    /\ UserBatch \/ \E j \in Jobs : UserSchedule(j) \/ UserReschedule(j)
    /\ OweIf("caller", NeedTickle)
    /\ UNCHANGED ioButOwed

\* the constructor calls start()
IOStart == Start /\ Free("caller") /\ UNCHANGED io

\* stop() tickles once per thread, the caller's own included
IOStop ==
    /\ Free("caller") /\ Stop
    /\ Owe("caller", Cardinality(Threads))
    /\ UNCHANGED ioButOwed

\* stopping() in stop()'s loop: getNextTimer, then the count, then the base class
CallerStops(loc) ==
    /\ Free("caller") /\ caller = "stop" /\ check = loc

CallerTimers ==
    /\ CallerStops("out")
    /\ tickled' = FALSE
    /\ IF timers = {} THEN check' = "pend" /\ UNCHANGED caller
                      ELSE check' = "out" /\ caller' = "run"
    /\ UNCHANGED <<queue, counters, flags, fibers, pc, locals, world,
                   timers, due, pending, edges, bell, owed, step, sees, rung, got, batch>>

CallerPending ==
    /\ CallerStops("pend")
    /\ IF pending = 0 THEN check' = "base" /\ UNCHANGED caller
                      ELSE check' = "out" /\ caller' = "run"
    /\ UNCHANGED <<queue, counters, flags, fibers, pc, locals, world,
                   timers, due, tickled, pending, edges, bell, owed, step, sees, rung, got, batch>>

CallerBase ==
    /\ CallerStops("base") /\ StopLoop
    /\ check' = "out"
    /\ UNCHANGED <<timers, due, tickled, pending, edges, bell, owed, step, sees, rung, got, batch>>

IOJoin == Join /\ Free("caller") /\ UNCHANGED io

-----------------------------------------------------------------------------
(* run() on thread t, outside the idle fiber.                              *)

IOScan(t) ==
    /\ Free(t) /\ (TakeTask(t) \/ FindNothing(t))
    /\ OweIf(t, TickleMe(t))
    /\ UNCHANGED ioButOwed

IOLoop(t) ==
    /\ Free(t)
    /\ \/ SwapInFiber(t) \/ DropFinished(t) \/ SwapInCallback(t) \/ SwapOut(t) \/ Release(t)
       \/ SettleFinished(t) \/ SettleHold(t) \/ EnterIdle(t) \/ LeaveIdle(t) \/ ExitRun(t)
    /\ UNCHANGED io

IOSettleReady(t) ==
    /\ Free(t) /\ SettleReady(t)
    /\ OweIf(t, NeedTickle)
    /\ UNCHANGED ioButOwed

\* the running job ends or gives way
IOJob(t) ==
    /\ Free(t) /\ (Finish(t) \/ YieldToReady(t))
    /\ UNCHANGED io

IOSpawn(t, j) ==
    /\ Free(t) /\ j \notin TimerJobs /\ Spawn(t, j)
    /\ OweIf(t, NeedTickle)
    /\ UNCHANGED ioButOwed

\* the running job arms a timer; whether it comes in first depends on its time
AddTimer(t, j) ==
    /\ Free(t) /\ At(t, "exec")
    /\ j \in (fresh \cap TimerJobs) \ timers /\ \A u \in Threads : j \notin batch[u]
    /\ timers' = timers \cup {j}
    /\ \E first \in BOOLEAN :
        /\ timers = {} => first
        /\ tickled' = (tickled \/ first)
        /\ OweIf(t, first /\ ~tickled)
    /\ UNCHANGED <<vars, due, pending, edges, bell, step, sees, rung, got, batch, check>>

\* the running fiber waits for an event: addEvent, then YieldToHold
AddEvent(t) ==
    /\ Free(t) /\ YieldToHold(t)
    /\ pending' = pending + 1
    /\ UNCHANGED <<timers, due, tickled, edges, bell, owed, step, sees, rung, got, batch, check>>

-----------------------------------------------------------------------------
(* IOManager::idle on thread t.                                            *)

InIdle(t, s) == At(t, "idle") /\ Free(t) /\ step[t] = s
Step(t, s) == step' = [step EXCEPT ![t] = s]

\* stopping(next_timeout), first getNextTimer
IdleTimers(t) ==
    /\ InIdle(t, "out")
    /\ tickled' = FALSE
    /\ sees' = [sees EXCEPT ![t] = timers]
    /\ Step(t, IF timers = {} THEN "pend" ELSE "poll")
    /\ UNCHANGED <<vars, timers, due, pending, edges, bell, owed, rung, got, batch, check>>

\* then m_pendingEventCount
IdlePending(t) ==
    /\ InIdle(t, "pend")
    /\ Step(t, IF pending = 0 THEN "base" ELSE "poll")
    /\ UNCHANGED <<vars, timers, due, tickled, pending, edges, bell, owed, sees, rung, got, batch, check>>

\* then Scheduler::stopping(): the idle fiber ends, or goes to epoll_wait
IdleBase(t) ==
    /\ InIdle(t, "base")
    /\ IF Stopping THEN IdleCheck(t) /\ Step(t, "out")
                   ELSE UNCHANGED vars /\ Step(t, "poll")
    /\ UNCHANGED <<timers, due, tickled, pending, edges, bell, owed, sees, rung, got, batch, check>>

Woken(t) == bell \/ edges # {} \/ sees[t] \cap due # {}

\* epoll_wait returns: the pipe, events, or the first timer's time
EpollReturn(t) ==
    /\ InIdle(t, "poll") /\ Woken(t)
    /\ rung' = [rung EXCEPT ![t] = bell]
    /\ bell' = FALSE
    /\ got' = [got EXCEPT ![t] = edges]
    /\ edges' = {}
    /\ Step(t, "expire")
    /\ UNCHANGED <<vars, timers, due, tickled, pending, owed, sees, batch, check>>

EpollNoLimit(t) ==   \* mutant of EpollTimeout: without a timer epoll_wait waits for ever
    /\ InIdle(t, "poll") /\ ~Woken(t) /\ sees[t] # {}
    /\ Step(t, "expire")
    /\ UNCHANGED <<vars, timers, due, tickled, pending, edges, bell, owed, sees, rung, got, batch, check>>

\* epoll_wait returns after MAX_TIMEOUT
EpollTimeout(t) ==
    /\ InIdle(t, "poll") /\ ~Woken(t)
    /\ Step(t, "expire")
    /\ UNCHANGED <<vars, timers, due, tickled, pending, edges, bell, owed, sees, rung, got, batch, check>>

ListExpiredDrops(t) ==   \* mutant of ListExpired: the callbacks are not handed on
    /\ InIdle(t, "expire")
    /\ timers' = timers \ due /\ due' = {}
    /\ sees' = [sees EXCEPT ![t] = {}]
    /\ Step(t, "events")
    /\ UNCHANGED <<vars, tickled, pending, edges, bell, owed, rung, got, batch, check>>

\* listExpiredCb
ListExpired(t) ==
    /\ InIdle(t, "expire")
    /\ batch' = [batch EXCEPT ![t] = due]
    /\ timers' = timers \ due /\ due' = {}
    /\ sees' = [sees EXCEPT ![t] = {}]
    /\ Step(t, IF due = {} THEN "events" ELSE "push")
    /\ UNCHANGED <<vars, tickled, pending, edges, bell, owed, rung, got, check>>

\* the expired callbacks are scheduled as one batch
PushExpired(t) ==
    /\ InIdle(t, "push")
    /\ \E s \in [1 .. Cardinality(batch[t]) -> batch[t]] :
        /\ Range(s) = batch[t]
        /\ queue' = queue \o [i \in DOMAIN s |-> [task |-> s[i], thread |-> AnyThread]]
    /\ fresh' = fresh \ batch[t]
    /\ batch' = [batch EXCEPT ![t] = {}]
    /\ OweIf(t, NeedTickle)
    /\ Step(t, "events")
    /\ UNCHANGED <<counters, flags, fibers, pc, locals, caller, wakers, yields, ended,
                   timers, due, tickled, pending, edges, bell, sees, rung, got, check>>

TriggerUncounted(t, j) ==   \* mutant of TriggerEvent: --m_pendingEventCount never follows
    /\ InIdle(t, "events") /\ j \in got[t]
    /\ got' = [got EXCEPT ![t] = @ \ {j}]
    /\ Wake(j)
    /\ OweIf(t, NeedTickle)
    /\ UNCHANGED <<timers, due, tickled, pending, edges, bell, step, sees, rung, batch, check>>

\* triggerEvent: the waiting fiber is scheduled
TriggerEvent(t, j) ==
    /\ InIdle(t, "events") /\ j \in got[t]
    /\ got' = [got EXCEPT ![t] = @ \ {j}]
    /\ Wake(j)
    /\ OweIf(t, NeedTickle)
    /\ Step(t, "uncount")
    /\ UNCHANGED <<timers, due, tickled, pending, edges, bell, sees, rung, batch, check>>

\* --m_pendingEventCount
Uncount(t) ==
    /\ InIdle(t, "uncount")
    /\ pending' = pending - 1
    /\ Step(t, "events")
    /\ UNCHANGED <<vars, timers, due, tickled, edges, bell, owed, sees, rung, got, batch, check>>

\* the pipe is emptied if it was returned, and the idle fiber swaps out
IdleDone(t) ==
    /\ InIdle(t, "events") /\ got[t] = {}
    /\ bell' = (bell /\ ~rung[t])
    /\ rung' = [rung EXCEPT ![t] = FALSE]
    /\ Step(t, "out")
    /\ Goto(t, "idleLeft")
    /\ UNCHANGED <<queue, counters, flags, fibers, locals, caller, world,
                   timers, due, tickled, pending, edges, owed, sees, got, batch, check>>

IOIdle(t) ==
    \/ IdleTimers(t) \/ IdlePending(t) \/ IdleBase(t) \/ EpollReturn(t) \/ EpollTimeout(t)
    \/ ListExpired(t) \/ PushExpired(t) \/ Uncount(t) \/ IdleDone(t)
    \/ \E j \in Jobs : TriggerEvent(t, j)

-----------------------------------------------------------------------------
(* The world.                                                              *)

Elapse(j) ==
    /\ j \in timers \ due /\ caller # "exited"
    /\ due' = due \cup {j}
    /\ UNCHANGED <<vars, timers, tickled, pending, edges, bell, owed, step, sees, rung, got, batch, check>>

EventOccurs(j) ==
    /\ j \in wakers \ edges /\ caller # "exited" /\ \A t \in Threads : j \notin got[t]
    /\ edges' = edges \cup {j}
    /\ UNCHANGED <<vars, timers, due, tickled, pending, bell, owed, step, sees, rung, got, batch, check>>

IOOver ==
    /\ caller \in {"returned", "exited"}
    /\ UNCHANGED ioVars

-----------------------------------------------------------------------------
ThreadStep(t) ==
    \/ Tickle(t) \/ IOScan(t) \/ IOLoop(t) \/ IOSettleReady(t) \/ IOJob(t) \/ IOIdle(t)
    \/ AddEvent(t) \/ \E j \in Jobs : IOSpawn(t, j) \/ AddTimer(t, j)

CallerStep ==
    \/ Tickle("caller") \/ CallerTimers \/ CallerPending \/ CallerBase \/ IOJoin

IONext ==
    \/ IOStart \/ IOSchedule \/ IOStop \/ CallerStep
    \/ \E t \in Threads : ThreadStep(t)
    \/ \E j \in Jobs : Elapse(j) \/ EventOccurs(j)
    \/ IOOver

IOSpec == IOInit /\ [][IONext]_ioVars

\* threads run, the constructor calls start(), time passes and events occur
IOFairSpec ==
    /\ IOSpec
    /\ \A t \in Threads : WF_ioVars(ThreadStep(t))
    /\ WF_ioVars(IOStart) /\ WF_ioVars(CallerStep)
    /\ \A j \in Jobs : WF_ioVars(Elapse(j)) /\ WF_ioVars(EventOccurs(j))

\* ~IOManager calls stop(), without which a lone caller thread runs nothing
IOStoppedSpec == IOFairSpec /\ WF_ioVars(IOStop)

-----------------------------------------------------------------------------
(* Properties.                                                             *)

\* Every variable stays in its type.
IOTypeOK ==
    /\ TypeOK
    /\ timers \subseteq TimerJobs /\ due \subseteq timers
    /\ tickled \in BOOLEAN /\ bell \in BOOLEAN
    /\ pending \in Nat /\ edges \subseteq Jobs
    /\ owed \in [Actors -> Nat]
    /\ step \in [Threads -> Steps]
    /\ sees \in [Threads -> SUBSET TimerJobs] /\ batch \in [Threads -> SUBSET TimerJobs]
    /\ rung \in [Threads -> BOOLEAN] /\ got \in [Threads -> SUBSET Jobs]
    /\ check \in {"out", "pend", "base"}

\* m_pendingEventCount is never below the number of fibers that wait for an
\* event: it goes down only after the fiber is back in the queue, so stopping()
\* cannot see a moment in which a fiber is counted by neither.
PendingCovers == pending = Cardinality(wakers) + Cardinality({t \in Threads : step[t] = "uncount"})

\* The count of waiting fibers, and every variable in its type.
WaitersCovered == IOTypeOK /\ PendingCovers

\* stop() "waits until all tasks have been executed": when it has returned there is
\* no armed timer, no waiting fiber and no unfinished job.
IOStopDrains ==
    caller = "returned" =>
        /\ timers = {} /\ wakers = {} /\ \A t \in Threads : batch[t] = {}
        /\ Jobs \ (fresh \cup ended) = {}

\* Until stop() is called, every armed timer is handed to the scheduler once its time
\* has come, whichever thread is asleep and whatever wake-ups the pipe loses.
TimersFire == \A j \in TimerJobs : j \in timers ~> (j \notin fresh \/ autoStop)

\* Until stop() is called, a queue with tasks is emptied: every accepted job gets a
\* thread, although tickle() writes nothing when it sees no idle thread and a
\* written edge may be used up by a thread that finds nothing.
QueueServed == queue # <<>> ~> (queue = <<>> \/ autoStop)
=============================================================================
