----------------------------- MODULE Scheduler -----------------------------
(***************************************************************************)
(* The coroutine scheduler of src/async: Scheduler (scheduler.h,           *)
(* scheduler.cpp) and the fibers it switches between (fiber.cpp), in its   *)
(* base-class form (idle() spins, tickle() only logs).                     *)
(*                                                                         *)
(* A job is a callback or a user's Fiber given to schedule().  A Fiber     *)
(* object is named by the job it carries: Fiber::reset(cb), which hands    *)
(* the object from a finished callback to the next one, renames it.  Each  *)
(* thread that executes run() has a program location; a location is left   *)
(* by one access to state shared with the other threads.                   *)
(*                                                                         *)
(* With UseCaller the thread that built the scheduler runs the loop too,   *)
(* inside stop(): m_rootFiber->call() enters it, and it falls back into    *)
(* stop() whenever a fiber with the MainFuncCaller entry ends on it.       *)
(***************************************************************************)
EXTENDS Integers, Sequences, FiniteSets, Functions

CONSTANTS
    Workers,      \* the threads start() creates (m_threads)
    Root,         \* the thread that constructs the scheduler (m_rootThread)
    UseCaller,    \* the constructor's use_caller
    Callbacks,    \* std::function jobs
    UserFibers,   \* Fiber::ptr jobs the program created
    Batch,        \* the callbacks handed over by one batch schedule(begin, end)
    Spawned,      \* the jobs that running jobs hand over, not the program
    Pin,          \* the thread argument of schedule() for each job, or AnyThread
    HoldJobs,     \* the jobs that may register a waker and YieldToHold
    ReadyJobs,    \* the jobs that may call YieldToReady
    MaxYields,    \* bound: times one job yields
    AnyThread, Nil

Jobs == Callbacks \cup UserFibers
Threads == IF UseCaller THEN Workers \cup {Root} ELSE Workers

ASSUME ThreadsAssumption ==
    /\ IsFiniteSet(Workers) /\ Root \notin Workers /\ UseCaller \in BOOLEAN
    /\ Threads # {}
    /\ AnyThread \notin Threads /\ Nil \notin Jobs

ASSUME JobsAssumption ==
    /\ Callbacks \cap UserFibers = {}
    /\ Batch \in Seq(Callbacks) /\ Spawned \subseteq Callbacks /\ HoldJobs \cup ReadyJobs \subseteq Jobs
    /\ \A i, k \in 1 .. Len(Batch) : i # k => Batch[i] # Batch[k]
    /\ \A i \in 1 .. Len(Batch) : Batch[i] \notin Spawned
    /\ Pin \in [Jobs -> Threads \cup {AnyThread}]
    /\ MaxYields \in Nat

VARIABLES
    queue,      \* m_fibers: sequence of [task, thread]
    active,     \* m_activeThreadCount
    idling,     \* m_idleThreadCount
    mStopping,  \* m_stopping
    autoStop,   \* m_autoStop
    fstate,     \* m_state of the Fiber that carries each job
    entry,      \* the entry function its context was made with
    pc,         \* where each thread is in run()
    ft,         \* run()'s local ft, per thread
    cbFiber,    \* run()'s local cb_fiber, per thread
    idleTerm,   \* run()'s idle_fiber has state TERM
    caller,     \* where the thread that owns the scheduler is
    fresh,      \* jobs not handed to schedule() yet
    wakers,     \* jobs whose resumption something outside has promised
    yields,     \* number of times each job has yielded
    ended       \* jobs whose function has returned or thrown

counters == <<active, idling>>
flags == <<mStopping, autoStop>>
fibers == <<fstate, entry>>
locals == <<ft, cbFiber, idleTerm>>
world == <<fresh, wakers, yields, ended>>
vars == <<queue, counters, flags, fibers, pc, locals, caller, world>>

FiberStates == {"NOFIBER", "INIT", "HOLD", "EXEC", "TERM", "READY", "EXCEPT"}
Finished == {"TERM", "EXCEPT"}
Resettable == {"TERM", "INIT", "EXCEPT"}
Locations == {"unborn", "scan", "dispatch", "exec", "leaving", "swapped", "settle",
              "empty", "idle", "idleLeft", "exited"}
CallerLocations == {"user", "stop", "run", "join", "returned", "exited"}

Task(j) == [task |-> j, thread |-> Pin[j]]
Tasks(q) == {q[i].task : i \in DOMAIN q}

Init ==
    /\ queue = <<>> /\ active = 0 /\ idling = 0
    /\ mStopping = TRUE /\ autoStop = FALSE
    /\ fstate = [j \in Jobs |-> IF j \in UserFibers THEN "INIT" ELSE "NOFIBER"]
    /\ entry = [j \in Jobs |-> "MainFuncCaller"]
    /\ pc = [t \in Threads |-> IF t \in Workers THEN "unborn" ELSE "scan"]
    /\ ft = [t \in Threads |-> Nil]
    /\ cbFiber = [t \in Threads |-> Nil]
    /\ idleTerm = [t \in Threads |-> FALSE]
    /\ caller = "user"
    /\ fresh = Jobs /\ wakers = {} /\ ended = {}
    /\ yields = [j \in Jobs |-> 0]

-----------------------------------------------------------------------------
(* The thread that owns the scheduler, and the program around it.          *)

\* Scheduler::start
Start ==
    /\ caller = "user" /\ mStopping
    /\ mStopping' = FALSE
    /\ pc' = [t \in Threads |-> IF t \in Workers THEN "scan" ELSE pc[t]]
    /\ UNCHANGED <<queue, counters, autoStop, fibers, locals, caller, world>>

\* schedule(fc, thread) called by the program
UserSchedule(j) ==
    /\ caller = "user" /\ j \in fresh \ (Spawned \cup Range(Batch))
    /\ queue' = Append(queue, Task(j))
    /\ fresh' = fresh \ {j}
    /\ UNCHANGED <<counters, flags, fibers, pc, locals, caller, wakers, yields, ended>>

\* schedule(begin, end) called by the program
UserBatch ==
    /\ caller = "user" /\ Batch # <<>> /\ Range(Batch) \subseteq fresh
    /\ queue' = queue \o [i \in 1 .. Len(Batch) |-> [task |-> Batch[i], thread |-> AnyThread]]
    /\ fresh' = fresh \ Range(Batch)
    /\ UNCHANGED <<counters, flags, fibers, pc, locals, caller, wakers, yields, ended>>

\* the program schedules a fiber of its own that has already ended
UserReschedule(j) ==
    /\ caller = "user" /\ j \in UserFibers /\ fstate[j] \in Finished
    /\ yields[j] < MaxYields /\ j \notin Tasks(queue)
    /\ queue' = Append(queue, Task(j))
    /\ yields' = [yields EXCEPT ![j] = @ + 1]
    /\ UNCHANGED <<counters, flags, fibers, pc, locals, caller, fresh, wakers, ended>>

StoppingUnqueued == autoStop /\ mStopping /\ active = 0   \* mutant of Stopping: the queue is not looked at

\* Scheduler::stopping
Stopping == autoStop /\ mStopping /\ queue = <<>> /\ active = 0

StopForgets ==   \* mutant of Stop: m_stopping is not set
    /\ caller = "user" /\ ~mStopping
    /\ autoStop' = TRUE
    /\ caller' = IF UseCaller THEN "stop" ELSE "join"
    /\ UNCHANGED <<queue, counters, mStopping, fibers, pc, locals, world>>

\* Scheduler::stop, up to its loop: the program calls it once, after start()
Stop ==
    /\ caller = "user" /\ ~mStopping
    /\ autoStop' = TRUE /\ mStopping' = TRUE
    /\ caller' = IF UseCaller THEN "stop" ELSE "join"
    /\ UNCHANGED <<queue, counters, fibers, pc, locals, world>>

\* stop()'s loop: while (!stopping()) m_rootFiber->call()
StopLoop ==
    /\ caller = "stop"
    /\ caller' = IF Stopping THEN "join" ELSE "run"
    /\ UNCHANGED <<queue, counters, flags, fibers, pc, locals, world>>

JoinFirst ==   \* mutant of Join: one thread is enough
    /\ caller = "join" /\ \E t \in Workers : pc[t] = "exited"
    /\ caller' = "returned"
    /\ UNCHANGED <<queue, counters, flags, fibers, pc, locals, world>>

\* stop() joins every thread start() created
Join ==
    /\ caller = "join" /\ \A t \in Workers : pc[t] = "exited"
    /\ caller' = "returned"
    /\ UNCHANGED <<queue, counters, flags, fibers, pc, locals, world>>

WakeKeepsPromise(j) ==   \* mutant of Wake: the waker can fire again
    /\ j \in wakers /\ caller # "exited"
    /\ queue' = Append(queue, [task |-> j, thread |-> AnyThread])
    /\ UNCHANGED <<counters, flags, fibers, pc, locals, caller, world>>

\* whatever a job registered with (an event, a timer) schedules its fiber
Wake(j) ==
    /\ j \in wakers /\ caller # "exited"
    /\ wakers' = wakers \ {j}
    /\ queue' = Append(queue, [task |-> j, thread |-> AnyThread])
    /\ UNCHANGED <<counters, flags, fibers, pc, locals, caller, fresh, yields, ended>>

-----------------------------------------------------------------------------
(* Scheduler::run on thread t.                                             *)

\* t is at loc and may move: Root only moves while stop() is inside call()
At(t, loc) == pc[t] = loc /\ caller # "exited" /\ (t = Root => caller = "run")

Goto(t, loc) == pc' = [pc EXCEPT ![t] = loc]

EligibleInExec(t, e) == e.thread \in {AnyThread, t}   \* mutant of Eligible: no test for EXEC

\* run() may take this queue entry: not another thread's, not a fiber still in EXEC
Eligible(t, e) == e.thread \in {AnyThread, t} /\ fstate[e.task] # "EXEC"

EraseNothing(s, i) == s   \* mutant of Erase

\* m_fibers.erase(it)
Erase(s, i) == [k \in 1 .. Len(s) - 1 |-> IF k < i THEN s[k] ELSE s[k + 1]]

\* the scan under m_mutex finds the first task this thread may run
TakeTask(t) ==
    /\ At(t, "scan")
    /\ \E i \in DOMAIN queue :
        /\ Eligible(t, queue[i])
        /\ \A k \in 1 .. i - 1 : ~Eligible(t, queue[k])
        /\ ft' = [ft EXCEPT ![t] = queue[i].task]
        /\ queue' = Erase(queue, i)
    /\ active' = active + 1
    /\ Goto(t, "dispatch")
    /\ UNCHANGED <<idling, flags, fibers, cbFiber, idleTerm, caller, world>>

\* the scan finds no task for this thread
FindNothing(t) ==
    /\ At(t, "scan")
    /\ \A i \in DOMAIN queue : ~Eligible(t, queue[i])
    /\ Goto(t, "empty")
    /\ UNCHANGED <<queue, counters, flags, fibers, locals, caller, world>>

\* the task is a fiber that can go on: ft.fiber->swapIn()
SwapInFiber(t) ==
    /\ At(t, "dispatch") /\ fstate[ft[t]] \notin Finished \cup {"NOFIBER"}
    /\ fstate' = [fstate EXCEPT ![ft[t]] = "EXEC"]
    /\ Goto(t, "exec")
    /\ UNCHANGED <<queue, counters, flags, entry, locals, caller, world>>

DropUncounted(t) ==   \* mutant of DropFinished: continue without --m_activeThreadCount
    /\ At(t, "dispatch") /\ fstate[ft[t]] \in Finished
    /\ ft' = [ft EXCEPT ![t] = Nil]
    /\ Goto(t, "scan")
    /\ UNCHANGED <<queue, counters, flags, fibers, cbFiber, idleTerm, caller, world>>

\* the task is a fiber that has ended: is_active, so only the count goes down
DropFinished(t) ==
    /\ At(t, "dispatch") /\ fstate[ft[t]] \in Finished
    /\ active' = active - 1
    /\ ft' = [ft EXCEPT ![t] = Nil]
    /\ Goto(t, "scan")
    /\ UNCHANGED <<queue, idling, flags, fibers, cbFiber, idleTerm, caller, world>>

\* the task is a callback: cb_fiber is reset to it or created for it, and entered
SwapInCallback(t) ==
    /\ At(t, "dispatch") /\ fstate[ft[t]] = "NOFIBER"
    /\ fstate' = [j \in Jobs |-> IF j = ft[t] THEN "EXEC"
                                 ELSE IF j = cbFiber[t] THEN "NOFIBER" ELSE fstate[j]]
    /\ entry' = [entry EXCEPT ![ft[t]] = IF cbFiber[t] = Nil THEN "MainFuncCaller"
                                                              ELSE "MainFunc"]
    /\ cbFiber' = [cbFiber EXCEPT ![t] = ft[t]]
    /\ ft' = [ft EXCEPT ![t] = Nil]
    /\ Goto(t, "exec")
    /\ UNCHANGED <<queue, counters, flags, idleTerm, caller, world>>

\* the job on thread t once it has been entered: ft.fiber, or cb_fiber after ft.reset()
Running(t) == IF ft[t] # Nil THEN ft[t] ELSE cbFiber[t]

\* the job hands over another job
Spawn(t, j) ==
    /\ At(t, "exec") /\ j \in fresh \cap Spawned
    /\ queue' = Append(queue, Task(j))
    /\ fresh' = fresh \ {j}
    /\ UNCHANGED <<counters, flags, fibers, pc, locals, caller, wakers, yields, ended>>

\* the job registers its own fiber to be woken, then calls YieldToHold
YieldToHold(t) ==
    /\ At(t, "exec") /\ Running(t) \in HoldJobs /\ yields[Running(t)] < MaxYields
    /\ wakers' = wakers \cup {Running(t)}
    /\ yields' = [yields EXCEPT ![Running(t)] = @ + 1]
    /\ Goto(t, "leaving")
    /\ UNCHANGED <<queue, counters, flags, fibers, locals, caller, fresh, ended>>

\* Fiber::YieldToReady, up to its swapOut
YieldToReady(t) ==
    /\ At(t, "exec") /\ Running(t) \in ReadyJobs /\ yields[Running(t)] < MaxYields
    /\ fstate' = [fstate EXCEPT ![Running(t)] = "READY"]
    /\ yields' = [yields EXCEPT ![Running(t)] = @ + 1]
    /\ Goto(t, "leaving")
    /\ UNCHANGED <<queue, counters, flags, entry, locals, caller, fresh, wakers, ended>>

\* the job returns or throws: MainFunc and MainFuncCaller, up to their switch
Finish(t) ==
    /\ At(t, "exec")
    /\ \E s \in Finished : fstate' = [fstate EXCEPT ![Running(t)] = s]
    /\ ended' = ended \cup {Running(t)}
    /\ Goto(t, "leaving")
    /\ UNCHANGED <<queue, counters, flags, entry, locals, caller, fresh, wakers, yields>>

\* uncall() leaves for the thread's main fiber, which on Root is stop()'s loop
ReturnsToStop(t) ==
    t = Root /\ fstate[Running(t)] \in Finished /\ entry[Running(t)] = "MainFuncCaller"

\* swapOut() or uncall(): the thread is off the job's stack
SwapOut(t) ==
    /\ At(t, "leaving")
    /\ caller' = IF ReturnsToStop(t) THEN "stop" ELSE caller
    /\ Goto(t, "swapped")
    /\ UNCHANGED <<queue, counters, flags, fibers, locals, world>>

\* --m_activeThreadCount after swapIn()
Release(t) ==
    /\ At(t, "swapped")
    /\ active' = active - 1
    /\ Goto(t, "settle")
    /\ UNCHANGED <<queue, idling, flags, fibers, locals, caller, world>>

SettleReadyDropped(t) ==   \* mutant of SettleReady: READY is treated like HOLD
    /\ At(t, "settle") /\ fstate[Running(t)] = "READY"
    /\ fstate' = [fstate EXCEPT ![Running(t)] = "HOLD"]
    /\ cbFiber' = IF ft[t] = Nil THEN [cbFiber EXCEPT ![t] = Nil] ELSE cbFiber
    /\ ft' = [ft EXCEPT ![t] = Nil]
    /\ Goto(t, "scan")
    /\ UNCHANGED <<queue, counters, flags, entry, idleTerm, caller, world>>

\* a fiber left in READY goes back to the queue, for any thread
SettleReady(t) ==
    /\ At(t, "settle") /\ fstate[Running(t)] = "READY"
    /\ queue' = Append(queue, [task |-> Running(t), thread |-> AnyThread])
    /\ cbFiber' = IF ft[t] = Nil THEN [cbFiber EXCEPT ![t] = Nil] ELSE cbFiber
    /\ ft' = [ft EXCEPT ![t] = Nil]
    /\ Goto(t, "scan")
    /\ UNCHANGED <<counters, flags, fibers, idleTerm, caller, world>>

\* an ended fiber is let go; an ended callback's fiber is kept for the next callback
SettleFinished(t) ==
    /\ At(t, "settle") /\ fstate[Running(t)] \in Finished
    /\ fstate' = IF ft[t] = Nil THEN [fstate EXCEPT ![cbFiber[t]] = "INIT"] ELSE fstate
    /\ ft' = [ft EXCEPT ![t] = Nil]
    /\ Goto(t, "scan")
    /\ UNCHANGED <<queue, counters, flags, entry, cbFiber, idleTerm, caller, world>>

SettleHoldKeeps(t) ==   \* mutant of SettleHold: cb_fiber.reset() is missing
    /\ At(t, "settle") /\ fstate[Running(t)] \notin Finished \cup {"READY"}
    /\ fstate' = [fstate EXCEPT ![Running(t)] = "HOLD"]
    /\ ft' = [ft EXCEPT ![t] = Nil]
    /\ Goto(t, "scan")
    /\ UNCHANGED <<queue, counters, flags, entry, cbFiber, idleTerm, caller, world>>

\* a fiber still in EXEC has yielded to hold: only now may another thread resume it
SettleHold(t) ==
    /\ At(t, "settle") /\ fstate[Running(t)] \notin Finished \cup {"READY"}
    /\ fstate' = [fstate EXCEPT ![Running(t)] = "HOLD"]
    /\ cbFiber' = IF ft[t] = Nil THEN [cbFiber EXCEPT ![t] = Nil] ELSE cbFiber
    /\ ft' = [ft EXCEPT ![t] = Nil]
    /\ Goto(t, "scan")
    /\ UNCHANGED <<queue, counters, flags, entry, idleTerm, caller, world>>

\* nothing to do: enter the idle fiber
EnterIdle(t) ==
    /\ At(t, "empty") /\ ~idleTerm[t]
    /\ idling' = idling + 1
    /\ Goto(t, "idle")
    /\ UNCHANGED <<queue, active, flags, fibers, locals, caller, world>>

\* Scheduler::idle: yield, or end when stopping(); the idle fiber has the
\* MainFuncCaller entry, so ending it on Root goes back to stop()
IdleCheck(t) ==
    /\ At(t, "idle")
    /\ idleTerm' = [idleTerm EXCEPT ![t] = Stopping]
    /\ caller' = IF t = Root /\ Stopping THEN "stop" ELSE caller
    /\ Goto(t, "idleLeft")
    /\ UNCHANGED <<queue, counters, flags, fibers, ft, cbFiber, world>>

LeaveIdleActive(t) ==   \* mutant of LeaveIdle: the wrong counter goes down
    /\ At(t, "idleLeft")
    /\ active' = active - 1
    /\ Goto(t, "scan")
    /\ UNCHANGED <<queue, idling, flags, fibers, locals, caller, world>>

\* --m_idleThreadCount after swapIn()
LeaveIdle(t) ==
    /\ At(t, "idleLeft")
    /\ idling' = idling - 1
    /\ Goto(t, "scan")
    /\ UNCHANGED <<queue, active, flags, fibers, locals, caller, world>>

\* run() returns.  A worker thread ends.  On Root the root fiber's MainFunc swaps
\* out to itself and returns with no uc_link, so the C library calls exit()
ExitRun(t) ==
    /\ At(t, "empty") /\ idleTerm[t]
    /\ Goto(t, "exited")
    /\ caller' = IF t = Root THEN "exited" ELSE caller
    /\ UNCHANGED <<queue, counters, flags, fibers, locals, world>>

-----------------------------------------------------------------------------
Job(t) == Finish(t) \/ YieldToHold(t) \/ YieldToReady(t) \/ \E j \in Jobs : Spawn(t, j)

Loop(t) ==
    \/ TakeTask(t) \/ FindNothing(t)
    \/ SwapInFiber(t) \/ DropFinished(t) \/ SwapInCallback(t)
    \/ SwapOut(t) \/ Release(t)
    \/ SettleReady(t) \/ SettleFinished(t) \/ SettleHold(t)
    \/ EnterIdle(t) \/ IdleCheck(t) \/ LeaveIdle(t) \/ ExitRun(t)

Program ==
    \/ Start \/ UserBatch \/ Stop \/ StopLoop \/ Join
    \/ \E j \in Jobs : UserSchedule(j) \/ UserReschedule(j)

\* nothing is left to run: the process has exited, or stop() has returned
Over ==
    /\ caller = "exited" \/ (caller = "returned" /\ wakers = {})
    /\ UNCHANGED vars

Next ==
    \/ Program
    \/ \E j \in Jobs : Wake(j)
    \/ \E t \in Threads : Job(t) \/ Loop(t)
    \/ Over

Spec == Init /\ [][Next]_vars

\* The program calls start(), every thread the system runs makes progress, jobs
\* do not run for ever, and whatever promised to wake a fiber does so.
Fairness ==
    /\ \A t \in Threads : WF_vars(Job(t) \/ Loop(t))
    /\ \A j \in Jobs : WF_vars(Wake(j))
    /\ WF_vars(Start) /\ WF_vars(StopLoop \/ Join)

FairSpec == Spec /\ Fairness

-----------------------------------------------------------------------------
(* Properties.                                                             *)

\* Every variable stays in its type.
TypeOK ==
    /\ queue \in Seq([task : Jobs, thread : Threads \cup {AnyThread}])
    /\ active \in Nat /\ idling \in Nat
    /\ mStopping \in BOOLEAN /\ autoStop \in BOOLEAN
    /\ fstate \in [Jobs -> FiberStates]
    /\ entry \in [Jobs -> {"MainFunc", "MainFuncCaller"}]
    /\ pc \in [Threads -> Locations]
    /\ ft \in [Threads -> Jobs \cup {Nil}]
    /\ cbFiber \in [Threads -> Jobs \cup {Nil}]
    /\ idleTerm \in [Threads -> BOOLEAN]
    /\ caller \in CallerLocations
    /\ fresh \subseteq Jobs /\ wakers \subseteq Jobs /\ ended \subseteq Jobs
    /\ yields \in [Jobs -> 0 .. MaxYields]

\* stopping() trusts the two counters: m_activeThreadCount is exactly the number
\* of threads between taking a task and releasing it, on every path of run(),
\* and m_idleThreadCount the number inside the idle fiber.
CountersExact ==
    /\ active = Cardinality({t \in Threads :
                                pc[t] \in {"dispatch", "exec", "leaving", "swapped"}})
    /\ idling = Cardinality({t \in Threads : pc[t] \in {"idle", "idleLeft"}})

OnStack(t) == pc[t] \in {"exec", "leaving"}

\* No two threads are on one fiber's stack.  The danger is a waker that schedules
\* a fiber after it registered and before it has switched out.
FiberMutex ==
    \A t, u \in Threads :
        t # u /\ OnStack(t) /\ OnStack(u) => Running(t) # Running(u)

\* The ASSERTs of swapIn() and Fiber::reset() hold wherever run() is about to
\* reach them: no fiber is entered twice, no suspended callback's fiber is reused.
AssertsHold ==
    \A t \in Threads : pc[t] = "dispatch" =>
        /\ fstate[ft[t]] # "EXEC"
        /\ fstate[ft[t]] = "NOFIBER" /\ cbFiber[t] # Nil => fstate[cbFiber[t]] \in Resettable

\* thread t owns the next step of job j: it took the job and has not yielded it to a waker
Holds(t, j) ==
    \/ pc[t] = "dispatch" /\ ft[t] = j
    \/ pc[t] = "exec" /\ Running(t) = j
    \/ pc[t] \in {"leaving", "swapped", "settle"} /\ Running(t) = j /\ fstate[j] = "READY"

\* A job that was accepted and has not ended is never dropped: it is in the
\* queue, a thread owns its next step, or a waker will schedule it.
NothingLost ==
    \A j \in Jobs \ (fresh \cup ended) :
        j \in Tasks(queue) \cup wakers \/ \E t \in Threads : Holds(t, j)

\* ... and only one of them does, once: no job is resumed twice for one yield,
\* and a callback that has ended is never run again.
ClaimedOnce ==
    /\ \A i, k \in DOMAIN queue : i # k => queue[i].task # queue[k].task
    /\ wakers \cap Tasks(queue) = {}
    /\ \A t \in Threads, j \in Jobs \ ended : Holds(t, j) =>
          /\ j \notin Tasks(queue) \cup wakers
          /\ \A u \in Threads : Holds(u, j) => u = t
    /\ ended \cap Callbacks \cap (Tasks(queue) \cup wakers) = {}

\* stop() "waits until all tasks have been executed, then stops the thread pool":
\* once it has returned, or the process has exited, the only unfinished
\* jobs are those suspended on something outside the scheduler.
StopDrains ==
    caller \in {"returned", "exited"} =>
        \A j \in Jobs \ (fresh \cup ended) : fstate[j] = "HOLD"

Status(j) ==
    IF j \in fresh THEN "new"
    ELSE IF j \in ended THEN "done"
    ELSE IF j \in wakers THEN "suspended"
    ELSE IF \E t \in Threads : pc[t] = "exec" /\ Running(t) = j THEN "running"
    ELSE "waiting"

Pool == INSTANCE JobPool WITH status <- [j \in Jobs |-> Status(j)]

\* Every step of the scheduler is a step of the job pool or leaves it alone.
PoolSteps == Pool!Safety

\* The scheduler implements the job pool, its promise to begin every accepted
\* job and to resume every suspended one included.
ImplementsPool == Pool!Spec

\* stop() returns: every thread leaves run() and is joined.
StopReturns == (caller \in {"stop", "run", "join"}) ~> (caller = "returned")
=============================================================================
