---------------------------- MODULE TimerManager ----------------------------
(***************************************************************************)
(* Timer and TimerManager (src/async/timer.h, timer.cpp) together with the *)
(* threads that wait for the next timer in IOManager::idle.                *)
(*                                                                         *)
(* Users call addTimer, cancel, refresh and reset; waiters repeat          *)
(* getNextTimer, epoll_wait, listExpiredCb.  Everything under m_mutex is   *)
(* one step; the clock readings that the code makes before it takes the    *)
(* lock are steps of their own.  A timer is the number that stands for its *)
(* address, which orders timers with the same m_next.                      *)
(***************************************************************************)
EXTENDS Integers, FiniteSets, FiniteSetsExt

CONSTANTS
    Timers,      \* timers, named by their addresses
    Recurring,   \* the recurring ones
    Users,       \* threads that create and change timers
    Waiters,     \* threads in IOManager::idle
    Periods,     \* values of the ms argument
    MaxSleep,    \* MAX_TIMEOUT of IOManager::idle
    Hour,        \* the 60 * 60 * 1000 of detectClockRollover
    MaxTime,     \* bound: the clock
    JumpBack     \* whether the system clock may be set back

None == -1
Forever == MaxTime + MaxSleep + 1   \* getNextTimer's ~0ull

ASSUME TimerAssumption ==
    /\ IsFiniteSet(Timers) /\ Timers \subseteq Nat /\ Recurring \subseteq Timers
    /\ Periods \subseteq Nat \ {0} /\ Waiters # {}
    /\ MaxSleep \in Nat \ {0} /\ Hour \in Nat \ {0} /\ MaxTime \in Nat
    /\ JumpBack \in BOOLEAN

VARIABLES
    clock,     \* GetCurrentMS()
    timers,    \* m_timers
    next,      \* m_next of each timer
    ms,        \* m_ms
    cb,        \* m_cb is not null
    made,      \* timers constructed so far
    tickled,   \* m_tickled
    previous,  \* m_previous
    user,      \* each user's step and the timer it is about
    waiter,    \* each waiter's step, the time it computed or read, and whether
               \* its epoll_wait returned the pipe
    bell,      \* an edge of the tickle pipe that no epoll_wait has returned yet
    setBack    \* history: the clock has been set back

record == <<next, ms, cb, made>>
vars == <<clock, timers, record, tickled, previous, user, waiter, bell, setBack>>

UserSteps == {"ready", "insert", "notify"}
WaiterSteps == {"top", "wait", "expire", "drain"}

Init ==
    /\ clock = 0 /\ setBack = FALSE
    /\ timers = {} /\ made = {}
    /\ next = [t \in Timers |-> 0] /\ ms = [t \in Timers |-> 0]
    /\ cb = [t \in Timers |-> FALSE]
    /\ tickled = FALSE /\ previous = 0 /\ bell = FALSE
    /\ user = [u \in Users |-> [at |-> "ready", timer |-> None]]
    /\ waiter = [w \in Waiters |-> [at |-> "top", time |-> 0, rung |-> FALSE]]

Ready(u) == user[u].at = "ready"

\* Timer::Comparator
Before(n, s, t) == n[s] < n[t] \/ (n[s] = n[t] /\ s < t)

\* a timer user code may still name: addTimer has returned it
Known == made \ {user[u].timer : u \in {v \in Users : user[v].at = "insert"}}

-----------------------------------------------------------------------------
(* The clock.                                                              *)

Tick ==
    /\ clock < MaxTime
    /\ clock' = clock + 1
    /\ UNCHANGED <<timers, record, tickled, previous, user, waiter, bell, setBack>>

\* the system clock is set back; bound: once
SetBack ==
    /\ JumpBack /\ clock > 0 /\ ~setBack
    /\ clock' \in 0 .. clock - 1
    /\ setBack' = TRUE
    /\ UNCHANGED <<timers, record, tickled, previous, user, waiter, bell>>

-----------------------------------------------------------------------------
(* Users.                                                                  *)

\* Timer::Timer: m_next is computed before addTimer takes the lock
Construct(u, t, p) ==
    /\ Ready(u) /\ t \notin made /\ clock + p < MaxTime
    /\ made' = made \cup {t}
    /\ ms' = [ms EXCEPT ![t] = p]
    /\ next' = [next EXCEPT ![t] = clock + p]
    /\ cb' = [cb EXCEPT ![t] = TRUE]
    /\ user' = [user EXCEPT ![u] = [at |-> "insert", timer |-> t]]
    /\ UNCHANGED <<clock, timers, tickled, previous, waiter, bell, setBack>>

\* TimerManager::addTimer(timer, lock) with next values n: u goes on to
\* onTimerInsertedAtFront when the timer came in first and nobody was told yet
InsertFront(u, t, n) ==
    LET atFront == ~tickled /\ \A s \in timers \ {t} : Before(n, t, s)
    IN  /\ timers' = timers \cup {t}
        /\ tickled' = (tickled \/ atFront)
        /\ user' = [user EXCEPT ![u] = [at |-> IF atFront THEN "notify" ELSE "ready",
                                        timer |-> None]]

\* TimerManager::addTimer, after the constructor
Insert(u) ==
    /\ user[u].at = "insert"
    /\ InsertFront(u, user[u].timer, next)
    /\ UNCHANGED <<clock, record, previous, waiter, bell, setBack>>

\* IOManager::onTimerInsertedAtFront: tickle() writes to the pipe unless no thread is
\* idle; a waiter at the top may still be outside the idle fiber
Notify(u) ==
    /\ user[u].at = "notify"
    /\ bell' \in IF \A w \in Waiters : waiter[w].at = "top" THEN {TRUE, bell} ELSE {TRUE}
    /\ user' = [user EXCEPT ![u].at = "ready"]
    /\ UNCHANGED <<clock, timers, record, tickled, previous, waiter, setBack>>

CancelForgets(u, t) ==   \* mutant of Cancel: the timer is not erased
    /\ Ready(u) /\ t \in Known /\ cb[t]
    /\ cb' = [cb EXCEPT ![t] = FALSE]
    /\ UNCHANGED <<clock, timers, next, ms, made, tickled, previous, user, waiter, bell, setBack>>

\* Timer::cancel
Cancel(u, t) ==
    /\ Ready(u) /\ t \in Known /\ cb[t]
    /\ cb' = [cb EXCEPT ![t] = FALSE]
    /\ timers' = timers \ {t}
    /\ UNCHANGED <<clock, next, ms, made, tickled, previous, user, waiter, bell, setBack>>

\* Timer::refresh
Refresh(u, t) ==
    /\ Ready(u) /\ t \in Known /\ cb[t] /\ t \in timers
    /\ clock + ms[t] < MaxTime
    /\ next' = [next EXCEPT ![t] = clock + ms[t]]
    /\ UNCHANGED <<clock, timers, ms, cb, made, tickled, previous, user, waiter, bell, setBack>>

ResetRevives(u, t, p, fromNow) ==   \* mutant of Reset: no test of m_cb
    LET start == IF fromNow THEN clock ELSE next[t] - ms[t]
        n == [next EXCEPT ![t] = start + p]
    IN  /\ Ready(u) /\ t \in Known /\ (p # ms[t] \/ fromNow) /\ start + p < MaxTime
        /\ ms' = [ms EXCEPT ![t] = p]
        /\ next' = n
        /\ InsertFront(u, t, n)
        /\ UNCHANGED <<clock, cb, made, previous, waiter, bell, setBack>>

\* Timer::reset; with the same period and not from now it does nothing
Reset(u, t, p, fromNow) ==
    LET start == IF fromNow THEN clock ELSE next[t] - ms[t]
        n == [next EXCEPT ![t] = start + p]
    IN  /\ Ready(u) /\ t \in Known /\ (p # ms[t] \/ fromNow) /\ start + p < MaxTime
        /\ cb[t] /\ t \in timers
        /\ ms' = [ms EXCEPT ![t] = p]
        /\ next' = n
        /\ InsertFront(u, t, n)
        /\ UNCHANGED <<clock, cb, made, previous, waiter, bell, setBack>>

-----------------------------------------------------------------------------
(* Waiters.                                                                *)

\* the next_timeout IOManager::idle passes to epoll_wait
Timeout ==
    LET first == Min({next[t] : t \in timers})
        left == IF timers = {} THEN Forever
                ELSE IF clock >= first THEN 0 ELSE first - clock
    IN  IF left > MaxSleep THEN MaxSleep ELSE left

GetNextTimerQuiet(w) ==   \* mutant of GetNextTimer: m_tickled is not cleared
    /\ waiter[w].at = "top"
    /\ waiter' = [waiter EXCEPT ![w] = [at |-> "wait", time |-> clock + Timeout, rung |-> FALSE]]
    /\ UNCHANGED <<clock, timers, record, tickled, previous, user, bell, setBack>>

\* TimerManager::getNextTimer, and epoll_wait is entered
GetNextTimer(w) ==
    /\ waiter[w].at = "top"
    /\ tickled' = FALSE
    /\ waiter' = [waiter EXCEPT ![w] = [at |-> "wait", time |-> clock + Timeout, rung |-> FALSE]]
    /\ UNCHANGED <<clock, timers, record, previous, user, bell, setBack>>

\* epoll_wait returns, by the pipe or by its timeout; listExpiredCb reads the clock
WakeUp(w) ==
    /\ waiter[w].at = "wait" /\ (bell \/ clock >= waiter[w].time)
    /\ bell' = FALSE
    /\ waiter' = [waiter EXCEPT ![w] = [at |-> "expire", time |-> clock, rung |-> bell]]
    /\ UNCHANGED <<clock, timers, record, tickled, previous, user, setBack>>

RolloverAlways(now) == now <= previous   \* mutant of Rollover: no hour of tolerance

\* TimerManager::detectClockRollover
Rollover(now) == now < previous - Hour

\* upper_bound(now_timer): a timer due exactly now is taken if its address is
\* below that of the temporary Timer it is compared with
Due(now, address) == {t \in timers : next[t] < now \/ (next[t] = now /\ t < address)}

\* the timers listExpiredCb takes: all of them when the clock rolled over
Expired(now, address) == IF Rollover(now) THEN timers ELSE Due(now, address)

\* TimerManager::listExpiredCb under its lock; the callbacks go to the scheduler
ListExpiredCb(w) ==
    /\ waiter[w].at = "expire"
    /\ LET now == waiter[w].time IN
       \E address \in Timers \cup {Max(Timers) + 1} :
          LET gone == Expired(now, address) IN
          /\ previous' = IF timers = {} THEN previous ELSE now
          /\ timers' = timers \ (gone \ Recurring)
          /\ next' = [t \in Timers |-> IF t \in gone \cap Recurring THEN now + ms[t] ELSE next[t]]
          /\ cb' = [t \in Timers |-> cb[t] /\ t \notin gone \ Recurring]
    /\ waiter' = [waiter EXCEPT ![w] = [at |-> "drain", time |-> 0, rung |-> @.rung]]
    /\ UNCHANGED <<clock, ms, made, tickled, user, bell, setBack>>

\* IOManager::idle empties the pipe if epoll_wait returned it, leaves, finds no
\* task and comes back
Drain(w) ==
    /\ waiter[w].at = "drain"
    /\ bell' = (bell /\ ~waiter[w].rung)
    /\ waiter' = [waiter EXCEPT ![w] = [at |-> "top", time |-> @.time, rung |-> FALSE]]
    /\ UNCHANGED <<clock, timers, record, tickled, previous, user, setBack>>

-----------------------------------------------------------------------------
UserStep(u) ==
    \/ Insert(u) \/ Notify(u)
    \/ \E t \in Timers : Cancel(u, t) \/ Refresh(u, t)
    \/ \E t \in Timers, p \in Periods : Construct(u, t, p)
    \/ \E t \in Timers, p \in Periods, fromNow \in BOOLEAN : Reset(u, t, p, fromNow)

WaiterStep(w) == GetNextTimer(w) \/ WakeUp(w) \/ ListExpiredCb(w) \/ Drain(w)

Next ==
    \/ Tick \/ SetBack
    \/ \E u \in Users : UserStep(u)
    \/ \E w \in Waiters : WaiterStep(w)

Spec == Init /\ [][Next]_vars

-----------------------------------------------------------------------------
(* Properties.                                                             *)

\* Every variable stays in its type.
TypeOK ==
    /\ clock \in 0 .. MaxTime /\ previous \in 0 .. MaxTime
    /\ timers \subseteq Timers /\ made \subseteq Timers
    /\ next \in [Timers -> Nat] /\ ms \in [Timers -> {0} \cup Periods]
    /\ cb \in [Timers -> BOOLEAN]
    /\ tickled \in BOOLEAN /\ bell \in BOOLEAN /\ setBack \in BOOLEAN
    /\ user \in [Users -> [at : UserSteps, timer : Timers \cup {None}]]
    /\ waiter \in [Waiters -> [at : WaiterSteps, time : Nat, rung : BOOLEAN]]

\* cancel() erases find(...) without comparing it with end(): it relies on a timer
\* that addTimer has returned being in m_timers exactly while its m_cb is set,
\* whatever cancel, refresh, reset and expiry did to it before.
CancelFindsTimer == \A t \in Known : cb[t] <=> t \in timers

\* listExpiredCb takes a timer out, or moves a recurring one on, only when its
\* time has come, unless the clock was set back or the thread was held up for
\* more than an hour between reading the clock and taking the lock (another
\* thread's later reading then makes this one look like a rollover).
NeverEarly ==
    [][\A w \in Waiters, t \in timers :
         /\ waiter[w].at = "expire" /\ waiter'[w].at = "drain"
         /\ t \notin timers' \/ next'[t] # next[t]
         => next[t] <= clock \/ setBack \/ waiter[w].time + Hour < clock]_vars

\* An ended timer stays ended: after cancel(), or after a one-shot timer has
\* expired, neither refresh() nor reset() brings it back.
EndedStaysEnded == [][\A t \in Known : ~cb[t] => ~cb'[t] /\ t \notin timers']_vars

\* the waiter will sleep past the first timer
Oversleeps(w) ==
    waiter[w].at = "wait" /\ clock < waiter[w].time /\ \E t \in timers : next[t] < waiter[w].time

\* No timer is slept through: when every waiter is inside epoll_wait with a
\* timeout later than the first timer, somebody is about to ring or has rung
\* the pipe.  This is what m_tickled and onTimerInsertedAtFront are for.
FirstTimerWatched ==
    (\A w \in Waiters : Oversleeps(w)) => setBack \/ bell \/ \E u \in Users : user[u].at = "notify"

\* The first timer is watched, and every variable is in its type.
TimersWatched == TypeOK /\ FirstTimerWatched
=============================================================================
