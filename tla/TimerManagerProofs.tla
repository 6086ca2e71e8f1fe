------------------------- MODULE TimerManagerProofs -------------------------
(***************************************************************************)
(* Proofs about TimerManager, for any timers, periods, users and waiters   *)
(* and any clock: its types, that cancel() finds what it erases, that the  *)
(* first timer is watched, that nothing expires early and that an ended    *)
(* timer stays ended.                                                      *)
(***************************************************************************)
EXTENDS TimerManager, WellFoundedInduction, TLAPS

-----------------------------------------------------------------------------
(* The inductive invariant.                                                *)

\* the timer that u's addTimer has constructed and not yet inserted
Inserting(u) == user[u].at = "insert"

\* what the types leave out: a planned time is not before its period, and the
\* time a waiter carries to listExpiredCb is a reading of the clock
Readings ==
    /\ \A t \in Timers : ms[t] <= next[t]
    /\ \A w \in Waiters : waiter[w].at = "expire" => waiter[w].time <= MaxTime

\* until the clock is set back, nothing was planned, read or remembered after now
PastReadings ==
    ~setBack => /\ previous <= clock
                /\ \A t \in Timers : next[t] - ms[t] <= clock
                /\ \A w \in Waiters : waiter[w].at = "expire" => waiter[w].time <= clock

\* a constructed timer is in the hands of one addTimer, or m_timers has it while m_cb is set
Holders ==
    /\ timers \subseteq made
    /\ \A u \in Users : Inserting(u) =>
          LET t == user[u].timer IN t \in made \ timers /\ cb[t]
    /\ \A u, v \in Users : Inserting(u) /\ Inserting(v) /\ user[u].timer = user[v].timer => u = v

\* m_tickled is set only while a ring is due or a waiter is on its way to getNextTimer
TickleDue ==
    tickled => \/ bell \/ \E u \in Users : user[u].at = "notify"
               \/ \E w \in Waiters : waiter[w].at # "wait"

TimerInv ==
    TypeOK /\ Readings /\ PastReadings /\ Holders /\ CancelFindsTimer /\ TickleDue /\ FirstTimerWatched

-----------------------------------------------------------------------------
(* The first timer.                                                        *)

\* A set of times has a first one, which is what begin() of m_timers is.
LEMMA MinIsFirst ==
    ASSUME NEW S \in SUBSET Nat, S # {}
    PROVE  Min(S) \in S /\ \A n \in S : Min(S) <= n
<1> DEFINE R == {p \in Nat \X Nat : p[1] < p[2]}
<1>1. IsWellFoundedOn(R, Nat)
  BY NatLessThanWellFounded DEF OpToRel
<1>2. \E m \in S : \A n \in S : <<n, m>> \notin R
  <2> HIDE DEF R
  <2> QED BY <1>1, WFMin
<1>3. PICK m \in S : \A n \in S : <<n, m>> \notin R
  BY <1>2
<1>4. ASSUME NEW n \in S PROVE m <= n
  <2>1. n < m => <<n, m>> \in R
    OBVIOUS
  <2> QED BY <1>3, <2>1
<1> QED BY <1>4 DEF Min

\* The timeout of epoll_wait does not reach past the first timer still to come.
LEMMA TimeoutReach ==
    ASSUME TypeOK
    PROVE  /\ Timeout \in Nat
           /\ \A t \in timers : clock + Timeout <= clock \/ clock + Timeout <= next[t]
<1> DEFINE S == {next[t] : t \in timers}
           first == Min(S)
<1>0. clock \in Nat /\ MaxSleep \in Nat /\ MaxTime \in Nat /\ S \in SUBSET Nat
  BY TimerAssumption DEF TypeOK
<1>1. CASE timers = {}
  BY <1>0, <1>1 DEF Timeout, Forever
<1>2. CASE timers # {}
  <2>1. first \in Nat /\ \A t \in timers : first <= next[t] /\ next[t] \in Nat
    <3>1. S # {}
      BY <1>2
    <3>2. first \in S /\ \A n \in S : first <= n
      BY <1>0, <3>1, MinIsFirst
    <3> QED BY <1>0, <3>2
  <2> HIDE DEF first
  <2>2. Timeout = IF (IF clock >= first THEN 0 ELSE first - clock) > MaxSleep
                  THEN MaxSleep ELSE IF clock >= first THEN 0 ELSE first - clock
    BY <1>2 DEF Timeout, first
  <2> QED BY <1>0, <2>1, <2>2
<1> QED BY <1>1, <1>2

-----------------------------------------------------------------------------
(* Each part of the invariant is kept.                                     *)

\* Nothing has happened at the start.
LEMMA TimerInit == Init => TimerInv
<1> SUFFICES ASSUME Init PROVE TimerInv
  OBVIOUS
<1> USE TimerAssumption DEF Init
<1>1. TypeOK
  <2>1. 0 \in 0 .. MaxTime
    OBVIOUS
  <2>2. user \in [Users -> [at : UserSteps, timer : Timers \cup {None}]]
    BY DEF UserSteps
  <2>3. waiter \in [Waiters -> [at : WaiterSteps, time : Nat, rung : BOOLEAN]]
    BY DEF WaiterSteps
  <2>4. next \in [Timers -> Nat] /\ ms \in [Timers -> {0} \cup Periods] /\ cb \in [Timers -> BOOLEAN]
    OBVIOUS
  <2> QED BY <2>1, <2>2, <2>3, <2>4 DEF TypeOK
<1>2. Readings /\ PastReadings
  BY DEF Readings, PastReadings
<1>3. Holders /\ CancelFindsTimer
  BY DEF Holders, Inserting, CancelFindsTimer, Known
<1>4. TickleDue /\ FirstTimerWatched
  BY DEF TickleDue, FirstTimerWatched, Oversleeps
<1> QED BY <1>1, <1>2, <1>3, <1>4 DEF TimerInv

\* What addTimer goes on to, whether it inserts or reset() does.
LEMMA InsertUser ==
    ASSUME NEW u \in Users, NEW t, NEW n, InsertFront(u, t, n)
    PROVE  \E at \in {"notify", "ready"} :
              user' = [user EXCEPT ![u] = [at |-> at, timer |-> None]]
BY DEF InsertFront

\* what listExpiredCb does when it read the clock at now and took the timers in gone
ExpiredBy(w, now, address, gone) ==
    /\ gone = Expired(now, address)
    /\ previous' = IF timers = {} THEN previous ELSE now
    /\ timers' = timers \ (gone \ Recurring)
    /\ next' = [t \in Timers |-> IF t \in gone \cap Recurring THEN now + ms[t] ELSE next[t]]
    /\ cb' = [t \in Timers |-> cb[t] /\ t \notin gone \ Recurring]
    /\ waiter' = [waiter EXCEPT ![w] = [at |-> "drain", time |-> 0, rung |-> waiter[w].rung]]

\* Every step of listExpiredCb is of that form.
LEMMA ExpiryStep ==
    ASSUME TypeOK, NEW w \in Waiters, ListExpiredCb(w)
    PROVE  \E address, gone : ExpiredBy(w, waiter[w].time, address, gone)
<1>1. PICK address \in Timers \cup {Max(Timers) + 1} :
         LET gone == Expired(waiter[w].time, address) IN
         /\ previous' = IF timers = {} THEN previous ELSE waiter[w].time
         /\ timers' = timers \ (gone \ Recurring)
         /\ next' = [t \in Timers |-> IF t \in gone \cap Recurring THEN waiter[w].time + ms[t] ELSE next[t]]
         /\ cb' = [t \in Timers |-> cb[t] /\ t \notin gone \ Recurring]
  BY DEF ListExpiredCb
<1>2. waiter' = [waiter EXCEPT ![w] = [at |-> "drain", time |-> 0, rung |-> waiter[w].rung]]
  BY DEF ListExpiredCb, TypeOK
<1> QED BY <1>1, <1>2 DEF ExpiredBy

\* Times and periods are natural numbers.
LEMMA TimesAreTimes ==
    ASSUME TypeOK, Readings
    PROVE  /\ clock \in Nat /\ Periods \subseteq Nat
           /\ \A i \in Timers : ms[i] \in Nat /\ next[i] \in Nat /\ ms[i] <= next[i]
<1> USE TimerAssumption DEF TypeOK, Readings
<1>1. clock \in Nat /\ Periods \subseteq Nat
  OBVIOUS
<1>2. {0} \cup Periods \subseteq Nat
  BY <1>1
<1>3. ms \in [Timers -> {0} \cup Periods] /\ next \in [Timers -> Nat]
  OBVIOUS
<1>4. \A i \in Timers : ms[i] <= next[i]
  OBVIOUS
<1>5. \A i \in Timers : ms[i] \in Nat /\ next[i] \in Nat
  BY <1>2, <1>3
<1> QED BY <1>1, <1>4, <1>5

\* Types, and that times computed from the clock are times.
LEMMA TypesKept ==
    ASSUME TypeOK, Readings, Holders, [Next]_vars
    PROVE  TypeOK' /\ Readings'
<1> USE TimerAssumption DEF TypeOK, Readings, record
<1>0. /\ clock \in Nat /\ Periods \subseteq Nat
      /\ \A i \in Timers : ms[i] \in Nat /\ next[i] \in Nat /\ ms[i] <= next[i]
  BY TimesAreTimes
<1>1. CASE Tick \/ SetBack \/ UNCHANGED vars
  <2>1. UNCHANGED <<timers, record, tickled, previous, user, waiter, bell>>
    BY <1>1 DEF Tick, SetBack, vars
  <2>2. clock' \in 0 .. MaxTime
    BY <1>1 DEF Tick, SetBack, vars
  <2>3. setBack' \in BOOLEAN
    BY <1>1 DEF Tick, SetBack, vars
  <2> QED BY <2>1, <2>2, <2>3
<1>2. ASSUME NEW u \in Users, NEW t \in Timers, NEW n, InsertFront(u, t, n)
      PROVE  /\ timers' \subseteq Timers /\ tickled' \in BOOLEAN
             /\ user' \in [Users -> [at : UserSteps, timer : Timers \cup {None}]]
  <2>1. timers' \subseteq Timers
    BY <1>2 DEF InsertFront
  <2>2. tickled' \in BOOLEAN
    BY <1>2 DEF InsertFront
  <2>3. user' \in [Users -> [at : UserSteps, timer : Timers \cup {None}]]
    BY <1>2, InsertUser DEF UserSteps
  <2> QED BY <2>1, <2>2, <2>3
<1>3. ASSUME NEW u \in Users, Insert(u)
      PROVE  TypeOK' /\ Readings'
  <2>1. user[u].timer \in Timers
    BY <1>3 DEF Insert, Holders, Inserting
  <2>2. UNCHANGED <<clock, record, previous, waiter, bell, setBack>>
    BY <1>3 DEF Insert
  <2> QED BY <1>2, <1>3, <2>1, <2>2 DEF Insert
<1>4. ASSUME NEW u \in Users, Notify(u)
      PROVE  TypeOK' /\ Readings'
  <2>1. bell' \in BOOLEAN
    BY <1>4 DEF Notify
  <2>2. user' \in [Users -> [at : UserSteps, timer : Timers \cup {None}]]
    BY <1>4 DEF Notify, UserSteps
  <2>3. UNCHANGED <<clock, timers, record, tickled, previous, waiter, setBack>>
    BY <1>4 DEF Notify
  <2> QED BY <2>1, <2>2, <2>3
<1>5. ASSUME NEW u \in Users, NEW t \in Timers, Cancel(u, t) \/ Refresh(u, t)
      PROVE  TypeOK' /\ Readings'
  <2>1. UNCHANGED <<clock, ms, made, tickled, previous, user, waiter, bell, setBack>>
    BY <1>5 DEF Cancel, Refresh
  <2>2. timers' \subseteq Timers /\ cb' \in [Timers -> BOOLEAN]
    BY <1>5 DEF Cancel, Refresh
  <2>3. next' \in [Timers -> Nat] /\ \A i \in Timers : ms[i] <= next'[i]
    <3>1. CASE Cancel(u, t)
      BY <3>1 DEF Cancel
    <3>2. CASE Refresh(u, t)
      <4>1. clock + ms[t] \in Nat /\ ms[t] <= clock + ms[t]
        BY <1>0
      <4> QED BY <3>2, <4>1 DEF Refresh
    <3> QED BY <1>5, <3>1, <3>2
  <2> QED BY <2>1, <2>2, <2>3
<1>6. ASSUME NEW u \in Users, NEW t \in Timers, NEW p \in Periods,
             NEW c \in Nat, ms' = [ms EXCEPT ![t] = p], next' = [next EXCEPT ![t] = c + p]
      PROVE  /\ ms' \in [Timers -> {0} \cup Periods] /\ next' \in [Timers -> Nat]
             /\ \A i \in Timers : ms'[i] <= next'[i]
  <2>1. c + p \in Nat /\ p <= c + p
    OBVIOUS
  <2> QED BY <1>6, <2>1
<1>7. ASSUME NEW u \in Users, NEW t \in Timers, NEW p \in Periods, Construct(u, t, p)
      PROVE  TypeOK' /\ Readings'
  <2>1. UNCHANGED <<clock, timers, tickled, previous, waiter, bell, setBack>> /\ clock \in Nat
    BY <1>7 DEF Construct
  <2>2. made' \subseteq Timers /\ cb' \in [Timers -> BOOLEAN]
    BY <1>7 DEF Construct
  <2>3. user' \in [Users -> [at : UserSteps, timer : Timers \cup {None}]]
    BY <1>7 DEF Construct, UserSteps
  <2>4. /\ ms' \in [Timers -> {0} \cup Periods] /\ next' \in [Timers -> Nat]
        /\ \A i \in Timers : ms'[i] <= next'[i]
    BY <1>6, <1>7, <2>1 DEF Construct
  <2> QED BY <2>1, <2>2, <2>3, <2>4
<1>8. ASSUME NEW u \in Users, NEW t \in Timers, NEW p \in Periods, NEW fromNow \in BOOLEAN,
             Reset(u, t, p, fromNow)
      PROVE  TypeOK' /\ Readings'
  <2> DEFINE start == IF fromNow THEN clock ELSE next[t] - ms[t]
  <2>1. UNCHANGED <<clock, cb, made, previous, waiter, bell, setBack>>
    BY <1>8 DEF Reset
  <2>2. /\ ms' = [ms EXCEPT ![t] = p] /\ next' = [next EXCEPT ![t] = start + p]
        /\ InsertFront(u, t, [next EXCEPT ![t] = start + p])
    BY <1>8 DEF Reset
  <2>3. start \in Nat
    BY <1>0
  <2> HIDE DEF start
  <2>4. /\ ms' \in [Timers -> {0} \cup Periods] /\ next' \in [Timers -> Nat]
        /\ \A i \in Timers : ms'[i] <= next'[i]
    BY <1>6, <2>2, <2>3
  <2> QED BY <1>2, <2>1, <2>2, <2>4
<1>9. ASSUME NEW w \in Waiters, GetNextTimer(w) \/ WakeUp(w) \/ Drain(w)
      PROVE  TypeOK' /\ Readings'
  <2>1. UNCHANGED <<clock, timers, record, previous, user, setBack>>
    BY <1>9 DEF GetNextTimer, WakeUp, Drain
  <2>2. bell' \in BOOLEAN /\ tickled' \in BOOLEAN
    BY <1>9 DEF GetNextTimer, WakeUp, Drain
  <2>3. /\ waiter' \in [Waiters -> [at : WaiterSteps, time : Nat, rung : BOOLEAN]]
        /\ \A v \in Waiters : waiter'[v].at = "expire" => waiter'[v].time <= MaxTime
    <3>1. CASE GetNextTimer(w)
      <4>1. clock + Timeout \in Nat
        BY TimeoutReach
      <4>2. waiter' = [waiter EXCEPT ![w] = [at |-> "wait", time |-> clock + Timeout, rung |-> FALSE]]
        BY <3>1 DEF GetNextTimer
      <4> QED BY <4>1, <4>2 DEF WaiterSteps
    <3>2. CASE WakeUp(w)
      <4>1. clock \in Nat /\ clock <= MaxTime
        OBVIOUS
      <4> QED BY <3>2, <4>1 DEF WakeUp, WaiterSteps
    <3>3. CASE Drain(w)
      <4>1. waiter' = [waiter EXCEPT ![w] = [at |-> "top", time |-> waiter[w].time, rung |-> FALSE]]
        BY <3>3 DEF Drain
      <4> QED BY <4>1 DEF WaiterSteps
    <3> QED BY <1>9, <3>1, <3>2, <3>3
  <2> QED BY <2>1, <2>2, <2>3
<1>10. ASSUME NEW w \in Waiters, ListExpiredCb(w)
      PROVE  TypeOK' /\ Readings'
  <2>1. UNCHANGED <<clock, ms, made, tickled, user, bell, setBack>>
    BY <1>10 DEF ListExpiredCb
  <2>2. PICK now \in 0 .. MaxTime : now = waiter[w].time
    BY <1>10 DEF ListExpiredCb
  <2>3. PICK address, gone : ExpiredBy(w, now, address, gone)
    BY <1>10, <2>2, ExpiryStep
  <2> USE DEF ExpiredBy
  <2>4. previous' \in 0 .. MaxTime
    BY <2>3
  <2>5. timers' \subseteq Timers /\ cb' \in [Timers -> BOOLEAN]
    BY <2>3
  <2>6. next' \in [Timers -> Nat] /\ \A i \in Timers : ms[i] <= next'[i]
    <3>1. \A i \in Timers : now + ms[i] \in Nat /\ ms[i] <= now + ms[i]
      BY <1>0
    <3> QED BY <1>0, <2>3, <3>1
  <2>7. /\ waiter' \in [Waiters -> [at : WaiterSteps, time : Nat, rung : BOOLEAN]]
        /\ \A v \in Waiters : waiter'[v].at = "expire" => waiter'[v].time <= MaxTime
    BY <2>3 DEF WaiterSteps
  <2> QED BY <2>1, <2>4, <2>5, <2>6, <2>7
<1> QED BY <1>1, <1>3, <1>4, <1>5, <1>7, <1>8, <1>9, <1>10 DEF Next, UserStep, WaiterStep

\* Without a set-back, no clock reading is ahead of the clock.
LEMMA ReadingsKept ==
    ASSUME TypeOK, Readings, PastReadings, [Next]_vars
    PROVE  PastReadings'
<1> USE DEF PastReadings, record
<1>0. /\ clock \in Nat /\ Periods \subseteq Nat /\ previous \in Nat
      /\ \A i \in Timers : ms[i] \in Nat /\ next[i] \in Nat /\ ms[i] <= next[i]
      /\ \A w \in Waiters : waiter[w].time \in Nat
      /\ next \in [Timers -> Nat] /\ ms \in [Timers -> {0} \cup Periods] /\ DOMAIN waiter = Waiters
  BY TimesAreTimes DEF TypeOK
<1>1. CASE Tick
  BY <1>0, <1>1 DEF Tick
<1>2. CASE SetBack
  BY <1>2 DEF SetBack
<1>3. ASSUME UNCHANGED <<clock, next, ms, previous, waiter, setBack>>
      PROVE  PastReadings'
  BY <1>3
<1>4. CASE UNCHANGED vars
  BY <1>3, <1>4 DEF vars
<1>5. ASSUME NEW u \in Users, Insert(u) \/ Notify(u)
      PROVE  PastReadings'
  BY <1>3, <1>5 DEF Insert, Notify
<1>6. ASSUME NEW u \in Users, NEW t \in Timers, Cancel(u, t)
      PROVE  PastReadings'
  BY <1>3, <1>6 DEF Cancel
<1>7. ASSUME UNCHANGED <<clock, previous, waiter, setBack>>,
             NEW t \in Timers, NEW c \in Nat, NEW p \in Nat, ~setBack => c <= clock,
             next' = [next EXCEPT ![t] = c + p],
             ms' = [ms EXCEPT ![t] = p]
      PROVE  PastReadings'
  <2>1. \A i \in Timers : IF i = t THEN next'[i] - ms'[i] = c
                                   ELSE next'[i] - ms'[i] = next[i] - ms[i]
    BY <1>0, <1>7
  <2> QED BY <1>0, <1>7, <2>1
<1>8. ASSUME NEW u \in Users, NEW t \in Timers, Refresh(u, t)
      PROVE  PastReadings'
  <2>1. ms' = [ms EXCEPT ![t] = ms[t]]
    BY <1>0, <1>8 DEF Refresh
  <2> QED BY <1>0, <1>7, <1>8, <2>1 DEF Refresh
<1>9. ASSUME NEW u \in Users, NEW t \in Timers, NEW p \in Periods, Construct(u, t, p)
      PROVE  PastReadings'
  BY <1>0, <1>7, <1>9 DEF Construct
<1>10. ASSUME NEW u \in Users, NEW t \in Timers, NEW p \in Periods, NEW fromNow \in BOOLEAN,
              Reset(u, t, p, fromNow)
       PROVE  PastReadings'
  <2>1. PICK c \in Nat : c = IF fromNow THEN clock ELSE next[t] - ms[t]
    BY <1>0
  <2>2. ~setBack => c <= clock
    BY <1>0, <2>1
  <2>3. /\ UNCHANGED <<clock, previous, waiter, setBack>>
        /\ next' = [next EXCEPT ![t] = c + p] /\ ms' = [ms EXCEPT ![t] = p]
    BY <1>10, <2>1 DEF Reset
  <2> QED BY <1>0, <1>7, <2>2, <2>3
<1>11. ASSUME NEW w \in Waiters, GetNextTimer(w) \/ WakeUp(w) \/ Drain(w)
       PROVE  PastReadings'
  <2>1. UNCHANGED <<clock, next, ms, previous, setBack>>
    BY <1>11 DEF GetNextTimer, WakeUp, Drain
  <2>2. \A v \in Waiters : waiter'[v].at = "expire" => waiter'[v].time = clock \/ waiter'[v] = waiter[v]
    BY <1>0, <1>11 DEF GetNextTimer, WakeUp, Drain
  <2> QED BY <1>0, <2>1, <2>2
<1>12. ASSUME NEW w \in Waiters, ListExpiredCb(w)
       PROVE  PastReadings'
  <2>0. UNCHANGED <<clock, ms, setBack>> /\ waiter[w].at = "expire"
    BY <1>12 DEF ListExpiredCb
  <2>1. PICK address, gone : ExpiredBy(w, waiter[w].time, address, gone)
    BY <1>12, ExpiryStep
  <2>2. previous' = previous \/ previous' = waiter[w].time
    BY <2>1 DEF ExpiredBy
  <2>3. \A i \in Timers : next'[i] - ms'[i] \in {next[i] - ms[i], waiter[w].time}
    BY <1>0, <2>0, <2>1 DEF ExpiredBy
  <2>4. \A v \in Waiters : waiter'[v].at = "expire" => waiter'[v] = waiter[v]
    BY <1>0, <2>1 DEF ExpiredBy
  <2>5. ~setBack => waiter[w].time <= clock
    BY <2>0
  <2> QED BY <1>0, <2>0, <2>2, <2>3, <2>4, <2>5
<1> QED BY <1>1, <1>2, <1>4, <1>5, <1>6, <1>8, <1>9, <1>10, <1>11, <1>12 DEF Next, UserStep, WaiterStep

\* cancel, refresh, reset and expiry leave m_timers and m_cb in step, and addTimer
\* has its timer to itself until it is in m_timers.
LEMMA HoldersKept ==
    ASSUME TypeOK, Holders, CancelFindsTimer, [Next]_vars
    PROVE  Holders' /\ CancelFindsTimer'
<1> USE DEF Holders, CancelFindsTimer, Known, Inserting, record
<1>0. /\ user \in [Users -> [at : UserSteps, timer : Timers \cup {None}]]
      /\ cb \in [Timers -> BOOLEAN] /\ made \subseteq Timers
  BY DEF TypeOK
<1>a. \A i \in timers : i \in Known
  OBVIOUS
<1>1. ASSUME UNCHANGED <<timers, cb, made>>,
             \A v \in Users : Inserting(v)' <=> Inserting(v),
             \A v \in Users : Inserting(v) => user'[v].timer = user[v].timer
      PROVE  Holders' /\ CancelFindsTimer'
  BY <1>1
<1>2. CASE Tick \/ SetBack \/ UNCHANGED vars \/ \E w \in Waiters : GetNextTimer(w) \/ WakeUp(w) \/ Drain(w)
  BY <1>1, <1>2 DEF Tick, SetBack, GetNextTimer, WakeUp, Drain, vars
<1>3. ASSUME NEW u \in Users, Notify(u)
      PROVE  Holders' /\ CancelFindsTimer'
  BY <1>0, <1>1, <1>3 DEF Notify
<1>4. ASSUME NEW u \in Users, NEW t \in Timers, Cancel(u, t) \/ Refresh(u, t)
      PROVE  Holders' /\ CancelFindsTimer'
  BY <1>0, <1>4 DEF Cancel, Refresh
<1>5. ASSUME NEW u \in Users, NEW t \in Timers, NEW p \in Periods, Construct(u, t, p)
      PROVE  Holders' /\ CancelFindsTimer'
  <2>1. /\ user' = [user EXCEPT ![u] = [at |-> "insert", timer |-> t]]
        /\ made' = made \cup {t} /\ timers' = timers /\ cb' = [cb EXCEPT ![t] = TRUE]
        /\ t \notin made /\ ~Inserting(u)
    BY <1>5 DEF Construct, Ready
  <2>2. Inserting(u)' /\ user'[u].timer = t
    BY <1>0, <2>1
  <2>3. \A v \in Users \ {u} : user'[v] = user[v] /\ (Inserting(v) => user[v].timer # t)
    BY <1>0, <2>1
  <2>4. Holders'
    BY <1>0, <2>1, <2>2, <2>3
  <2>5. \A i \in Known' : i \in Known
    BY <1>0, <2>1, <2>2, <2>3
  <2>6. \A i \in Known : i # t
    BY <2>1
  <2> QED BY <1>0, <2>1, <2>4, <2>5, <2>6
<1>6. ASSUME NEW u \in Users, Insert(u)
      PROVE  Holders' /\ CancelFindsTimer'
  <2>0. PICK t \in made \ timers : t = user[u].timer /\ cb[t]
    BY <1>6 DEF Insert
  <2>1. timers' = timers \cup {t} /\ UNCHANGED <<cb, made>> /\ Inserting(u)
    BY <1>6, <2>0 DEF Insert, InsertFront
  <2>2. ~Inserting(u)'
    BY <1>0, <1>6, InsertUser DEF Insert
  <2>3. \A v \in Users \ {u} : user'[v] = user[v] /\ (Inserting(v) => user[v].timer # t)
    BY <1>0, <1>6, <2>0, <2>1, InsertUser DEF Insert
  <2>4. Holders'
    BY <1>0, <2>0, <2>1, <2>2, <2>3
  <2>5. \A i \in Known' : i \in Known \/ i = t
    BY <1>0, <2>0, <2>1, <2>2, <2>3
  <2> QED BY <1>0, <2>0, <2>1, <2>4, <2>5
<1>7. ASSUME NEW u \in Users, NEW t \in Timers, NEW p \in Periods, NEW fromNow \in BOOLEAN,
             Reset(u, t, p, fromNow)
      PROVE  Holders' /\ CancelFindsTimer'
  <2>1. PICK n : InsertFront(u, t, n)
    BY <1>7 DEF Reset
  <2>2. UNCHANGED <<cb, made>> /\ ~Inserting(u) /\ timers' = timers
    BY <1>7, <2>1 DEF Reset, Ready, InsertFront
  <2>3. ~Inserting(u)' /\ \A v \in Users \ {u} : user'[v] = user[v]
    BY <1>0, <2>1, InsertUser
  <2> QED BY <1>1, <2>2, <2>3
<1>8. ASSUME NEW w \in Waiters, ListExpiredCb(w)
      PROVE  Holders' /\ CancelFindsTimer'
  <2>1. PICK address, gone : ExpiredBy(w, waiter[w].time, address, gone)
    BY <1>8, ExpiryStep
  <2>2. UNCHANGED <<made, user>> /\ timers' = timers \ (gone \ Recurring) /\ gone \subseteq timers
    BY <1>8, <2>1 DEF ListExpiredCb, ExpiredBy, Expired, Due
  <2>3. \A i \in Timers : cb'[i] <=> cb[i] /\ i \notin gone \ Recurring
    BY <2>1 DEF ExpiredBy
  <2> QED BY <1>0, <2>2, <2>3
<1> QED BY <1>2, <1>3, <1>4, <1>5, <1>6, <1>7, <1>8 DEF Next, UserStep, WaiterStep

\* somebody rings the pipe, or has rung it
Ringing == bell \/ \E u \in Users : user[u].at = "notify"

\* A ring is only lost to a waiter that leaves epoll_wait for it.
LEMMA RingKept ==
    ASSUME TypeOK, [Next]_vars, Ringing
    PROVE  Ringing' \/ \E w \in Waiters : waiter'[w].at # "wait"
<1> USE DEF Ringing
<1>0. /\ user \in [Users -> [at : UserSteps, timer : Timers \cup {None}]]
      /\ waiter \in [Waiters -> [at : WaiterSteps, time : Nat, rung : BOOLEAN]]
  BY DEF TypeOK
<1>1. ASSUME bell' = bell, \A u \in Users : user[u].at = "notify" => user'[u].at = "notify"
      PROVE  Ringing'
  BY <1>1
<1>2. CASE Tick \/ SetBack \/ UNCHANGED vars
  BY <1>1, <1>2 DEF Tick, SetBack, vars
<1>3. ASSUME NEW u \in Users, Notify(u)
      PROVE  Ringing' \/ \E w \in Waiters : waiter'[w].at # "wait"
  <2>1. CASE \A w \in Waiters : waiter[w].at = "top"
    BY <1>3, <2>1, TimerAssumption DEF Notify
  <2>2. CASE ~\A w \in Waiters : waiter[w].at = "top"
    <3>1. bell' = TRUE
      BY <1>3, <2>2 DEF Notify
    <3> QED BY <3>1
  <2> QED BY <2>1, <2>2
<1>4. ASSUME NEW u \in Users, NEW t \in Timers, Cancel(u, t) \/ Refresh(u, t)
      PROVE  Ringing'
  BY <1>1, <1>4 DEF Cancel, Refresh
<1>5. ASSUME NEW u \in Users, bell' = bell, user[u].at # "notify",
             \E r : user' = [user EXCEPT ![u] = r]
      PROVE  Ringing'
  BY <1>0, <1>1, <1>5
<1>6. ASSUME NEW u \in Users, NEW t \in Timers, NEW p \in Periods, Construct(u, t, p)
      PROVE  Ringing'
  BY <1>5, <1>6 DEF Construct, Ready
<1>7. ASSUME NEW u \in Users, Insert(u)
      PROVE  Ringing'
  BY <1>5, <1>7 DEF Insert, InsertFront
<1>8. ASSUME NEW u \in Users, NEW t \in Timers, NEW p \in Periods, NEW fromNow \in BOOLEAN,
             Reset(u, t, p, fromNow)
      PROVE  Ringing'
  BY <1>5, <1>8 DEF Reset, InsertFront, Ready
<1>9. ASSUME NEW w \in Waiters, WaiterStep(w)
      PROVE  Ringing' \/ \E v \in Waiters : waiter'[v].at # "wait"
  <2>1. CASE GetNextTimer(w)
    BY <1>1, <2>1 DEF GetNextTimer
  <2>2. CASE WakeUp(w) \/ ListExpiredCb(w) \/ Drain(w)
    <3>1. waiter'[w].at \in {"expire", "drain", "top"}
      BY <1>0, <2>2 DEF WakeUp, ListExpiredCb, Drain
    <3> QED BY <3>1
  <2> QED BY <1>9, <2>1, <2>2 DEF WaiterStep
<1> QED BY <1>2, <1>3, <1>4, <1>6, <1>7, <1>8, <1>9 DEF Next, UserStep

\* m_tickled is set by the user that is going to ring, and cleared by the waiter that
\* then looks for the first timer.
LEMMA TickleKept ==
    ASSUME TypeOK, TickleDue, [Next]_vars
    PROVE  TickleDue'
<1> USE DEF TickleDue
<1>0. /\ user \in [Users -> [at : UserSteps, timer : Timers \cup {None}]]
      /\ waiter \in [Waiters -> [at : WaiterSteps, time : Nat, rung : BOOLEAN]]
  BY DEF TypeOK
<1>1. ASSUME tickled' => tickled, \A w \in Waiters : waiter[w].at # "wait" => waiter'[w].at # "wait"
      PROVE  TickleDue'
  BY <1>1, RingKept DEF Ringing
<1>2. CASE Tick \/ SetBack \/ UNCHANGED vars \/ \E u \in Users : Notify(u)
  BY <1>1, <1>2 DEF Tick, SetBack, vars, Notify
<1>3. ASSUME NEW u \in Users, NEW t \in Timers,
             Cancel(u, t) \/ Refresh(u, t) \/ \E p \in Periods : Construct(u, t, p)
      PROVE  TickleDue'
  BY <1>1, <1>3 DEF Cancel, Refresh, Construct
<1>4. ASSUME NEW u \in Users, NEW t, NEW n, InsertFront(u, t, n), waiter' = waiter
      PROVE  TickleDue'
  <2>1. CASE ~tickled /\ \A s \in timers \ {t} : Before(n, t, s)
    <3>1. user'[u].at = "notify"
      BY <1>0, <1>4, <2>1 DEF InsertFront
    <3> QED BY <3>1
  <2>2. CASE ~(~tickled /\ \A s \in timers \ {t} : Before(n, t, s))
    BY <1>1, <1>4, <2>2 DEF InsertFront
  <2> QED BY <2>1, <2>2
<1>5. ASSUME NEW u \in Users, Insert(u)
      PROVE  TickleDue'
  BY <1>4, <1>5 DEF Insert
<1>6. ASSUME NEW u \in Users, NEW t \in Timers, NEW p \in Periods, NEW fromNow \in BOOLEAN,
             Reset(u, t, p, fromNow)
      PROVE  TickleDue'
  BY <1>4, <1>6 DEF Reset
<1>7. ASSUME NEW w \in Waiters, WaiterStep(w)
      PROVE  TickleDue'
  <2>1. CASE GetNextTimer(w)
    BY <2>1 DEF GetNextTimer
  <2>2. CASE WakeUp(w) \/ ListExpiredCb(w) \/ Drain(w)
    <3>1. waiter'[w].at \in {"expire", "drain", "top"}
      BY <1>0, <2>2 DEF WakeUp, ListExpiredCb, Drain
    <3> QED BY <3>1
  <2> QED BY <1>7, <2>1, <2>2 DEF WaiterStep
<1> QED BY <1>2, <1>3, <1>5, <1>6, <1>7 DEF Next, UserStep

\* An inserted timer that goes in front of what every waiter sleeps for is announced.
LEMMA InsertWatched ==
    ASSUME TypeOK, TickleDue, FirstTimerWatched, [Next]_vars,
           NEW u \in Users, NEW t \in Timers, NEW n \in [Timers -> Nat], InsertFront(u, t, n),
           next' = n, \A i \in timers \ {t} : n[i] = next[i],
           UNCHANGED <<clock, waiter, setBack>>
    PROVE  FirstTimerWatched'
<1>0. /\ user \in [Users -> [at : UserSteps, timer : Timers \cup {None}]]
      /\ waiter \in [Waiters -> [at : WaiterSteps, time : Nat, rung : BOOLEAN]]
      /\ timers \subseteq Timers
  BY DEF TypeOK
<1>1. SUFFICES ASSUME \A w \in Waiters : Oversleeps(w)' PROVE setBack' \/ Ringing'
  BY DEF FirstTimerWatched, Ringing
<1>2. \A w \in Waiters : waiter[w].at = "wait" /\ waiter'[w].at = "wait"
  BY <1>1 DEF Oversleeps
<1>3. CASE ~tickled /\ \A s \in timers \ {t} : Before(n, t, s)
  <2>1. user'[u].at = "notify"
    BY <1>0, <1>3 DEF InsertFront
  <2> QED BY <2>1 DEF Ringing
<1>4. CASE tickled
  BY <1>2, <1>4, RingKept DEF TickleDue, Ringing
<1>5. ASSUME NEW s \in timers \ {t}, ~Before(n, t, s)
      PROVE  setBack' \/ Ringing'
  <2>1. n[s] <= n[t] /\ n[t] \in Nat /\ n[s] = next[s]
    BY <1>0, <1>5 DEF Before
  <2>2. ASSUME NEW w \in Waiters PROVE Oversleeps(w)
    <3>1. PICK i \in timers \cup {t} : n[i] < waiter[w].time
      BY <1>1 DEF Oversleeps, InsertFront
    <3>2. waiter[w].at = "wait" /\ clock < waiter[w].time
      BY <1>1 DEF Oversleeps
    <3>3. CASE i = t
      <4>1. next[s] < waiter[w].time
        BY <1>0, <1>5, <2>1, <3>1, <3>3
      <4> QED BY <1>5, <3>2, <4>1 DEF Oversleeps
    <3>4. CASE i # t
      BY <3>1, <3>2, <3>4 DEF Oversleeps
    <3> QED BY <3>3, <3>4
  <2> QED BY <1>2, <2>2, RingKept DEF FirstTimerWatched, Ringing
<1> QED BY <1>3, <1>4, <1>5

\* Between a waiter's look at the first timer and the end of its sleep, no timer
\* comes to be due earlier without a ring.
LEMMA WatchKept ==
    ASSUME TypeOK, Readings, PastReadings, Holders, TickleDue, FirstTimerWatched, [Next]_vars
    PROVE  FirstTimerWatched'
<1> USE DEF record
<1>0. /\ waiter \in [Waiters -> [at : WaiterSteps, time : Nat, rung : BOOLEAN]]
      /\ timers \subseteq Timers /\ next \in [Timers -> Nat]
      /\ clock \in Nat /\ Periods \subseteq Nat
      /\ \A i \in Timers : ms[i] \in Nat /\ next[i] \in Nat /\ ms[i] <= next[i]
  BY TimesAreTimes DEF TypeOK
<1>1. ASSUME \A w \in Waiters : Oversleeps(w)' => Oversleeps(w), setBack' = setBack
      PROVE  FirstTimerWatched'
  <2>1. SUFFICES ASSUME \A w \in Waiters : Oversleeps(w)' PROVE setBack' \/ Ringing'
    BY DEF FirstTimerWatched, Ringing
  <2>2. \A w \in Waiters : waiter'[w].at = "wait"
    BY <2>1 DEF Oversleeps
  <2>3. setBack \/ Ringing
    BY <1>1, <2>1 DEF FirstTimerWatched, Ringing
  <2> QED BY <1>1, <2>2, <2>3, RingKept
<1>2. CASE SetBack
  BY <1>2 DEF SetBack, FirstTimerWatched
<1>3. CASE Tick
  <2>1. /\ clock' = clock + 1
        /\ UNCHANGED <<timers, next, waiter, setBack>>
    BY <1>3 DEF Tick
  <2>2. \A w \in Waiters : Oversleeps(w)' => Oversleeps(w)
    BY <1>0, <2>1 DEF Oversleeps
  <2> QED BY <1>1, <2>1, <2>2
<1>4. ASSUME UNCHANGED <<clock, timers, next, waiter, setBack>>
      PROVE  FirstTimerWatched'
  BY <1>1, <1>4 DEF Oversleeps
<1>5. CASE UNCHANGED vars \/ \E u \in Users : Notify(u)
  BY <1>4, <1>5 DEF vars, Notify
<1>6. ASSUME NEW u \in Users, NEW t \in Timers, Cancel(u, t)
      PROVE  FirstTimerWatched'
  BY <1>1, <1>6 DEF Cancel, Oversleeps
<1>7. ASSUME NEW u \in Users, NEW t \in Timers, Refresh(u, t)
      PROVE  FirstTimerWatched'
  <2>1. /\ next' = [next EXCEPT ![t] = clock + ms[t]]
        /\ UNCHANGED <<clock, timers, waiter, setBack>>
    BY <1>7 DEF Refresh
  <2>2. CASE setBack
    BY <2>1, <2>2 DEF FirstTimerWatched
  <2>3. CASE ~setBack
    <3>1. \A i \in Timers : next[i] <= next'[i] /\ next'[i] \in Nat
      BY <1>0, <2>1, <2>3 DEF PastReadings
    <3>2. \A w \in Waiters : Oversleeps(w)' => Oversleeps(w)
      BY <1>0, <2>1, <3>1 DEF Oversleeps
    <3> QED BY <1>1, <2>1, <3>2
  <2> QED BY <2>2, <2>3
<1>8. ASSUME NEW u \in Users, NEW t \in Timers, NEW p \in Periods, Construct(u, t, p)
      PROVE  FirstTimerWatched'
  <2>1. /\ UNCHANGED <<clock, timers, waiter, setBack>> /\ t \notin timers
        /\ \A i \in timers : next'[i] = next[i]
    BY <1>0, <1>8 DEF Construct, Holders
  <2> QED BY <1>1, <2>1 DEF Oversleeps
<1>9. ASSUME NEW u \in Users, Insert(u)
      PROVE  FirstTimerWatched'
  <2>1. user[u].timer \in Timers
    BY <1>9 DEF Insert, Holders, Inserting, TypeOK
  <2> QED BY <1>0, <1>9, <2>1, InsertWatched DEF Insert
<1>10. ASSUME NEW u \in Users, NEW t \in Timers, NEW p \in Periods, NEW fromNow \in BOOLEAN,
              Reset(u, t, p, fromNow)
       PROVE  FirstTimerWatched'
  <2>1. PICK c \in Nat : c = IF fromNow THEN clock ELSE next[t] - ms[t]
    BY <1>0
  <2>0. c + p \in Nat
    BY <1>0
  <2>2. PICK n \in [Timers -> Nat] : n = [next EXCEPT ![t] = c + p]
    BY <1>0, <2>0
  <2>3. InsertFront(u, t, n) /\ next' = n /\ UNCHANGED <<clock, waiter, setBack>>
    BY <1>10, <2>1, <2>2 DEF Reset
  <2>4. \A i \in timers \ {t} : n[i] = next[i]
    BY <1>0, <2>2
  <2> QED BY <2>3, <2>4, InsertWatched
<1>11. ASSUME NEW w \in Waiters, WaiterStep(w)
       PROVE  FirstTimerWatched'
  <2>1. CASE GetNextTimer(w)
    <3>1. /\ waiter'[w] = [at |-> "wait", time |-> clock + Timeout, rung |-> FALSE]
          /\ UNCHANGED <<clock, timers, next, setBack>>
      BY <1>0, <2>1 DEF GetNextTimer
    <3>2. ~Oversleeps(w)'
      BY <1>0, <3>1, TimeoutReach DEF Oversleeps
    <3> QED BY <3>2 DEF FirstTimerWatched
  <2>2. CASE WakeUp(w) \/ ListExpiredCb(w) \/ Drain(w)
    <3>1. waiter'[w].at \in {"expire", "drain", "top"}
      BY <1>0, <2>2 DEF WakeUp, ListExpiredCb, Drain
    <3>2. ~Oversleeps(w)'
      BY <3>1 DEF Oversleeps
    <3> QED BY <3>2 DEF FirstTimerWatched
  <2> QED BY <1>11, <2>1, <2>2 DEF WaiterStep
<1> QED BY <1>2, <1>3, <1>5, <1>6, <1>7, <1>8, <1>9, <1>10, <1>11 DEF Next, UserStep

-----------------------------------------------------------------------------
(* The theorems.                                                           *)

\* The invariant holds in every state.
THEOREM TimerInvariant == Spec => []TimerInv
<1>1. TimerInv /\ [Next]_vars => TimerInv'
  BY TypesKept, ReadingsKept, HoldersKept, TickleKept, WatchKept DEF TimerInv
<1> QED BY <1>1, TimerInit, PTL DEF Spec

\* cancel() never dereferences end(): a timer user code holds is in m_timers while its
\* m_cb is set, however cancel, refresh, reset and expiry alternate.
THEOREM CancelFinds == Spec => []CancelFindsTimer
<1>1. TimerInv => CancelFindsTimer
  BY DEF TimerInv
<1> QED BY <1>1, TimerInvariant, PTL

\* onTimerInsertedAtFront and m_tickled do their work: unless the clock was set back, the
\* waiters never all sleep past the first timer without a ring on its way.
THEOREM FirstTimerIsWatched == Spec => []TimersWatched
<1>1. TimerInv => TimersWatched
  BY DEF TimerInv, TimersWatched
<1> QED BY <1>1, TimerInvariant, PTL

\* The timers listExpiredCb takes are due, unless the clock was set back or the thread was
\* held up for more than the hour detectClockRollover allows.
LEMMA TakenIsDue ==
    ASSUME TypeOK, Readings, PastReadings, NEW w \in Waiters, ListExpiredCb(w),
           NEW t \in timers, t \notin timers' \/ next'[t] # next[t]
    PROVE  next[t] <= clock \/ setBack \/ waiter[w].time + Hour < clock
<1>0. /\ timers \subseteq Timers /\ next \in [Timers -> Nat] /\ clock \in Nat
      /\ previous \in Nat /\ waiter[w].time \in Nat /\ Hour \in Nat /\ waiter[w].at = "expire"
  BY TimerAssumption DEF TypeOK, ListExpiredCb
<1>1. SUFFICES ASSUME ~setBack PROVE next[t] <= clock \/ waiter[w].time + Hour < clock
  OBVIOUS
<1>2. waiter[w].time <= clock /\ previous <= clock
  BY <1>0, <1>1 DEF PastReadings
<1>3. PICK address, gone : ExpiredBy(w, waiter[w].time, address, gone)
  BY ExpiryStep
<1>4. t \in gone
  BY <1>0, <1>3 DEF ExpiredBy
<1>5. CASE Rollover(waiter[w].time)
  BY <1>0, <1>2, <1>5 DEF Rollover
<1>6. CASE ~Rollover(waiter[w].time)
  <2>1. next[t] <= waiter[w].time
    BY <1>0, <1>3, <1>4, <1>6 DEF ExpiredBy, Expired, Due
  <2> QED BY <1>0, <1>2, <2>1
<1> QED BY <1>5, <1>6

\* A timer expires, or a recurring one moves on, only when its time has come, with the
\* two exceptions detectClockRollover makes.
THEOREM ExpiresOnTime == Spec => NeverEarly
<1> DEFINE OnTime ==
      \A w \in Waiters, t \in timers :
         /\ waiter[w].at = "expire" /\ waiter'[w].at = "drain"
         /\ t \notin timers' \/ next'[t] # next[t]
         => next[t] <= clock \/ setBack \/ waiter[w].time + Hour < clock
<1>1. TimerInv /\ [Next]_vars => OnTime
  <2>1. SUFFICES ASSUME TimerInv, [Next]_vars, NEW w \in Waiters, NEW t \in timers,
                        waiter[w].at = "expire", waiter'[w].at = "drain",
                        t \notin timers' \/ next'[t] # next[t]
                 PROVE  next[t] <= clock \/ setBack \/ waiter[w].time + Hour < clock
    OBVIOUS
  <2>2. waiter \in [Waiters -> [at : WaiterSteps, time : Nat, rung : BOOLEAN]]
    BY <2>1 DEF TimerInv, TypeOK
  <2>3. waiter' # waiter
    BY <2>1
  <2>4. ASSUME NEW v \in Waiters, GetNextTimer(v) \/ WakeUp(v) \/ Drain(v)
        PROVE  FALSE
    <3>1. v = w /\ waiter'[v].at # "drain"
      BY <2>1, <2>2, <2>4 DEF GetNextTimer, WakeUp, Drain
    <3> QED BY <2>1, <3>1
  <2>5. ASSUME NEW v \in Waiters, ListExpiredCb(v)
        PROVE  ListExpiredCb(w)
    <3>1. v = w
      BY <2>1, <2>2, <2>5 DEF ListExpiredCb
    <3> QED BY <2>5, <3>1
  <2>6. \E v \in Waiters : WaiterStep(v)
    BY <2>1, <2>3 DEF Next, vars, Tick, SetBack, UserStep, Insert, Notify, Cancel, Refresh, Construct, Reset
  <2>7. ListExpiredCb(w)
    BY <2>4, <2>5, <2>6 DEF WaiterStep
  <2>8. Readings /\ PastReadings
    BY <2>1 DEF TimerInv
  <2>9. TypeOK
    BY <2>1 DEF TimerInv
  <2>10. t \in timers /\ (t \notin timers' \/ next'[t] # next[t])
    BY <2>1
  <2> QED BY <2>7, <2>8, <2>9, <2>10, TakenIsDue
<1> QED BY <1>1, TimerInvariant, PTL DEF Spec, NeverEarly

\* What cancel() or a one-shot expiry has ended, no refresh() or reset() revives.
THEOREM EndedIsFinal == Spec => EndedStaysEnded
<1> DEFINE Stays == \A t \in Known : ~cb[t] => ~cb'[t] /\ t \notin timers'
<1>1. TimerInv /\ [Next]_vars => Stays
  <2>1. SUFFICES ASSUME TimerInv, [Next]_vars, NEW t \in Known, ~cb[t]
                 PROVE  ~cb'[t] /\ t \notin timers'
    OBVIOUS
  <2>2. /\ t \in made /\ t \in Timers /\ t \notin timers /\ cb \in [Timers -> BOOLEAN]
        /\ \A u \in Users : Inserting(u) => user[u].timer # t
    BY <2>1 DEF TimerInv, TypeOK, CancelFindsTimer, Known, Inserting
  <2>3. CASE \/ Tick \/ SetBack \/ UNCHANGED vars
             \/ \E w \in Waiters : GetNextTimer(w) \/ WakeUp(w) \/ Drain(w)
             \/ \E u \in Users : Notify(u)
    BY <2>1, <2>2, <2>3 DEF Tick, SetBack, GetNextTimer, WakeUp, Drain, Notify,
                             vars, record
  <2>4. ASSUME NEW u \in Users, NEW i \in Timers,
               \/ Cancel(u, i) \/ Refresh(u, i)
               \/ \E p \in Periods : Construct(u, i, p)
        PROVE  ~cb'[t] /\ t \notin timers'
    BY <2>1, <2>2, <2>4 DEF Cancel, Refresh, Construct, record
  <2>5. ASSUME NEW u \in Users, Insert(u)
        PROVE  ~cb'[t] /\ t \notin timers'
    BY <2>1, <2>2, <2>5 DEF Insert, InsertFront, Inserting, record
  <2>6. ASSUME NEW u \in Users, NEW i \in Timers, NEW p \in Periods, NEW fromNow \in BOOLEAN,
               Reset(u, i, p, fromNow)
        PROVE  ~cb'[t] /\ t \notin timers'
    BY <2>1, <2>2, <2>6 DEF Reset, InsertFront
  <2>7. ASSUME NEW w \in Waiters, ListExpiredCb(w)
        PROVE  ~cb'[t] /\ t \notin timers'
    <3>1. timers' \subseteq timers /\ ~cb'[t]
      BY <2>1, <2>2, <2>7 DEF ListExpiredCb
    <3> QED BY <2>2, <3>1
  <2> QED BY <2>1, <2>3, <2>4, <2>5, <2>6, <2>7 DEF Next, UserStep, WaiterStep
<1> QED BY <1>1, TimerInvariant, PTL DEF Spec, EndedStaysEnded
=============================================================================
