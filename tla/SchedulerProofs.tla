-------------------------- MODULE SchedulerProofs --------------------------
(***************************************************************************)
(* Proofs about Scheduler, for any set of threads and jobs: its types, its *)
(* counters, and the ownership of jobs from which the safety of switching  *)
(* fibers between threads follows; and, from it, what the scheduler        *)
(* promises its users: its steps are those of the job pool, and stop()     *)
(* drains it when the threads are its own and a running job pins no other  *)
(* job to one of them.                                                     *)
(***************************************************************************)
EXTENDS Scheduler, FiniteSetTheorems, TLAPS

-----------------------------------------------------------------------------
(* Facts about the queue and about counting threads.                       *)

Entries == [task : Jobs, thread : Threads \cup {AnyThread}]
Distinct(q) == \A i, k \in DOMAIN q : i # k => q[i].task # q[k].task

\* Pushing an entry adds its task to the queue's tasks.
LEMMA AppendTasks ==
    ASSUME NEW q \in Seq(Entries), NEW e \in Entries
    PROVE  /\ Append(q, e) \in Seq(Entries)
           /\ Tasks(Append(q, e)) = Tasks(q) \cup {e.task}
           /\ Distinct(q) /\ e.task \notin Tasks(q) => Distinct(Append(q, e))
<1> DEFINE r == Append(q, e)
<1>1. Len(q) \in Nat /\ DOMAIN q = 1 .. Len(q)
  OBVIOUS
<1>2. r \in Seq(Entries) /\ DOMAIN r = 1 .. Len(q) + 1 /\ r[Len(q) + 1] = e
  OBVIOUS
<1>3. \A k \in 1 .. Len(q) : r[k] = q[k]
  OBVIOUS
<1>4. DOMAIN r = DOMAIN q \cup {Len(q) + 1} /\ Len(q) + 1 \notin DOMAIN q
  BY <1>1, <1>2
<1>5. Tasks(r) = Tasks(q) \cup {e.task}
  BY <1>1, <1>2, <1>3, <1>4 DEF Tasks
<1>6. ASSUME Distinct(q), e.task \notin Tasks(q)
      PROVE  Distinct(r)
  BY <1>1, <1>2, <1>3, <1>4, <1>6 DEF Tasks, Distinct
<1> QED BY <1>2, <1>5, <1>6

\* m_fibers.erase(it) removes exactly the entry's task when tasks are distinct.
LEMMA EraseTasks ==
    ASSUME NEW q \in Seq(Entries), NEW i \in DOMAIN q
    PROVE  /\ Erase(q, i) \in Seq(Entries)
           /\ Tasks(Erase(q, i)) \subseteq Tasks(q)
           /\ Distinct(q) => /\ Distinct(Erase(q, i))
                             /\ Tasks(Erase(q, i)) = Tasks(q) \ {q[i].task}
<1> DEFINE n == Len(q) - 1
           r == Erase(q, i)
<1>1. n \in Nat /\ Len(q) \in Nat /\ DOMAIN q = 1 .. Len(q) /\ i \in 1 .. Len(q)
  OBVIOUS
<1>2. r = [k \in 1 .. n |-> IF k < i THEN q[k] ELSE q[k + 1]]
  BY DEF Erase
<1>3. \A k \in 1 .. n : r[k] = IF k < i THEN q[k] ELSE q[k + 1]
  BY <1>2
<1>4. \A k \in 1 .. n : k \in DOMAIN q /\ k + 1 \in DOMAIN q
  BY <1>1
<1>5. \A k \in 1 .. n : r[k] \in Entries
  BY <1>3, <1>4
<1>6. r \in Seq(Entries) /\ DOMAIN r = 1 .. n
  BY <1>1, <1>2, <1>5
<1>7. Tasks(r) \subseteq Tasks(q)
  BY <1>3, <1>4, <1>6 DEF Tasks
<1>8. ASSUME Distinct(q)
      PROVE  Distinct(r) /\ q[i].task \notin Tasks(r)
  <2> DEFINE from(k) == IF k < i THEN k ELSE k + 1
  <2>1. \A k \in DOMAIN r : from(k) \in DOMAIN q /\ r[k] = q[from(k)] /\ from(k) # i
    BY <1>1, <1>3, <1>4, <1>6
  <2>2. \A k, l \in DOMAIN r : k # l => from(k) # from(l)
    BY <1>1, <1>6
  <2> HIDE DEF from, r
  <2>3. Distinct(r)
    BY <2>1, <2>2, <1>8 DEF Distinct
  <2>4. q[i].task \notin Tasks(r)
    BY <2>1, <1>8 DEF Distinct, Tasks
  <2> QED BY <2>3, <2>4 DEF r
<1>9. ASSUME NEW k \in DOMAIN q, k # i
      PROVE  q[k].task \in Tasks(r)
  <2>1. CASE k < i
    BY <2>1, <1>1, <1>3, <1>6 DEF Tasks
  <2>2. CASE k > i
    <3>1. k - 1 \in 1 .. n /\ r[k - 1] = q[k]
      BY <2>2, <1>1, <1>3
    <3> QED BY <3>1, <1>6 DEF Tasks
  <2> QED BY <2>1, <2>2, <1>1, <1>9
<1> QED BY <1>6, <1>7, <1>8, <1>9 DEF Tasks

\* Appending a sequence adds its tasks.
LEMMA ConcatTasks ==
    ASSUME NEW q \in Seq(Entries), NEW s \in Seq(Entries)
    PROVE  /\ q \o s \in Seq(Entries)
           /\ Tasks(q \o s) = Tasks(q) \cup Tasks(s)
           /\ Distinct(q) /\ Distinct(s) /\ Tasks(q) \cap Tasks(s) = {} => Distinct(q \o s)
<1> DEFINE r == q \o s
<1>1. Len(q) \in Nat /\ DOMAIN q = 1 .. Len(q) /\ Len(s) \in Nat /\ DOMAIN s = 1 .. Len(s)
  OBVIOUS
<1>2. r \in Seq(Entries) /\ DOMAIN r = 1 .. Len(q) + Len(s)
  OBVIOUS
<1>3. \A k \in DOMAIN q : k \in DOMAIN r /\ r[k] = q[k]
  BY <1>1, <1>2
<1>4. \A k \in DOMAIN s : k + Len(q) \in DOMAIN r /\ r[k + Len(q)] = s[k]
  BY <1>1, <1>2
<1>5. \A k \in DOMAIN r : k \in DOMAIN q \/ \E l \in DOMAIN s : k = l + Len(q)
  <2>1. \A k \in DOMAIN r : k \notin DOMAIN q => k - Len(q) \in DOMAIN s /\ k = (k - Len(q)) + Len(q)
    BY <1>1, <1>2
  <2> QED BY <2>1
<1> HIDE DEF r
<1>6. Tasks(r) = Tasks(q) \cup Tasks(s)
  BY <1>3, <1>4, <1>5 DEF Tasks
<1>7. ASSUME Distinct(q), Distinct(s), Tasks(q) \cap Tasks(s) = {}
      PROVE  Distinct(r)
  <2>1. SUFFICES ASSUME NEW k \in DOMAIN r, NEW l \in DOMAIN r, k # l
                 PROVE  r[k].task # r[l].task
    BY DEF Distinct
  <2>2. \A m \in DOMAIN q : q[m].task \in Tasks(q)
    BY DEF Tasks
  <2>3. \A m \in DOMAIN s : s[m].task \in Tasks(s)
    BY DEF Tasks
  <2> QED BY <2>1, <2>2, <2>3, <1>3, <1>4, <1>5, <1>7 DEF Distinct
<1> QED BY <1>2, <1>6, <1>7 DEF r

BatchEntries == [i \in 1 .. Len(Batch) |-> [task |-> Batch[i], thread |-> AnyThread]]

\* What schedule(begin, end) pushes: the tasks of the batch, each once.
LEMMA BatchTasks ==
    /\ BatchEntries \in Seq(Entries)
    /\ Tasks(BatchEntries) = Range(Batch)
    /\ Distinct(BatchEntries)
    /\ Range(Batch) \subseteq Callbacks
<1>1. Batch \in Seq(Callbacks) /\ Len(Batch) \in Nat /\ DOMAIN Batch = 1 .. Len(Batch)
  BY JobsAssumption
<1>2. \A i \in 1 .. Len(Batch) : Batch[i] \in Callbacks /\ BatchEntries[i] \in Entries
  BY <1>1 DEF BatchEntries, Entries, Jobs
<1>3. BatchEntries \in Seq(Entries) /\ DOMAIN BatchEntries = 1 .. Len(Batch)
  BY <1>1, <1>2 DEF BatchEntries
<1>4. \A i \in 1 .. Len(Batch) : BatchEntries[i].task = Batch[i]
  BY DEF BatchEntries
<1>5. Tasks(BatchEntries) = Range(Batch)
  BY <1>1, <1>3, <1>4 DEF Tasks, Range
<1>6. Distinct(BatchEntries)
  BY <1>3, <1>4, JobsAssumption DEF Distinct
<1> QED BY <1>1, <1>2, <1>3, <1>5, <1>6 DEF Range

Count(p, L) == Cardinality({t \in Threads : p[t] \in L})

\* One thread moves: the number of threads inside a set of locations changes by one
\* when the thread enters or leaves it.
LEMMA CountMove ==
    ASSUME NEW p \in [Threads -> Locations], NEW t \in Threads, NEW l \in Locations, NEW L
    PROVE  /\ Count(p, L) \in Nat
           /\ p[t] \notin L /\ l \in L => Count([p EXCEPT ![t] = l], L) = Count(p, L) + 1
           /\ p[t] \in L /\ l \notin L => Count([p EXCEPT ![t] = l], L) = Count(p, L) - 1
           /\ (p[t] \in L <=> l \in L) => Count([p EXCEPT ![t] = l], L) = Count(p, L)
<1> DEFINE A == {u \in Threads : p[u] \in L}
           B == {u \in Threads : [p EXCEPT ![t] = l][u] \in L}
<1>1. IsFiniteSet(Threads)
  <2>1. IsFiniteSet(Workers \cup {Root})
    BY ThreadsAssumption, FS_AddElement
  <2> QED BY <2>1, ThreadsAssumption DEF Threads
<1>2. IsFiniteSet(A)
  BY <1>1, FS_Subset
<1>3. Cardinality(A) \in Nat
  BY <1>2, FS_CardinalityType
<1>4. ASSUME p[t] \notin L, l \in L
      PROVE  Cardinality(B) = Cardinality(A) + 1
  <2>1. B = A \cup {t} /\ t \notin A
    BY <1>4
  <2> QED BY <2>1, <1>2, FS_AddElement
<1>5. ASSUME p[t] \in L, l \notin L
      PROVE  Cardinality(B) = Cardinality(A) - 1
  <2>1. B = A \ {t} /\ t \in A
    BY <1>5
  <2> QED BY <2>1, <1>2, FS_RemoveElement
<1>6. ASSUME p[t] \in L <=> l \in L
      PROVE  B = A
  BY <1>6
<1> QED BY <1>3, <1>4, <1>5, <1>6 DEF Count

-----------------------------------------------------------------------------
(* Types and counters.  The counters stay natural numbers because they are *)
(* exact, and the locals of run() are well typed because of where they are *)
(* used; neither is inductive without the other.                           *)

Working == {"dispatch", "exec", "leaving", "swapped"}
Idling == {"idle", "idleLeft"}
Entered(t) == pc[t] \in {"exec", "leaving", "swapped", "settle"}

Typed ==
    /\ queue \in Seq(Entries)
    /\ mStopping \in BOOLEAN /\ autoStop \in BOOLEAN
    /\ fstate \in [Jobs -> FiberStates]
    /\ entry \in [Jobs -> {"MainFunc", "MainFuncCaller"}]
    /\ pc \in [Threads -> Locations]
    /\ ft \in [Threads -> Jobs \cup {Nil}]
    /\ cbFiber \in [Threads -> Jobs \cup {Nil}]
    /\ idleTerm \in [Threads -> BOOLEAN]
    /\ caller \in CallerLocations
    /\ fresh \subseteq Jobs /\ wakers \subseteq Jobs /\ ended \subseteq Jobs
    /\ yields \in [Jobs -> 0 .. MaxYields]

\* run()'s locals hold a job exactly where the code uses one
LocalsFit ==
    \A t \in Threads :
        /\ pc[t] = "dispatch" => ft[t] \in Jobs
        /\ Entered(t) => Running(t) \in Jobs
        /\ ~Entered(t) /\ pc[t] # "dispatch" => ft[t] = Nil

\* before start() no worker thread exists
Started == caller = "user" /\ mStopping => \A t \in Workers : pc[t] = "unborn"

Counted == active = Count(pc, Working) /\ idling = Count(pc, Idling)

TypeInv == Typed /\ LocalsFit /\ Started /\ Counted

\* m_activeThreadCount and m_idleThreadCount start exact.
LEMMA TypeInit == Init => TypeInv
<1> SUFFICES ASSUME Init PROVE TypeInv
  OBVIOUS
<1> USE DEF Init
<1>1. Typed
  <2>1. queue \in Seq(Entries)
    BY DEF Entries
  <2>2. yields \in [Jobs -> 0 .. MaxYields]
    BY JobsAssumption
  <2>3. fstate \in [Jobs -> FiberStates] /\ entry \in [Jobs -> {"MainFunc", "MainFuncCaller"}]
    BY DEF FiberStates
  <2>4. pc \in [Threads -> Locations]
    BY DEF Locations
  <2>5. ft \in [Threads -> Jobs \cup {Nil}] /\ cbFiber \in [Threads -> Jobs \cup {Nil}]
    OBVIOUS
  <2>6. idleTerm \in [Threads -> BOOLEAN]
    OBVIOUS
  <2> QED BY <2>1, <2>2, <2>3, <2>4, <2>5, <2>6 DEF Typed, CallerLocations
<1>2. LocalsFit
  BY DEF LocalsFit, Entered
<1>3. Started
  <2>1. Workers \subseteq Threads
    BY DEF Threads
  <2> QED BY <2>1 DEF Started
<1>4. Counted
  <2>1. {t \in Threads : pc[t] \in Working} = {} /\ {t \in Threads : pc[t] \in Idling} = {}
    BY DEF Working, Idling
  <2> QED BY <2>1, FS_EmptySet DEF Counted, Count
<1> QED BY <1>1, <1>2, <1>3, <1>4 DEF TypeInv

In(l, L) == IF l \in L THEN 1 ELSE 0

\* thread t moves to l and changes both counters by what the move is worth
Moves(t, l) ==
    /\ l \in Locations /\ pc' = [pc EXCEPT ![t] = l]
    /\ active' = active + In(l, Working) - In(pc[t], Working)
    /\ idling' = idling + In(l, Idling) - In(pc[t], Idling)

\* The counters stay exact when one thread moves and counts its move.
LEMMA MovedCounts ==
    ASSUME Typed, Counted, NEW t \in Threads, NEW l, Moves(t, l)
    PROVE  Counted'
<1> USE DEF Moves, In
<1>1. pc \in [Threads -> Locations]
  BY DEF Typed
<1>2. /\ Count(pc, Working) \in Nat
      /\ pc[t] \notin Working /\ l \in Working => Count(pc', Working) = Count(pc, Working) + 1
      /\ pc[t] \in Working /\ l \notin Working => Count(pc', Working) = Count(pc, Working) - 1
      /\ (pc[t] \in Working <=> l \in Working) => Count(pc', Working) = Count(pc, Working)
  BY <1>1, CountMove, Zenon
<1>3. /\ Count(pc, Idling) \in Nat
      /\ pc[t] \notin Idling /\ l \in Idling => Count(pc', Idling) = Count(pc, Idling) + 1
      /\ pc[t] \in Idling /\ l \notin Idling => Count(pc', Idling) = Count(pc, Idling) - 1
      /\ (pc[t] \in Idling <=> l \in Idling) => Count(pc', Idling) = Count(pc, Idling)
  BY <1>1, CountMove, Zenon
<1>4. active' = Count(pc', Working)
  BY <1>2 DEF Counted
<1>5. idling' = Count(pc', Idling)
  BY <1>3 DEF Counted
<1> QED BY <1>4, <1>5 DEF Counted

\* No thread is in run() before start(): Root enters it from stop() only.
LEMMA RunsStarted ==
    ASSUME Typed, Started, NEW t \in Threads, NEW loc, loc # "unborn", At(t, loc)
    PROVE  ~(caller = "user" /\ mStopping)
<1>1. t \in Workers \/ t = Root
  BY DEF Threads
<1> QED BY <1>1 DEF Started, At

\* A job's yields stay within their bound.
LEMMA YieldTyped ==
    ASSUME NEW j \in Jobs, yields \in [Jobs -> 0 .. MaxYields], yields[j] < MaxYields
    PROVE  [yields EXCEPT ![j] = @ + 1] \in [Jobs -> 0 .. MaxYields]
<1>1. yields[j] + 1 \in 0 .. MaxYields
  BY JobsAssumption
<1> QED BY <1>1

\* The counters are natural numbers because they count.
LEMMA CountNat ==
    ASSUME Typed, Counted
    PROVE  active \in Nat /\ idling \in Nat
<1>1. ASSUME NEW L PROVE Count(pc, L) \in Nat
  <2>1. pc \in [Threads -> Locations] /\ "scan" \in Locations
    BY DEF Typed, Locations
  <2>2. PICK t \in Threads : TRUE
    BY ThreadsAssumption
  <2> QED BY <2>1, <2>2, CountMove, Zenon
<1> QED BY <1>1 DEF Counted

\* Every task that schedule() is given fits the queue.
LEMMA TaskEntries ==
    \A j \in Jobs : /\ Task(j) \in Entries /\ Task(j).task = j
                    /\ [task |-> j, thread |-> AnyThread] \in Entries
  BY JobsAssumption DEF Task, Entries

\* Steps of the program and of wakers touch no location but those start() sets.
LEMMA TypeProgram ==
    ASSUME TypeInv, Program \/ (\E j \in Jobs : Wake(j)) \/ Over
    PROVE  TypeInv'
<1> USE DEF TypeInv
<1>1. CASE Start
  <2> USE <1>1 DEF Start, counters, fibers, locals, world
  <2>1. Workers \subseteq Threads /\ \A t \in Workers : pc[t] = "unborn"
    BY DEF Started, Threads
  <2>2. Typed'
    BY DEF Typed, Locations
  <2>3. LocalsFit'
    <3>1. \A t \in Threads : pc'[t] = (IF t \in Workers THEN "scan" ELSE pc[t])
      OBVIOUS
    <3>2. \A t \in Threads : ~Entered(t) /\ pc[t] # "dispatch" => ft'[t] = Nil
      BY DEF LocalsFit
    <3> QED BY <2>1, <3>1, <3>2 DEF LocalsFit, Entered, Running
  <2>4. Started'
    BY DEF Started
  <2>5. /\ {t \in Threads : pc'[t] \in Working} = {t \in Threads : pc[t] \in Working}
        /\ {t \in Threads : pc'[t] \in Idling} = {t \in Threads : pc[t] \in Idling}
    BY <2>1 DEF Working, Idling
  <2>6. Counted'
    BY <2>5 DEF Counted, Count
  <2> QED BY <2>2, <2>3, <2>4, <2>6
<1>2. ASSUME pc' = pc, locals' = locals, counters' = counters
      PROVE  LocalsFit' /\ Counted'
  BY <1>2 DEF LocalsFit, Entered, Running, Counted, Count, locals, counters
<1>3. CASE UserBatch
  <2> USE <1>3 DEF UserBatch, counters, flags, fibers, locals
  <2>1. queue' = queue \o BatchEntries
    BY DEF BatchEntries
  <2>2. queue' \in Seq(Entries)
    <3>1. queue \in Seq(Entries) /\ BatchEntries \in Seq(Entries)
      BY BatchTasks DEF Typed
    <3>2. queue \o BatchEntries \in Seq(Entries)
      BY <3>1, ConcatTasks
    <3> QED BY <2>1, <3>2
  <2>3. Typed'
    BY <2>2 DEF Typed
  <2>4. Started'
    BY DEF Started
  <2> QED BY <2>3, <2>4, <1>2
<1>4. CASE Stop \/ StopLoop \/ Join
  <2> USE <1>4 DEF Stop, StopLoop, Join, counters, flags, fibers, locals, world
  <2>1. Typed'
    BY DEF Typed, CallerLocations
  <2>2. Started'
    BY DEF Started
  <2> QED BY <2>1, <2>2, <1>2
<1>5. ASSUME NEW j \in Jobs, UserSchedule(j) \/ UserReschedule(j) \/ Wake(j)
      PROVE  TypeInv'
  <2> USE <1>5 DEF UserSchedule, UserReschedule, Wake, counters, flags, fibers, locals
  <2>1. queue' \in Seq(Entries)
    <3>1. queue \in Seq(Entries)
      BY DEF Typed
    <3>2. PICK e \in Entries : queue' = Append(queue, e)
      BY TaskEntries
    <3>3. Append(queue, e) \in Seq(Entries)
      BY <3>1, AppendTasks
    <3> QED BY <3>2, <3>3
  <2>2. yields' \in [Jobs -> 0 .. MaxYields]
    BY YieldTyped DEF Typed
  <2>3. Typed'
    BY <2>1, <2>2 DEF Typed
  <2>4. Started'
    BY DEF Started
  <2> QED BY <2>3, <2>4, <1>2
<1>6. CASE Over
  <2> USE <1>6 DEF Over, vars, counters, flags, fibers, locals, world
  <2>1. Typed' /\ Started'
    BY DEF Typed, Started
  <2> QED BY <2>1, <1>2
<1> QED BY <1>1, <1>3, <1>4, <1>5, <1>6 DEF Program

\* What the job a thread is in does to types and counters: nothing but its move.
LEMMA TypeJob ==
    ASSUME TypeInv, NEW t \in Threads, Job(t)
    PROVE  TypeInv'
<1> USE DEF TypeInv
<1>1. Running(t) \in Jobs /\ At(t, "exec") /\ ~(caller = "user" /\ mStopping)
  BY RunsStarted DEF Job, Finish, YieldToHold, YieldToReady, Spawn, At, LocalsFit, Entered
<1>2. Started'
  BY <1>1 DEF Started, Job, Finish, YieldToHold, YieldToReady, Spawn, flags
<1>3. CASE Finish(t) \/ YieldToHold(t) \/ YieldToReady(t)
  <2> USE <1>3 DEF Finish, YieldToHold, YieldToReady, Goto, counters, flags, fibers, locals
  <2>1. pc[t] = "exec" /\ pc' = [pc EXCEPT ![t] = "leaving"] /\ "leaving" \in Locations
    BY <1>1 DEF At, Locations
  <2>2. fstate' \in [Jobs -> FiberStates]
    BY <1>1 DEF Typed, FiberStates, Finished
  <2>3. yields' \in [Jobs -> 0 .. MaxYields]
    BY <1>1, YieldTyped DEF Typed
  <2>4. Typed'
    BY <1>1, <2>1, <2>2, <2>3 DEF Typed
  <2>5. LocalsFit'
    BY <2>1 DEF Typed, LocalsFit, Entered, Running
  <2>6. Counted'
    <3>1. active \in Nat /\ idling \in Nat /\ active' = active /\ idling' = idling
      BY CountNat
    <3>2. Moves(t, "leaving")
      BY <2>1, <3>1 DEF Moves, In, Working, Idling
    <3> QED BY <3>2, MovedCounts
  <2> QED BY <1>2, <2>4, <2>5, <2>6
<1>4. ASSUME NEW j \in Jobs, Spawn(t, j)
      PROVE  TypeInv'
  <2> USE <1>4 DEF Spawn, counters, flags, fibers, locals
  <2>1. queue' \in Seq(Entries)
    BY TaskEntries, AppendTasks DEF Typed
  <2>2. Typed' /\ LocalsFit' /\ Counted'
    BY <2>1 DEF Typed, LocalsFit, Entered, Running, Counted, Count
  <2> QED BY <1>2, <2>2
<1> QED BY <1>3, <1>4 DEF Job

\* Every exit and every branch of run() balances the counter it raised.
LEMMA TypeLoop ==
    ASSUME TypeInv, NEW t \in Threads, Loop(t)
    PROVE  TypeInv'
<1> USE DEF TypeInv, Goto, counters, flags, fibers, locals, world
<1>0. active \in Nat /\ idling \in Nat
  BY CountNat
<1>1. ASSUME NEW l, NEW loc, loc # "unborn", At(t, loc), Moves(t, l), Typed', LocalsFit',
             mStopping' = mStopping, caller' \in {caller, "stop", "exited"}
      PROVE  TypeInv'
  <2>1. ~(caller = "user" /\ mStopping)
    BY <1>1, RunsStarted
  <2>2. Started'
    BY <2>1, <1>1 DEF Started
  <2>3. Counted'
    BY <1>1, MovedCounts
  <2> QED BY <1>1, <2>2, <2>3
<1>2. CASE TakeTask(t)
  <2> USE <1>2 DEF TakeTask
  <2>1. PICK i \in DOMAIN queue : /\ ft' = [ft EXCEPT ![t] = queue[i].task]
                                 /\ queue' = Erase(queue, i)
    OBVIOUS
  <2>2. queue[i].task \in Jobs
    <3>1. queue \in Seq(Entries) /\ i \in 1 .. Len(queue)
      BY DEF Typed
    <3>2. queue[i] \in Entries
      BY <3>1
    <3> QED BY <3>2 DEF Entries
  <2>3. queue' \in Seq(Entries)
    <3>1. queue \in Seq(Entries)
      BY DEF Typed
    <3>2. Erase(queue, i) \in Seq(Entries)
      BY <3>1, EraseTasks, Zenon
    <3> QED BY <2>1, <3>2
  <2>5. At(t, "scan") /\ Moves(t, "dispatch")
    BY <1>0 DEF Typed, At, Moves, In, Working, Idling, Locations
  <2>6. Typed'
    BY <2>5, <2>1, <2>2, <2>3 DEF Typed, Locations
  <2>7. LocalsFit'
    BY <2>5, <2>1, <2>2 DEF Typed, LocalsFit, Entered, Running, At, Moves
  <2> QED BY <1>1, <2>5, <2>6, <2>7
<1>3. CASE FindNothing(t)
  <2> USE <1>3 DEF FindNothing
  <2>5. At(t, "scan") /\ Moves(t, "empty")
    BY <1>0 DEF Typed, At, Moves, In, Working, Idling, Locations
  <2>6. Typed'
    BY <2>5 DEF Typed, Locations
  <2>7. LocalsFit'
    BY <2>5 DEF Typed, LocalsFit, Entered, Running, At, Moves
  <2> QED BY <1>1, <2>5, <2>6, <2>7
<1>4. CASE SwapInFiber(t)
  <2> USE <1>4 DEF SwapInFiber
  <2>1. ft[t] \in Jobs
    BY DEF LocalsFit, At
  <2>2. fstate' \in [Jobs -> FiberStates]
    BY <2>1 DEF Typed, FiberStates
  <2>5. At(t, "dispatch") /\ Moves(t, "exec")
    BY <1>0 DEF Typed, At, Moves, In, Working, Idling, Locations
  <2>6. Typed'
    BY <2>5, <2>2 DEF Typed, Locations
  <2>7. LocalsFit'
    BY <2>5, <2>1, ThreadsAssumption DEF Typed, LocalsFit, Entered, Running, At, Moves
  <2> QED BY <1>1, <2>5, <2>6, <2>7
<1>5. CASE DropFinished(t)
  <2> USE <1>5 DEF DropFinished
  <2>5. At(t, "dispatch") /\ Moves(t, "scan")
    BY <1>0 DEF Typed, At, Moves, In, Working, Idling, Locations
  <2>6. Typed'
    BY <2>5 DEF Typed, Locations
  <2>7. LocalsFit'
    BY <2>5 DEF Typed, LocalsFit, Entered, Running, At, Moves
  <2> QED BY <1>1, <2>5, <2>6, <2>7
<1>6. CASE SwapInCallback(t)
  <2> USE <1>6 DEF SwapInCallback
  <2>1. ft[t] \in Jobs
    BY DEF LocalsFit, At
  <2>2. fstate' \in [Jobs -> FiberStates]
    BY DEF Typed, FiberStates
  <2>3. entry' \in [Jobs -> {"MainFunc", "MainFuncCaller"}]
    BY DEF Typed
  <2>5. At(t, "dispatch") /\ Moves(t, "exec")
    BY <1>0 DEF Typed, At, Moves, In, Working, Idling, Locations
  <2>6. Typed'
    BY <2>5, <2>1, <2>2, <2>3 DEF Typed, Locations
  <2>7. LocalsFit'
    BY <2>5, <2>1 DEF Typed, LocalsFit, Entered, Running, At, Moves
  <2> QED BY <1>1, <2>5, <2>6, <2>7
<1>7. CASE SwapOut(t)
  <2> USE <1>7 DEF SwapOut
  <2>5. At(t, "leaving") /\ Moves(t, "swapped")
    BY <1>0 DEF Typed, At, Moves, In, Working, Idling, Locations
  <2>6. Typed'
    BY <2>5 DEF Typed, Locations, CallerLocations
  <2>7. LocalsFit'
    BY <2>5 DEF Typed, LocalsFit, Entered, Running, At, Moves
  <2> QED BY <1>1, <2>5, <2>6, <2>7
<1>8. CASE Release(t)
  <2> USE <1>8 DEF Release
  <2>5. At(t, "swapped") /\ Moves(t, "settle")
    BY <1>0 DEF Typed, At, Moves, In, Working, Idling, Locations
  <2>6. Typed'
    BY <2>5 DEF Typed, Locations
  <2>7. LocalsFit'
    BY <2>5 DEF Typed, LocalsFit, Entered, Running, At, Moves
  <2> QED BY <1>1, <2>5, <2>6, <2>7
<1>9. CASE SettleReady(t)
  <2> USE <1>9 DEF SettleReady
  <2>1. Running(t) \in Jobs
    BY DEF LocalsFit, Entered, At
  <2>2. queue' \in Seq(Entries)
    BY <2>1, TaskEntries, AppendTasks DEF Typed
  <2>5. At(t, "settle") /\ Moves(t, "scan")
    BY <1>0 DEF Typed, At, Moves, In, Working, Idling, Locations
  <2>6. Typed'
    BY <2>5, <2>2 DEF Typed, Locations
  <2>7. LocalsFit'
    BY <2>5 DEF Typed, LocalsFit, Entered, Running, At, Moves
  <2> QED BY <1>1, <2>5, <2>6, <2>7
<1>10. CASE SettleFinished(t)
  <2> USE <1>10 DEF SettleFinished
  <2>2. fstate' \in [Jobs -> FiberStates]
    BY DEF Typed, FiberStates
  <2>5. At(t, "settle") /\ Moves(t, "scan")
    BY <1>0 DEF Typed, At, Moves, In, Working, Idling, Locations
  <2>6. Typed'
    BY <2>5, <2>2 DEF Typed, Locations
  <2>7. LocalsFit'
    BY <2>5 DEF Typed, LocalsFit, Entered, Running, At, Moves
  <2> QED BY <1>1, <2>5, <2>6, <2>7
<1>11. CASE SettleHold(t)
  <2> USE <1>11 DEF SettleHold
  <2>2. fstate' \in [Jobs -> FiberStates]
    BY DEF Typed, FiberStates
  <2>5. At(t, "settle") /\ Moves(t, "scan")
    BY <1>0 DEF Typed, At, Moves, In, Working, Idling, Locations
  <2>6. Typed'
    BY <2>5, <2>2 DEF Typed, Locations
  <2>7. LocalsFit'
    BY <2>5 DEF Typed, LocalsFit, Entered, Running, At, Moves
  <2> QED BY <1>1, <2>5, <2>6, <2>7
<1>12. CASE EnterIdle(t)
  <2> USE <1>12 DEF EnterIdle
  <2>5. At(t, "empty") /\ Moves(t, "idle")
    BY <1>0 DEF Typed, At, Moves, In, Working, Idling, Locations
  <2>6. Typed'
    BY <2>5 DEF Typed, Locations
  <2>7. LocalsFit'
    BY <2>5 DEF Typed, LocalsFit, Entered, Running, At, Moves
  <2> QED BY <1>1, <2>5, <2>6, <2>7
<1>13. CASE IdleCheck(t)
  <2> USE <1>13 DEF IdleCheck
  <2>1. Stopping \in BOOLEAN
    BY DEF Stopping
  <2>5. At(t, "idle") /\ Moves(t, "idleLeft")
    BY <1>0 DEF Typed, At, Moves, In, Working, Idling, Locations
  <2>6. Typed'
    BY <2>5, <2>1 DEF Typed, Locations, CallerLocations
  <2>7. LocalsFit'
    BY <2>5 DEF Typed, LocalsFit, Entered, Running, At, Moves
  <2> QED BY <1>1, <2>5, <2>6, <2>7
<1>14. CASE LeaveIdle(t)
  <2> USE <1>14 DEF LeaveIdle
  <2>5. At(t, "idleLeft") /\ Moves(t, "scan")
    BY <1>0 DEF Typed, At, Moves, In, Working, Idling, Locations
  <2>6. Typed'
    BY <2>5 DEF Typed, Locations
  <2>7. LocalsFit'
    BY <2>5 DEF Typed, LocalsFit, Entered, Running, At, Moves
  <2> QED BY <1>1, <2>5, <2>6, <2>7
<1>15. CASE ExitRun(t)
  <2> USE <1>15 DEF ExitRun
  <2>5. At(t, "empty") /\ Moves(t, "exited")
    BY <1>0 DEF Typed, At, Moves, In, Working, Idling, Locations
  <2>6. Typed'
    BY <2>5 DEF Typed, Locations, CallerLocations
  <2>7. LocalsFit'
    BY <2>5 DEF Typed, LocalsFit, Entered, Running, At, Moves
  <2> QED BY <1>1, <2>5, <2>6, <2>7
<1> QED BY <1>2, <1>3, <1>4, <1>5, <1>6, <1>7, <1>8, <1>9, <1>10, <1>11, <1>12, <1>13, <1>14, <1>15 DEF Loop

\* No step of the program, a waker or a thread breaks the types or a counter.
LEMMA TypeStep ==
    ASSUME TypeInv, [Next]_vars
    PROVE  TypeInv'
<1>1. CASE Program \/ (\E j \in Jobs : Wake(j)) \/ Over
  BY <1>1, TypeProgram
<1>2. CASE \E t \in Threads : Job(t) \/ Loop(t)
  BY <1>2, TypeJob, TypeLoop
<1>3. CASE UNCHANGED vars
  BY <1>3 DEF TypeInv, Typed, LocalsFit, Entered, Running, Started, Counted, Count,
     vars, counters, flags, fibers, locals, world
<1> QED BY <1>1, <1>2, <1>3 DEF Next

\* Every variable keeps its type and both counters are exact, in every behaviour:
\* the induction that TypeCorrect and CountersCorrect rest on.
THEOREM TypeInvariant == Spec => []TypeInv
<1>1. TypeInv /\ [Next]_vars => TypeInv'
  BY TypeStep
<1> QED BY <1>1, TypeInit, PTL DEF Spec

\* Every variable of the scheduler stays in its type, whatever the threads and jobs.
THEOREM TypeCorrect == Spec => []TypeOK
<1>1. TypeInv => TypeOK
  BY CountNat DEF TypeInv, Typed, TypeOK, Entries
<1> QED BY <1>1, TypeInvariant, PTL

\* m_activeThreadCount and m_idleThreadCount are exact on every path of run().
THEOREM CountersCorrect == Spec => []CountersExact
<1>1. TypeInv => CountersExact
  BY DEF TypeInv, Counted, Count, CountersExact, Working, Idling
<1> QED BY <1>1, TypeInvariant, PTL

-----------------------------------------------------------------------------
(* Ownership.  At every moment the next step of an unfinished job belongs  *)
(* to one place: the queue, a waker, or one thread.  The parts below say   *)
(* where a Fiber may be referred to from and what its state then is; the   *)
(* only Fiber two threads may refer to is a user's that has already ended. *)

Refers(t, j) == ft[t] = j \/ cbFiber[t] = j

\* no fiber but an ended one of the user's is referred to by two threads
Apart ==
    \A t, u \in Threads, j \in Jobs :
        t # u /\ Refers(t, j) /\ Refers(u, j) => j \in ended /\ j \in UserFibers

\* a thread's cb_fiber that is not being run is free for the next callback
SpareIsFree ==
    \A t \in Threads : cbFiber[t] # Nil =>
        /\ cbFiber[t] \in Callbacks
        /\ ~(Entered(t) /\ ft[t] = Nil) => cbFiber[t] \in ended /\ fstate[cbFiber[t]] = "INIT"

Unclaimed(j) == j \notin ended /\ j \notin Tasks(queue) /\ j \notin wakers

Dispatching ==
    \A t \in Threads : pc[t] = "dispatch" =>
        /\ ft[t] \notin fresh /\ fstate[ft[t]] # "EXEC"
        /\ Unclaimed(ft[t]) \/ (ft[t] \in ended /\ ft[t] \in UserFibers)

Executing ==
    \A t \in Threads : pc[t] = "exec" => fstate[Running(t)] = "EXEC" /\ Unclaimed(Running(t))

\* off its stack or nearly so: suspended, to be queued again, or ended
Leaving ==
    \A t \in Threads : pc[t] \in {"leaving", "swapped", "settle"} =>
        \/ fstate[Running(t)] = "EXEC" /\ Running(t) \notin ended
        \/ fstate[Running(t)] = "READY" /\ Unclaimed(Running(t))
        \/ fstate[Running(t)] \in Finished /\ Running(t) \in ended

OneStack ==
    \A t, u \in Threads : t # u /\ Entered(t) /\ Entered(u) => Running(t) # Running(u)

\* what a fiber's state says about its job
States ==
    /\ \A j \in UserFibers : fstate[j] # "NOFIBER" /\ (j \in ended => fstate[j] \in Finished)
    /\ \A j \in Jobs : fstate[j] \in Finished => j \in ended

\* fresh jobs, wakers and queue entries do not overlap; only a user's ended fiber is queued
Places ==
    /\ Distinct(queue)
    /\ \A j \in Jobs :
        /\ j \in fresh => Unclaimed(j) /\ \A t \in Threads : Entered(t) => Running(t) # j
        /\ j \in wakers => j \notin ended /\ j \notin Tasks(queue)
        /\ j \in ended /\ j \in Tasks(queue) => j \in UserFibers

Ownership ==
    /\ Apart /\ SpareIsFree /\ Dispatching /\ Executing /\ Leaving
    /\ OneStack /\ States /\ Places /\ NothingLost

\* No job is anywhere before the program runs.
LEMMA OwnershipInit == Init => Ownership
<1> SUFFICES ASSUME Init PROVE Ownership
  OBVIOUS
<1> USE ThreadsAssumption, JobsAssumption DEF Init
<1>1. Tasks(queue) = {} /\ Distinct(queue)
  BY DEF Tasks, Distinct
<1>2. \A t \in Threads : ~Entered(t) /\ pc[t] # "dispatch"
  BY DEF Entered
<1>3. Apart /\ SpareIsFree
  BY DEF Apart, SpareIsFree, Refers
<1>4. Dispatching /\ Executing /\ Leaving /\ OneStack
  BY <1>2 DEF Dispatching, Executing, Leaving, OneStack, Entered
<1>5. States
  BY DEF States, Finished, Jobs
<1>6. Places /\ NothingLost
  BY <1>1, <1>2 DEF Places, NothingLost, Unclaimed
<1> QED BY <1>3, <1>4, <1>5, <1>6 DEF Ownership

Off == {"leaving", "swapped", "settle"}
Outside == {"unborn", "scan", "empty", "idle", "idleLeft", "exited"}
owned == <<queue, fstate, ft, cbFiber, fresh, wakers, ended>>

\* Moves that neither take a job nor let one go change no ownership.
LEMMA OwnershipQuiet ==
    ASSUME Ownership, UNCHANGED owned,
           \A t \in Threads :
             \/ pc'[t] = pc[t]
             \/ pc[t] \in Off /\ pc'[t] \in Off
             \/ pc[t] \in Outside /\ pc'[t] \in Outside
    PROVE  Ownership'
<1> USE DEF owned
<1>1. \A t \in Threads : /\ (pc[t] \in Off <=> pc'[t] \in Off)
                          /\ (pc[t] = "exec" <=> pc'[t] = "exec")
                          /\ (pc[t] = "dispatch" <=> pc'[t] = "dispatch")
  BY DEF Off, Outside
<1>2. \A t \in Threads : Running(t)' = Running(t)
  BY DEF Running
<1>3. \A t \in Threads : Entered(t)' <=> Entered(t)
  BY <1>1 DEF Entered, Off
<1>4. \A j : Unclaimed(j)' <=> Unclaimed(j)
  BY DEF Unclaimed
<1>5. Apart' /\ SpareIsFree' /\ States'
  BY <1>3 DEF Ownership, Apart, Refers, SpareIsFree, States
<1>6. Dispatching' /\ Executing' /\ Leaving'
  BY <1>1, <1>2, <1>4 DEF Ownership, Dispatching, Executing, Leaving, Off
<1>7. OneStack' /\ Places'
  BY <1>2, <1>3, <1>4 DEF Ownership, OneStack, Places
<1>8. \A t \in Threads, j \in Jobs : Holds(t, j) => Holds(t, j)'
  BY <1>1, <1>2 DEF Holds, Off
<1>9. NothingLost'
  BY <1>8 DEF Ownership, NothingLost
<1> QED BY <1>5, <1>6, <1>7, <1>9 DEF Ownership

\* schedule() moves fresh jobs into the queue.
LEMMA OwnershipAccept ==
    ASSUME TypeInv, Ownership, NEW B, B \subseteq fresh,
           UNCHANGED <<fstate, pc, ft, cbFiber, wakers, ended>>,
           fresh' = fresh \ B, Tasks(queue') = Tasks(queue) \cup B, Distinct(queue')
    PROVE  Ownership'
<1>1. \A t \in Threads : (Entered(t)' <=> Entered(t)) /\ Running(t)' = Running(t)
  BY DEF Entered, Running
<1>2. \A j \in Jobs : j \notin fresh => (Unclaimed(j)' <=> Unclaimed(j))
  BY DEF Unclaimed
<1>3. \A j \in Jobs : j \in fresh /\ j \notin B => Unclaimed(j)'
  BY DEF Ownership, Places, Unclaimed
<1>4. Apart' /\ SpareIsFree' /\ States' /\ OneStack'
  BY <1>1 DEF Ownership, Apart, Refers, SpareIsFree, States, OneStack
<1>5. Dispatching'
  BY <1>2 DEF Ownership, Dispatching, TypeInv, LocalsFit
<1>6. \A t \in Threads : Entered(t) => Running(t) \in Jobs /\ Running(t) \notin fresh
  BY DEF Ownership, Places, TypeInv, Typed, LocalsFit
<1>7. Executing' /\ Leaving'
  BY <1>1, <1>2, <1>6 DEF Ownership, Executing, Leaving, Entered
<1>8. Places'
  BY <1>1, <1>3 DEF Ownership, Places, Unclaimed
<1>9. \A t \in Threads, j \in Jobs : Holds(t, j) => Holds(t, j)'
  BY <1>1 DEF Holds
<1>10. NothingLost'
  BY <1>9 DEF Ownership, NothingLost
<1> QED BY <1>4, <1>5, <1>7, <1>8, <1>10 DEF Ownership

\* A waker queues the job it promised to resume; the program may queue an ended
\* fiber again, which nobody owns.
LEMMA OwnershipRequeue ==
    ASSUME TypeInv, Ownership, NEW j \in Jobs, Wake(j) \/ UserReschedule(j)
    PROVE  Ownership'
<1>1. /\ queue' = Append(queue, Task(j)) \/ queue' = Append(queue, [task |-> j, thread |-> AnyThread])
      /\ \/ j \in wakers /\ wakers' = wakers \ {j}
         \/ fstate[j] \in Finished /\ j \in UserFibers /\ j \notin Tasks(queue) /\ wakers' = wakers
      /\ UNCHANGED <<fstate, pc, ft, cbFiber, fresh, ended>>
  BY DEF Wake, UserReschedule, counters, flags, fibers, locals
<1>2. /\ j \notin Tasks(queue) /\ j \notin fresh
      /\ \/ j \in wakers /\ wakers' = wakers \ {j} /\ j \notin ended
         \/ j \in ended /\ j \in UserFibers /\ wakers' = wakers
  BY <1>1 DEF Ownership, Places, States, Unclaimed
<1>3. Tasks(queue') = Tasks(queue) \cup {j} /\ Distinct(queue')
  <2>1. queue \in Seq(Entries) /\ Distinct(queue)
    BY DEF TypeInv, Typed, Ownership, Places
  <2> QED BY <1>1, <1>2, <2>1, TaskEntries, AppendTasks
<1>4. \A t \in Threads : (Entered(t)' <=> Entered(t)) /\ Running(t)' = Running(t)
  BY <1>1 DEF Entered, Running
<1>5. \A k : Unclaimed(k)' <=> Unclaimed(k)
  BY <1>1, <1>2, <1>3 DEF Unclaimed
<1>6. Apart' /\ SpareIsFree' /\ States' /\ OneStack'
  BY <1>1, <1>4 DEF Ownership, Apart, Refers, SpareIsFree, States, OneStack
<1>7. Dispatching' /\ Executing' /\ Leaving'
  BY <1>1, <1>4, <1>5 DEF Ownership, Dispatching, Executing, Leaving
<1>8. Places'
  BY <1>1, <1>2, <1>3, <1>4, <1>5 DEF Ownership, Places
<1>9. \A t \in Threads, k \in Jobs : Holds(t, k) => Holds(t, k)'
  BY <1>1, <1>4 DEF Holds
<1>10. NothingLost'
  BY <1>1, <1>2, <1>3, <1>9 DEF Ownership, NothingLost
<1> QED BY <1>6, <1>7, <1>8, <1>10 DEF Ownership

\* A job that ends is owned by nobody any more.
LEMMA OwnershipFinish ==
    ASSUME TypeInv, TypeInv', Ownership, NEW t \in Threads, Finish(t)
    PROVE  Ownership'
<1> USE ThreadsAssumption DEF Ownership, TypeInv, Typed
<1>1. /\ pc[t] = "exec" /\ pc' = [pc EXCEPT ![t] = "leaving"]
      /\ \E x \in Finished : fstate' = [fstate EXCEPT ![Running(t)] = x]
      /\ ended' = ended \cup {Running(t)}
      /\ UNCHANGED <<queue, ft, cbFiber, fresh, wakers>>
  BY DEF Finish, At, Goto, counters, flags, locals
<1>2. Running(t) \in Jobs /\ fstate[Running(t)] = "EXEC" /\ Unclaimed(Running(t))
  BY <1>1 DEF LocalsFit, Entered, Executing
<1>3. Running(t)' = Running(t)
  BY <1>1 DEF Running
<1>4. Apart'
  BY <1>1, <1>2 DEF Apart, Refers
<1>5. SpareIsFree'
  BY <1>1, <1>2 DEF SpareIsFree, Entered, Apart, Refers, Running, Finished
<1>6. Dispatching'
  BY <1>1, <1>2 DEF Dispatching, Unclaimed, Apart, Refers, Running, Finished
<1>7. Executing'
  BY <1>1, <1>2 DEF Executing, Unclaimed, Running, Entered, Apart, Refers, Finished
<1>8. Leaving'
  BY <1>1, <1>2 DEF Leaving, Unclaimed, Running, Entered, Apart, Refers, Finished
<1>9. OneStack'
  BY <1>1, <1>2 DEF OneStack, Entered, Apart, Refers, Running, Finished
<1>10. States'
  BY <1>1, <1>2 DEF States, Apart, Refers, Finished
<1>11. Places'
  BY <1>1, <1>2 DEF Places, Unclaimed, Entered, Running, Finished
<1>12. \A u \in Threads, j \in Jobs : j # Running(t) /\ j \notin ended /\ Holds(u, j) => Holds(u, j)'
  BY <1>1, <1>2, <1>3 DEF Holds, Running, Apart, Refers, SpareIsFree, Entered
<1>13. NothingLost'
  BY <1>1, <1>2, <1>3, <1>12 DEF NothingLost
<1> QED BY <1>4, <1>5, <1>6, <1>7, <1>8, <1>9, <1>10, <1>11, <1>12, <1>13

\* A job that yields to hold is its waker's.
LEMMA OwnershipYieldToHold ==
    ASSUME TypeInv, TypeInv', Ownership, NEW t \in Threads, YieldToHold(t)
    PROVE  Ownership'
<1> USE ThreadsAssumption DEF Ownership, TypeInv, Typed
<1>1. /\ pc[t] = "exec" /\ pc' = [pc EXCEPT ![t] = "leaving"]
      /\ wakers' = wakers \cup {Running(t)}
      /\ UNCHANGED <<queue, fstate, ft, cbFiber, fresh, ended>>
  BY DEF YieldToHold, At, Goto, counters, flags, fibers, locals
<1>2. Running(t) \in Jobs /\ fstate[Running(t)] = "EXEC" /\ Unclaimed(Running(t))
  BY <1>1 DEF LocalsFit, Entered, Executing
<1>3. Running(t)' = Running(t)
  BY <1>1 DEF Running
<1>4. Apart'
  BY <1>1, <1>2 DEF Apart, Refers
<1>5. SpareIsFree'
  BY <1>1, <1>2 DEF SpareIsFree, Entered, Apart, Refers, Running, Finished
<1>6. Dispatching'
  BY <1>1, <1>2 DEF Dispatching, Unclaimed, Apart, Refers, Running, Finished
<1>7. Executing'
  BY <1>1, <1>2 DEF Executing, Unclaimed, Running, Entered, Apart, Refers, Finished
<1>8. Leaving'
  BY <1>1, <1>2 DEF Leaving, Unclaimed, Running, Entered, Apart, Refers, Finished
<1>9. OneStack'
  BY <1>1, <1>2 DEF OneStack, Entered, Apart, Refers, Running, Finished
<1>10. States'
  BY <1>1, <1>2 DEF States, Apart, Refers, Finished
<1>11. Places'
  BY <1>1, <1>2 DEF Places, Unclaimed, Entered, Running, Finished
<1>12. \A u \in Threads, j \in Jobs : j # Running(t) /\ j \notin ended /\ Holds(u, j) => Holds(u, j)'
  BY <1>1, <1>2, <1>3 DEF Holds, Running, Apart, Refers, SpareIsFree, Entered
<1>13. NothingLost'
  BY <1>1, <1>2, <1>3, <1>12 DEF NothingLost
<1> QED BY <1>4, <1>5, <1>6, <1>7, <1>8, <1>9, <1>10, <1>11, <1>12, <1>13

\* A job that yields to ready stays its thread's until run() queues it.
LEMMA OwnershipYieldToReady ==
    ASSUME TypeInv, TypeInv', Ownership, NEW t \in Threads, YieldToReady(t)
    PROVE  Ownership'
<1> USE ThreadsAssumption DEF Ownership, TypeInv, Typed
<1>1. /\ pc[t] = "exec" /\ pc' = [pc EXCEPT ![t] = "leaving"]
      /\ fstate' = [fstate EXCEPT ![Running(t)] = "READY"]
      /\ UNCHANGED <<queue, ft, cbFiber, fresh, wakers, ended>>
  BY DEF YieldToReady, At, Goto, counters, flags, locals
<1>2. Running(t) \in Jobs /\ fstate[Running(t)] = "EXEC" /\ Unclaimed(Running(t))
  BY <1>1 DEF LocalsFit, Entered, Executing
<1>3. Running(t)' = Running(t) /\ Holds(t, Running(t))'
  BY <1>1, <1>2 DEF Running, Holds
<1>4. Apart'
  BY <1>1, <1>2 DEF Apart, Refers
<1>5. SpareIsFree'
  BY <1>1, <1>2 DEF SpareIsFree, Entered, Apart, Refers, Running, Finished
<1>6. Dispatching'
  BY <1>1, <1>2 DEF Dispatching, Unclaimed, Apart, Refers, Running, Finished
<1>7. Executing'
  BY <1>1, <1>2 DEF Executing, Unclaimed, Running, Entered, Apart, Refers, Finished
<1>8. Leaving'
  BY <1>1, <1>2 DEF Leaving, Unclaimed, Running, Entered, Apart, Refers, Finished
<1>9. OneStack'
  BY <1>1, <1>2 DEF OneStack, Entered, Apart, Refers, Running, Finished
<1>10. States'
  BY <1>1, <1>2 DEF States, Apart, Refers, Finished
<1>11. Places'
  BY <1>1, <1>2 DEF Places, Unclaimed, Entered, Running, Finished
<1>12. \A u \in Threads, j \in Jobs : j # Running(t) /\ j \notin ended /\ Holds(u, j) => Holds(u, j)'
  BY <1>1, <1>2, <1>3 DEF Holds, Running, Apart, Refers, SpareIsFree, Entered
<1>13. NothingLost'
  BY <1>1, <1>2, <1>3, <1>12 DEF NothingLost
<1> QED BY <1>4, <1>5, <1>6, <1>7, <1>8, <1>9, <1>10, <1>11, <1>12, <1>13

\* The scan moves a job from the queue to one thread.
LEMMA OwnershipTakeTask ==
    ASSUME TypeInv, TypeInv', Ownership, NEW t \in Threads, TakeTask(t)
    PROVE  Ownership'
<1> USE ThreadsAssumption DEF Ownership, TypeInv, Typed
<1>1. PICK J \in Jobs :
        /\ J \in Tasks(queue) /\ fstate[J] # "EXEC"
        /\ pc[t] = "scan" /\ pc' = [pc EXCEPT ![t] = "dispatch"]
        /\ ft[t] = Nil /\ ft' = [ft EXCEPT ![t] = J]
        /\ Distinct(queue') /\ Tasks(queue') = Tasks(queue) \ {J}
        /\ UNCHANGED <<fstate, cbFiber, fresh, wakers, ended>>
  <2>1. PICK i \in DOMAIN queue : /\ Eligible(t, queue[i])
                                 /\ ft' = [ft EXCEPT ![t] = queue[i].task]
                                 /\ queue' = Erase(queue, i)
    BY DEF TakeTask
  <2>2. queue \in Seq(Entries) /\ i \in 1 .. Len(queue) /\ Distinct(queue)
    BY DEF Places
  <2>3. queue[i] \in Entries
    BY <2>2
  <2>4. Distinct(queue') /\ Tasks(queue') = Tasks(queue) \ {queue[i].task}
    BY <2>1, <2>2, EraseTasks
  <2>5. ft[t] = Nil /\ pc[t] = "scan" /\ pc' = [pc EXCEPT ![t] = "dispatch"]
    BY DEF TakeTask, At, Goto, LocalsFit, Entered
  <2>6. queue[i].task \in Jobs /\ fstate[queue[i].task] # "EXEC" /\ queue[i].task \in Tasks(queue)
    BY <2>1, <2>3 DEF Entries, Eligible, Tasks
  <2>7. UNCHANGED <<fstate, cbFiber, fresh, wakers, ended>>
    BY DEF TakeTask, fibers, world
  <2> QED BY <2>1, <2>4, <2>5, <2>6, <2>7
<1>2. /\ J \notin fresh /\ J \notin wakers /\ (J \in ended => J \in UserFibers)
      /\ \A u \in Threads : Refers(u, J) => J \in ended /\ J \in UserFibers
  <2>1. J \notin fresh /\ J \notin wakers /\ (J \in ended => J \in UserFibers) /\ ~Unclaimed(J)
    BY <1>1 DEF Places, Unclaimed
  <2>2. ASSUME NEW u \in Threads, Refers(u, J), J \notin ended
        PROVE  FALSE
    <3>1. (Entered(u) /\ Running(u) = J) \/ (pc[u] = "dispatch" /\ ft[u] = J)
      <4>1. CASE ft[u] = J
        BY <1>1, <2>2, <4>1 DEF LocalsFit, Running
      <4>2. CASE cbFiber[u] = J
        <5>1. cbFiber[u] # Nil
          BY <4>2
        <5>2. Entered(u) /\ ft[u] = Nil
          BY <2>2, <4>2, <5>1 DEF SpareIsFree
        <5> QED BY <4>2, <5>2 DEF Running
      <4> QED BY <2>2, <4>1, <4>2 DEF Refers
    <3> QED BY <1>1, <2>1, <2>2, <3>1 DEF Dispatching, Executing, Leaving, Entered, Finished
  <2> QED BY <2>1, <2>2
<1>3. ft'[t] = J /\ Holds(t, J)'
  BY <1>1 DEF Holds
<1>4. Apart'
  BY <1>1, <1>2 DEF Apart, Refers
<1>5. SpareIsFree'
  BY <1>1, <1>2 DEF SpareIsFree, Entered, Apart, Refers, Running, Finished
<1>6. Dispatching'
  BY <1>1, <1>2 DEF Dispatching, Unclaimed, Apart, Refers, Running, Finished
<1>7. Executing'
  BY <1>1, <1>2 DEF Executing, Unclaimed, Running, Entered, Apart, Refers, Finished
<1>8. Leaving'
  BY <1>1, <1>2 DEF Leaving, Unclaimed, Running, Entered, Apart, Refers, Finished
<1>9. OneStack'
  BY <1>1, <1>2 DEF OneStack, Entered, Apart, Refers, Running, Finished
<1>10. States'
  BY <1>1, <1>2 DEF States, Apart, Refers, Finished
<1>11. Places'
  BY <1>1, <1>2 DEF Places, Unclaimed, Entered, Running, Finished
<1>12. \A u \in Threads, j \in Jobs : j # ft'[t] /\ j \notin ended /\ Holds(u, j) => Holds(u, j)'
  BY <1>1, <1>2, <1>3 DEF Holds, Running, Apart, Refers, SpareIsFree, Entered
<1>13. NothingLost'
  BY <1>1, <1>2, <1>3, <1>12 DEF NothingLost
<1> QED BY <1>4, <1>5, <1>6, <1>7, <1>8, <1>9, <1>10, <1>11, <1>12, <1>13

\* Entering a fiber: the thread that took the job goes on owning it.
LEMMA OwnershipSwapInFiber ==
    ASSUME TypeInv, TypeInv', Ownership, NEW t \in Threads, SwapInFiber(t)
    PROVE  Ownership'
<1> USE ThreadsAssumption DEF Ownership, TypeInv, Typed
<1>1. PICK J \in Jobs :
        /\ J = ft[t] /\ pc[t] = "dispatch" /\ pc' = [pc EXCEPT ![t] = "exec"]
        /\ fstate[J] \notin Finished /\ fstate' = [fstate EXCEPT ![J] = "EXEC"]
        /\ UNCHANGED <<queue, ft, cbFiber, fresh, wakers, ended>>
  BY DEF SwapInFiber, At, Goto, counters, flags, locals, world, LocalsFit
<1>2. /\ Unclaimed(J) /\ J \notin fresh /\ J \notin ended /\ J # Nil
      /\ Running(t)' = J /\ ~Entered(t) /\ cbFiber[t] # J
      /\ \A u \in Threads : u # t => ~Refers(u, J)
  <2>1. Unclaimed(J) /\ J \notin fresh /\ J \notin ended
    BY <1>1 DEF Dispatching, States, Unclaimed
  <2>2. ~Entered(t) /\ Running(t)' = J
    BY <1>1 DEF Running, Entered
  <2>3. cbFiber[t] # J
    BY <1>1, <2>1, <2>2 DEF SpareIsFree
  <2>4. \A u \in Threads : u # t => ~Refers(u, J)
    BY <1>1, <2>1 DEF Apart, Refers
  <2> QED BY <2>1, <2>2, <2>3, <2>4
<1>3. Holds(t, J)'
  BY <1>1, <1>2 DEF Holds
<1>4. Apart'
  BY <1>1, <1>2 DEF Apart, Refers
<1>5. SpareIsFree'
  BY <1>1, <1>2 DEF SpareIsFree, Entered, Apart, Refers, Running, Finished
<1>6. Dispatching'
  BY <1>1, <1>2 DEF Dispatching, Unclaimed, Apart, Refers, Running, Finished
<1>7. Executing'
  BY <1>1, <1>2 DEF Executing, Unclaimed, Running, Entered, Apart, Refers, Finished
<1>8. Leaving'
  BY <1>1, <1>2 DEF Leaving, Unclaimed, Running, Entered, Apart, Refers, Finished
<1>9. OneStack'
  BY <1>1, <1>2 DEF OneStack, Entered, Apart, Refers, Running, Finished
<1>10. States'
  BY <1>1, <1>2 DEF States, Apart, Refers, Finished
<1>11. Places'
  BY <1>1, <1>2 DEF Places, Unclaimed, Entered, Running, Finished
<1>12. \A u \in Threads, j \in Jobs : j # J /\ j \notin ended /\ Holds(u, j) => Holds(u, j)'
  BY <1>1, <1>2, <1>3 DEF Holds, Running, Apart, Refers, SpareIsFree, Entered
<1>13. NothingLost'
  BY <1>1, <1>2, <1>3, <1>12 DEF NothingLost
<1> QED BY <1>4, <1>5, <1>6, <1>7, <1>8, <1>9, <1>10, <1>11, <1>12, <1>13

\* A job that is a fiber which has ended is let go.
LEMMA OwnershipDropFinished ==
    ASSUME TypeInv, TypeInv', Ownership, NEW t \in Threads, DropFinished(t)
    PROVE  Ownership'
<1> USE ThreadsAssumption DEF Ownership, TypeInv, Typed
<1>1. PICK J \in Jobs :
        /\ J = ft[t] /\ pc[t] = "dispatch" /\ pc' = [pc EXCEPT ![t] = "scan"]
        /\ fstate[J] \in Finished /\ ft' = [ft EXCEPT ![t] = Nil]
        /\ UNCHANGED <<queue, fstate, cbFiber, fresh, wakers, ended>>
  BY DEF DropFinished, At, Goto, flags, fibers, world, LocalsFit
<1>2. J \in ended /\ ~Entered(t)
  BY <1>1 DEF States, Entered
<1>3. ~Entered(t)'
  BY <1>1 DEF Entered
<1>4. Apart'
  BY <1>1, <1>2 DEF Apart, Refers
<1>5. SpareIsFree'
  BY <1>1, <1>2 DEF SpareIsFree, Entered, Apart, Refers, Running, Finished
<1>6. Dispatching'
  BY <1>1, <1>2 DEF Dispatching, Unclaimed, Apart, Refers, Running, Finished
<1>7. Executing'
  BY <1>1, <1>2 DEF Executing, Unclaimed, Running, Entered, Apart, Refers, Finished
<1>8. Leaving'
  BY <1>1, <1>2 DEF Leaving, Unclaimed, Running, Entered, Apart, Refers, Finished
<1>9. OneStack'
  BY <1>1, <1>2 DEF OneStack, Entered, Apart, Refers, Running, Finished
<1>10. States'
  BY <1>1, <1>2 DEF States, Apart, Refers, Finished
<1>11. Places'
  BY <1>1, <1>2 DEF Places, Unclaimed, Entered, Running, Finished
<1>12. \A u \in Threads, j \in Jobs : j # J /\ j \notin ended /\ Holds(u, j) => Holds(u, j)'
  BY <1>1, <1>2, <1>3 DEF Holds, Running, Apart, Refers, SpareIsFree, Entered
<1>13. NothingLost'
  BY <1>1, <1>2, <1>3, <1>12 DEF NothingLost
<1> QED BY <1>4, <1>5, <1>6, <1>7, <1>8, <1>9, <1>10, <1>11, <1>12, <1>13

\* Entering a callback: cb_fiber leaves its last job and takes this one.
LEMMA OwnershipSwapInCallback ==
    ASSUME TypeInv, TypeInv', Ownership, NEW t \in Threads, SwapInCallback(t)
    PROVE  Ownership'
<1> USE ThreadsAssumption DEF Ownership, TypeInv, Typed
<1>1. PICK J \in Jobs :
        /\ J = ft[t] /\ pc[t] = "dispatch" /\ pc' = [pc EXCEPT ![t] = "exec"]
        /\ fstate[J] = "NOFIBER"
        /\ fstate' = [j \in Jobs |-> IF j = J THEN "EXEC"
                                     ELSE IF j = cbFiber[t] THEN "NOFIBER" ELSE fstate[j]]
        /\ cbFiber' = [cbFiber EXCEPT ![t] = J] /\ ft' = [ft EXCEPT ![t] = Nil]
        /\ UNCHANGED <<queue, fresh, wakers, ended>>
  <2>1. ft[t] \in Jobs
    BY DEF SwapInCallback, At, LocalsFit
  <2> QED BY <2>1 DEF SwapInCallback, At, Goto, counters, flags, world
<1>2. /\ J \in Callbacks /\ J \notin UserFibers /\ Unclaimed(J) /\ J \notin fresh /\ J \notin ended /\ J # Nil
      /\ Running(t)' = J /\ ~Entered(t)
      /\ cbFiber[t] # Nil => /\ cbFiber[t] \in ended /\ cbFiber[t] \in Callbacks
                             /\ cbFiber[t] \notin UserFibers
      /\ \A u \in Threads : u # t => ~Refers(u, J) /\ (cbFiber[t] # Nil => ~Refers(u, cbFiber[t]))
  <2>1. J \in Callbacks /\ J \notin UserFibers
    BY <1>1, JobsAssumption DEF States, Jobs
  <2>2. Unclaimed(J) /\ J \notin fresh /\ J \notin ended
    BY <1>1, <2>1 DEF Dispatching, Unclaimed
  <2>3. ~Entered(t) /\ Running(t)' = J
    BY <1>1 DEF Running, Entered
  <2>4. cbFiber[t] # Nil => /\ cbFiber[t] \in ended /\ cbFiber[t] \in Callbacks
                            /\ cbFiber[t] \notin UserFibers
    BY <2>3, JobsAssumption DEF SpareIsFree
  <2>5. \A u \in Threads : u # t => ~Refers(u, J) /\ (cbFiber[t] # Nil => ~Refers(u, cbFiber[t]))
    BY <1>1, <2>2, <2>4 DEF Apart, Refers
  <2> QED BY <2>1, <2>2, <2>3, <2>4, <2>5
<1>3. /\ Holds(t, J)' /\ fstate'[J] = "EXEC"
      /\ \A j \in Jobs : fstate'[j] = fstate[j] \/ j = J \/ (j = cbFiber[t] /\ fstate'[j] = "NOFIBER")
      /\ \A u \in Threads, j \in Jobs : u # t /\ Refers(u, j) => fstate'[j] = fstate[j]
      /\ \A u \in Threads : Entered(u) => Running(u) \in Jobs /\ Refers(u, Running(u))
  <2>1. Holds(t, J)' /\ fstate'[J] = "EXEC"
    BY <1>1, <1>2 DEF Holds
  <2>2. \A j \in Jobs : fstate'[j] = fstate[j] \/ j = J \/ (j = cbFiber[t] /\ fstate'[j] = "NOFIBER")
    BY <1>1
  <2>3. \A u \in Threads, j \in Jobs : u # t /\ Refers(u, j) => fstate'[j] = fstate[j]
    <3>1. SUFFICES ASSUME NEW u \in Threads, NEW j \in Jobs, u # t, Refers(u, j)
                   PROVE  fstate'[j] = fstate[j]
      OBVIOUS
    <3>2. j # J /\ j # cbFiber[t]
      BY <1>2, <3>1
    <3> QED BY <2>2, <3>2
  <2>4. \A u \in Threads : Entered(u) => Running(u) \in Jobs /\ Refers(u, Running(u))
    BY DEF LocalsFit, Running, Refers
  <2> QED BY <2>1, <2>2, <2>3, <2>4
<1>4. Apart'
  BY <1>1, <1>2, <1>3 DEF Apart, Refers
<1>5. SpareIsFree'
  BY <1>1, <1>2, <1>3 DEF SpareIsFree, Entered, Apart, Refers, Running, Finished
<1>6. Dispatching'
  <2>1. SUFFICES ASSUME NEW u \in Threads, pc'[u] = "dispatch"
                 PROVE  /\ ft[u] \notin fresh /\ fstate'[ft[u]] # "EXEC" /\ ft'[u] = ft[u]
                        /\ Unclaimed(ft[u]) \/ (ft[u] \in ended /\ ft[u] \in UserFibers)
    BY <1>1 DEF Dispatching, Unclaimed
  <2>2. u # t /\ pc[u] = "dispatch" /\ ft[u] \in Jobs /\ Refers(u, ft[u])
    BY <1>1, <2>1 DEF LocalsFit, Refers
  <2>3. fstate'[ft[u]] = fstate[ft[u]]
    BY <1>3, <2>2
  <2> QED BY <1>1, <2>2, <2>3 DEF Dispatching
<1>7. Executing'
  BY <1>1, <1>2, <1>3 DEF Executing, Unclaimed, Running, Entered, Apart, Refers, Finished
<1>8. Leaving'
  BY <1>1, <1>2, <1>3 DEF Leaving, Unclaimed, Running, Entered, Apart, Refers, Finished
<1>9. OneStack'
  BY <1>1, <1>2, <1>3 DEF OneStack, Entered, Apart, Refers, Running, Finished
<1>10. States'
  <2>1. \A j \in UserFibers : j \in Jobs /\ j # J /\ j # cbFiber[t]
    BY <1>2, ThreadsAssumption DEF Jobs
  <2>2. \A j \in UserFibers : fstate'[j] = fstate[j]
    BY <1>3, <2>1
  <2>3. \A j \in Jobs : fstate'[j] \in Finished => fstate'[j] = fstate[j]
    BY <1>3 DEF Finished
  <2> QED BY <1>1, <2>2, <2>3 DEF States
<1>11. Places'
  BY <1>1, <1>2, <1>3 DEF Places, Unclaimed, Entered, Running, Finished
<1>12. \A u \in Threads, j \in Jobs : j # J /\ j \notin ended /\ Holds(u, j) => Holds(u, j)'
  BY <1>1, <1>2, <1>3 DEF Holds, Running, Apart, Refers, SpareIsFree, Entered
<1>13. NothingLost'
  BY <1>1, <1>2, <1>3, <1>12 DEF NothingLost
<1> QED BY <1>4, <1>5, <1>6, <1>7, <1>8, <1>9, <1>10, <1>11, <1>12, <1>13

\* A fiber left READY goes from its thread to the queue.
LEMMA OwnershipSettleReady ==
    ASSUME TypeInv, TypeInv', Ownership, NEW t \in Threads, SettleReady(t)
    PROVE  Ownership'
<1> USE ThreadsAssumption DEF Ownership, TypeInv, Typed
<1>1. PICK J \in Jobs :
        /\ J = Running(t) /\ pc[t] = "settle" /\ pc' = [pc EXCEPT ![t] = "scan"]
        /\ fstate[J] = "READY" /\ Distinct(queue') /\ Tasks(queue') = Tasks(queue) \cup {J}
        /\ cbFiber' = IF ft[t] = Nil THEN [cbFiber EXCEPT ![t] = Nil] ELSE cbFiber
        /\ ft' = [ft EXCEPT ![t] = Nil]
        /\ UNCHANGED <<fstate, fresh, wakers, ended>>
  <2>1. Running(t) \in Jobs /\ pc[t] = "settle"
    BY DEF SettleReady, At, LocalsFit, Entered
  <2>2. Running(t) \notin Tasks(queue)
    BY <2>1 DEF SettleReady, Leaving, Unclaimed, Finished
  <2>3. queue \in Seq(Entries) /\ queue' = Append(queue, [task |-> Running(t), thread |-> AnyThread])
    BY DEF SettleReady
  <2>4. Distinct(queue') /\ Tasks(queue') = Tasks(queue) \cup {Running(t)}
    BY <2>1, <2>2, <2>3, TaskEntries, AppendTasks DEF Places
  <2> QED BY <2>1, <2>4 DEF SettleReady, Goto, counters, flags, fibers, world
<1>2. /\ J \notin ended /\ J \notin fresh /\ J \notin wakers
      /\ ~Entered(t)' /\ cbFiber'[t] # J
      /\ \A u \in Threads : u # t => ~Refers(u, J)
  <2>1. J \notin ended /\ J \notin fresh /\ J \notin wakers /\ Entered(t)
    BY <1>1 DEF Leaving, Unclaimed, Finished, Entered, Places
  <2>2. ~Entered(t)' /\ cbFiber'[t] # J
    BY <1>1, <2>1 DEF Entered, SpareIsFree
  <2>3. \A u \in Threads : u # t => ~Refers(u, J)
    BY <1>1, <2>1 DEF Apart, Refers, Running
  <2> QED BY <2>1, <2>2, <2>3
<1>3. J \in Tasks(queue')
  BY <1>1
<1>4. Apart'
  BY <1>1, <1>2 DEF Apart, Refers
<1>5. SpareIsFree'
  BY <1>1, <1>2 DEF SpareIsFree, Entered, Apart, Refers, Running, Finished
<1>6. Dispatching'
  BY <1>1, <1>2 DEF Dispatching, Unclaimed, Apart, Refers, Running, Finished
<1>7. Executing'
  BY <1>1, <1>2 DEF Executing, Unclaimed, Running, Entered, Apart, Refers, Finished
<1>8. Leaving'
  BY <1>1, <1>2 DEF Leaving, Unclaimed, Running, Entered, Apart, Refers, Finished
<1>9. OneStack'
  BY <1>1, <1>2 DEF OneStack, Entered, Apart, Refers, Running, Finished
<1>10. States'
  BY <1>1, <1>2 DEF States, Apart, Refers, Finished
<1>11. Places'
  BY <1>1, <1>2 DEF Places, Unclaimed, Entered, Running, Finished
<1>12. \A u \in Threads, j \in Jobs : j # J /\ j \notin ended /\ Holds(u, j) => Holds(u, j)'
  BY <1>1, <1>2, <1>3 DEF Holds, Running, Apart, Refers, SpareIsFree, Entered
<1>13. NothingLost'
  BY <1>1, <1>2, <1>3, <1>12 DEF NothingLost
<1> QED BY <1>4, <1>5, <1>6, <1>7, <1>8, <1>9, <1>10, <1>11, <1>12, <1>13

\* A job that has ended is let go; a callback's fiber becomes the thread's spare.
LEMMA OwnershipSettleFinished ==
    ASSUME TypeInv, TypeInv', Ownership, NEW t \in Threads, SettleFinished(t)
    PROVE  Ownership'
<1> USE ThreadsAssumption DEF Ownership, TypeInv, Typed
<1>1. PICK J \in Jobs :
        /\ J = Running(t) /\ pc[t] = "settle" /\ pc' = [pc EXCEPT ![t] = "scan"]
        /\ fstate[J] \in Finished
        /\ fstate' = IF ft[t] = Nil THEN [fstate EXCEPT ![J] = "INIT"] ELSE fstate
        /\ ft' = [ft EXCEPT ![t] = Nil]
        /\ UNCHANGED <<queue, cbFiber, fresh, wakers, ended>>
  <2>1. Running(t) \in Jobs /\ pc[t] = "settle"
    BY DEF SettleFinished, At, LocalsFit, Entered
  <2>2. ft[t] = Nil => cbFiber[t] = Running(t)
    BY DEF Running
  <2> QED BY <2>1, <2>2 DEF SettleFinished, Goto, counters, flags, world
<1>2. /\ J \in ended /\ Entered(t)
      /\ ft[t] = Nil => cbFiber[t] = J /\ J \in Callbacks /\ J \notin UserFibers
                         /\ \A u \in Threads : u # t => ~Refers(u, J)
  <2>1. J \in ended /\ Entered(t)
    BY <1>1 DEF States, Entered
  <2>2. ft[t] = Nil => cbFiber[t] = J /\ J \in Callbacks /\ J \notin UserFibers
    BY <1>1, JobsAssumption DEF SpareIsFree, Running
  <2>3. ft[t] = Nil => \A u \in Threads : u # t => ~Refers(u, J)
    BY <1>1, <2>2 DEF Apart, Refers
  <2> QED BY <2>1, <2>2, <2>3
<1>3. ~Entered(t)'
  BY <1>1 DEF Entered
<1>4. Apart'
  BY <1>1, <1>2, <1>3 DEF Apart, Refers
<1>5. SpareIsFree'
  BY <1>1, <1>2, <1>3 DEF SpareIsFree, Entered, Apart, Refers, Running, Finished
<1>6. Dispatching'
  BY <1>1, <1>2, <1>3 DEF Dispatching, Unclaimed, Apart, Refers, Running, Finished
<1>7. Executing'
  BY <1>1, <1>2, <1>3 DEF Executing, Unclaimed, Running, Entered, Apart, Refers, Finished
<1>8. Leaving'
  BY <1>1, <1>2, <1>3 DEF Leaving, Unclaimed, Running, Entered, Apart, Refers, Finished
<1>9. OneStack'
  BY <1>1, <1>2, <1>3 DEF OneStack, Entered, Apart, Refers, Running, Finished
<1>10. States'
  BY <1>1, <1>2, <1>3 DEF States, Apart, Refers, Finished
<1>11. Places'
  BY <1>1, <1>2, <1>3 DEF Places, Unclaimed, Entered, Running, Finished
<1>12. \A u \in Threads, j \in Jobs : j # J /\ j \notin ended /\ Holds(u, j) => Holds(u, j)'
  BY <1>1, <1>2 DEF Holds, Running, Apart, Refers, SpareIsFree, Entered
<1>13. NothingLost'
  BY <1>1, <1>2, <1>3, <1>12 DEF NothingLost
<1> QED BY <1>4, <1>5, <1>6, <1>7, <1>8, <1>9, <1>10, <1>11, <1>12, <1>13

\* A fiber that yielded to hold is its waker's, or already queued.
LEMMA OwnershipSettleHold ==
    ASSUME TypeInv, TypeInv', Ownership, NEW t \in Threads, SettleHold(t)
    PROVE  Ownership'
<1> USE ThreadsAssumption DEF Ownership, TypeInv, Typed
<1>1. PICK J \in Jobs :
        /\ J = Running(t) /\ pc[t] = "settle" /\ pc' = [pc EXCEPT ![t] = "scan"]
        /\ fstate[J] \notin Finished \cup {"READY"} /\ fstate' = [fstate EXCEPT ![J] = "HOLD"]
        /\ cbFiber' = IF ft[t] = Nil THEN [cbFiber EXCEPT ![t] = Nil] ELSE cbFiber
        /\ ft' = [ft EXCEPT ![t] = Nil]
        /\ UNCHANGED <<queue, fresh, wakers, ended>>
  <2>1. Running(t) \in Jobs /\ pc[t] = "settle"
    BY DEF SettleHold, At, LocalsFit, Entered
  <2> QED BY <2>1 DEF SettleHold, Goto, counters, flags, world
<1>2. /\ J \notin ended /\ J \notin fresh /\ ~Entered(t)' /\ Entered(t) /\ cbFiber'[t] # J
      /\ \A u \in Threads : u # t => ~Refers(u, J)
  <2>1. J \notin ended /\ J \notin fresh /\ Entered(t)
    BY <1>1 DEF Leaving, Entered, Places
  <2>2. ~Entered(t)' /\ cbFiber'[t] # J
    BY <1>1, <2>1 DEF Entered, SpareIsFree
  <2>3. \A u \in Threads : u # t => ~Refers(u, J)
    BY <1>1, <2>1 DEF Apart, Refers, Running
  <2> QED BY <2>1, <2>2, <2>3
<1>3. J \in Tasks(queue) \/ J \in wakers
  <2>1. \A u \in Threads : ~Holds(u, J)
    BY <1>1, <1>2 DEF Holds, Running, Refers
  <2> QED BY <1>2, <2>1 DEF NothingLost
<1>4. Apart'
  BY <1>1, <1>2 DEF Apart, Refers
<1>5. SpareIsFree'
  BY <1>1, <1>2 DEF SpareIsFree, Entered, Apart, Refers, Running, Finished
<1>6. Dispatching'
  BY <1>1, <1>2 DEF Dispatching, Unclaimed, Apart, Refers, Running, Finished
<1>7. Executing'
  BY <1>1, <1>2 DEF Executing, Unclaimed, Running, Entered, Apart, Refers, Finished
<1>8. Leaving'
  BY <1>1, <1>2 DEF Leaving, Unclaimed, Running, Entered, Apart, Refers, Finished
<1>9. OneStack'
  BY <1>1, <1>2 DEF OneStack, Entered, Apart, Refers, Running, Finished
<1>10. States'
  BY <1>1, <1>2 DEF States, Apart, Refers, Finished
<1>11. Places'
  BY <1>1, <1>2 DEF Places, Unclaimed, Entered, Running, Finished
<1>12. \A u \in Threads, j \in Jobs : j # J /\ j \notin ended /\ Holds(u, j) => Holds(u, j)'
  BY <1>1, <1>2 DEF Holds, Running, Apart, Refers, SpareIsFree, Entered
<1>13. NothingLost'
  BY <1>1, <1>2, <1>3, <1>12 DEF NothingLost
<1> QED BY <1>4, <1>5, <1>6, <1>7, <1>8, <1>9, <1>10, <1>11, <1>12, <1>13

\* Whatever happens next, every unfinished job still has exactly one owner.
LEMMA OwnershipStep ==
    ASSUME TypeInv, TypeInv', Ownership, [Next]_vars
    PROVE  Ownership'
<1> USE DEF counters, flags, fibers, locals, world
<1>1. CASE Start \/ Stop \/ StopLoop \/ Join \/ Over \/ UNCHANGED vars
  <2>1. Workers \subseteq Threads /\ pc \in [Threads -> Locations]
    BY DEF Threads, TypeInv, Typed
  <2>2. UNCHANGED owned
    BY <1>1 DEF Start, Stop, StopLoop, Join, Over, vars, owned
  <2>3. \A u \in Threads : pc'[u] = pc[u] \/ (pc[u] \in Outside /\ pc'[u] \in Outside)
    <3>1. CASE Start
      BY <3>1, <2>1 DEF Start, Outside, TypeInv, Started
    <3>2. CASE Stop \/ StopLoop \/ Join \/ Over \/ UNCHANGED vars
      BY <3>2 DEF Stop, StopLoop, Join, Over, vars
    <3> QED BY <1>1, <3>1, <3>2
  <2> QED BY <2>2, <2>3, OwnershipQuiet
<1>2. CASE UserBatch
  <2>1. queue' = queue \o BatchEntries /\ fresh' = fresh \ Range(Batch)
    BY <1>2 DEF UserBatch, BatchEntries
  <2>2. Range(Batch) \subseteq fresh /\ UNCHANGED <<fstate, pc, ft, cbFiber, wakers, ended>>
    BY <1>2 DEF UserBatch
  <2>3. Range(Batch) \cap Tasks(queue) = {}
    BY <2>2, BatchTasks DEF Ownership, Places, Unclaimed, Jobs
  <2>4. Tasks(queue') = Tasks(queue) \cup Range(Batch) /\ Distinct(queue')
    BY <2>1, <2>3, BatchTasks, ConcatTasks DEF TypeInv, Typed, Ownership, Places
  <2> QED BY <2>1, <2>2, <2>4, OwnershipAccept
<1>3. ASSUME NEW j \in Jobs, UserSchedule(j) \/ \E t \in Threads : Spawn(t, j)
      PROVE  Ownership'
  <2>1. /\ j \in fresh /\ queue' = Append(queue, Task(j)) /\ fresh' = fresh \ {j}
        /\ UNCHANGED <<fstate, pc, ft, cbFiber, wakers, ended>>
    BY <1>3 DEF UserSchedule, Spawn
  <2>2. queue \in Seq(Entries) /\ Distinct(queue) /\ j \notin Tasks(queue)
    BY <2>1 DEF TypeInv, Typed, Ownership, Places, Unclaimed
  <2>3. Tasks(queue') = Tasks(queue) \cup {j} /\ Distinct(queue')
    BY <2>1, <2>2, TaskEntries, AppendTasks
  <2>4. {j} \subseteq fresh
    BY <2>1
  <2> QED BY <2>1, <2>3, <2>4, OwnershipAccept
<1>4. ASSUME NEW j \in Jobs, UserReschedule(j) \/ Wake(j)
      PROVE  Ownership'
  BY <1>4, OwnershipRequeue
<1>5. ASSUME NEW t \in Threads,
             \/ FindNothing(t) \/ SwapOut(t) \/ Release(t)
             \/ EnterIdle(t) \/ IdleCheck(t) \/ LeaveIdle(t) \/ ExitRun(t)
      PROVE  Ownership'
  <2> USE DEF FindNothing, SwapOut, Release, EnterIdle, IdleCheck, LeaveIdle, ExitRun, At, Goto
  <2>1. UNCHANGED owned
    BY <1>5 DEF owned
  <2>2. PICK l \in Off \cup Outside :
        /\ pc' = [pc EXCEPT ![t] = l]
        /\ (pc[t] \in Off /\ l \in Off) \/ (pc[t] \in Outside /\ l \in Outside)
    BY <1>5 DEF Off, Outside
  <2>3. pc \in [Threads -> Locations]
    BY DEF TypeInv, Typed
  <2>4. \A u \in Threads :
        \/ pc'[u] = pc[u]
        \/ pc[u] \in Off /\ pc'[u] \in Off
        \/ pc[u] \in Outside /\ pc'[u] \in Outside
    BY <2>2, <2>3
  <2> QED BY <2>1, <2>4, OwnershipQuiet
<1>6. ASSUME NEW t \in Threads,
             \/ Finish(t) \/ YieldToHold(t) \/ YieldToReady(t)
             \/ TakeTask(t) \/ SwapInFiber(t) \/ DropFinished(t) \/ SwapInCallback(t)
             \/ SettleReady(t) \/ SettleFinished(t) \/ SettleHold(t)
      PROVE  Ownership'
  BY <1>6, OwnershipFinish, OwnershipYieldToHold, OwnershipYieldToReady, OwnershipTakeTask,
     OwnershipSwapInFiber, OwnershipDropFinished, OwnershipSwapInCallback,
     OwnershipSettleReady, OwnershipSettleFinished, OwnershipSettleHold
<1> QED BY <1>1, <1>2, <1>3, <1>4, <1>5, <1>6 DEF Next, Program, Job, Loop

\* In every behaviour each unfinished job has exactly one owner: the inductive
\* invariant behind the four safety theorems below.
THEOREM OwnershipInvariant == Spec => [](TypeInv /\ Ownership)
<1>1. Init => Ownership
  BY OwnershipInit
<1>2. TypeInv /\ TypeInv' /\ Ownership /\ [Next]_vars => Ownership'
  BY OwnershipStep
<1> QED BY <1>1, <1>2, TypeInvariant, PTL DEF Spec

\* No two threads are ever on one fiber's stack, even when a waker schedules a
\* fiber before it has switched out.
THEOREM FibersExclusive == Spec => []FiberMutex
<1>1. TypeInv /\ Ownership => FiberMutex
  BY DEF Ownership, OneStack, FiberMutex, OnStack, Entered
<1> QED BY <1>1, OwnershipInvariant, PTL

\* The assertions of swapIn() and Fiber::reset() hold whenever run() reaches them.
THEOREM AssertionsHold == Spec => []AssertsHold
<1>1. TypeInv /\ Ownership => AssertsHold
  BY DEF TypeInv, LocalsFit, Ownership, Dispatching, SpareIsFree, AssertsHold, Resettable, Entered
<1> QED BY <1>1, OwnershipInvariant, PTL

\* No job that schedule() accepted is dropped before its function has ended.
THEOREM JobsKept == Spec => []NothingLost
<1>1. TypeInv /\ Ownership => NothingLost
  BY DEF Ownership
<1> QED BY <1>1, OwnershipInvariant, PTL

\* No job is queued twice, resumed twice for one yield, or run again after it ended.
THEOREM JobsClaimedOnce == Spec => []ClaimedOnce
<1>1. ASSUME TypeInv, Ownership
      PROVE  ClaimedOnce
  <2> USE <1>1 DEF Ownership
  <2>1. \A i, k \in DOMAIN queue : i # k => queue[i].task # queue[k].task
    BY DEF Places, Distinct
  <2>2. /\ wakers \cap Tasks(queue) = {}
        /\ ended \cap Callbacks \cap (Tasks(queue) \cup wakers) = {}
    BY JobsAssumption DEF Places, TypeInv, Typed, Jobs
  <2>3. ASSUME NEW t \in Threads, NEW j \in Jobs \ ended, Holds(t, j)
        PROVE  j \notin Tasks(queue) \cup wakers /\ Refers(t, j)
    BY <2>3 DEF Holds, Running, Refers, Dispatching, Executing, Leaving, Unclaimed, Finished
  <2>4. ASSUME NEW t \in Threads, NEW u \in Threads, NEW j \in Jobs \ ended,
               Holds(t, j), Holds(u, j)
        PROVE  u = t
    BY <2>3, <2>4 DEF Apart
  <2> QED BY <2>1, <2>2, <2>3, <2>4 DEF ClaimedOnce
<1> QED BY <1>1, OwnershipInvariant, PTL

-----------------------------------------------------------------------------
(* The job pool.                                                           *)

Executed(j) == \E t \in Threads : pc[t] = "exec" /\ Running(t) = j

\* Nobody begins, ends, suspends or wakes a job.
LEMMA StatusKept ==
    ASSUME UNCHANGED <<fresh, ended, wakers>>,
           \A u \in Threads : /\ pc'[u] = "exec" <=> pc[u] = "exec"
                              /\ pc[u] = "exec" => Running(u)' = Running(u)
    PROVE  \A j \in Jobs : Status(j)' = Status(j)
<1>1. \A j \in Jobs : Executed(j)' <=> Executed(j)
  BY DEF Executed
<1> QED BY <1>1 DEF Status, Executed

\* A job that no thread executes has the status its place gives it.
LEMMA StatusOf ==
    /\ \A j \in fresh : Status(j) = "new"
    /\ \A j \in ended \ fresh : Status(j) = "done"
    /\ \A j \in wakers \ (fresh \cup ended) : Status(j) = "suspended"
    /\ \A j : j \notin fresh \cup ended \cup wakers =>
          Status(j) = (IF Executed(j) THEN "running" ELSE "waiting")
BY DEF Status, Executed

\* A step that leaves every job's status alone is a stutter of the pool.
LEMMA PoolStutter ==
    ASSUME \A j \in Jobs : Status(j)' = Status(j)
    PROVE  [Pool!Next]_([j \in Jobs |-> Status(j)])
<1>1. [j \in Jobs |-> Status(j)]' = [j \in Jobs |-> Status(j)]
  OBVIOUS
<1> QED BY <1>1

\* A step that moves one job is the pool's step for that job.
LEMMA PoolMove ==
    ASSUME NEW j \in Jobs, \A i \in Jobs \ {j} : Status(i)' = Status(i),
           \/ Status(j) = "waiting" /\ Status(j)' = "running"
           \/ Status(j) = "running" /\ Status(j)' \in {"waiting", "suspended", "done"}
           \/ Status(j) = "suspended" /\ Status(j)' = "waiting"
    PROVE  [Pool!Next]_([j2 \in Jobs |-> Status(j2)])
<1> DEFINE St == [i \in Jobs |-> Status(i)]
<1>1. /\ St[j] = Status(j)
      /\ St' = [St EXCEPT ![j] = Status(j)']
  OBVIOUS
<1> QED BY <1>1 DEF Pool!Next, Pool!Begin, Pool!GiveWay, Pool!Suspend, Pool!Resume, Pool!End, Pool!Move

\* schedule() accepts new jobs.
LEMMA PoolAccept ==
    ASSUME NEW B \in SUBSET Jobs, \A i \in Jobs \ B : Status(i)' = Status(i),
           \A i \in B : Status(i) = "new" /\ Status(i)' = "waiting"
    PROVE  [Pool!Next]_([j2 \in Jobs |-> Status(j2)])
<1> DEFINE St == [i \in Jobs |-> Status(i)]
<1>1. /\ \A i \in B : St[i] = "new"
      /\ St' = [i \in Jobs |-> IF i \in B THEN "waiting" ELSE St[i]]
  OBVIOUS
<1> QED BY <1>1 DEF Pool!Next, Pool!Accept

\* Jobs handed to schedule() by the program or by a running job.
LEMMA StepAccept ==
    ASSUME TypeInv, Ownership, NEW B \in SUBSET fresh,
           fresh' = fresh \ B, UNCHANGED <<wakers, ended, pc, ft, cbFiber>>
    PROVE  [Pool!Next]_([j \in Jobs |-> Status(j)])
<1>1. B \in SUBSET Jobs
  BY DEF TypeInv, Typed
<1>2. \A u \in Threads : Running(u)' = Running(u)
  BY DEF Running
<1>3. \A i \in Jobs : Executed(i)' <=> Executed(i)
  BY <1>2 DEF Executed
<1>4. \A i \in B : i \notin ended /\ i \notin wakers /\ ~Executed(i)
  BY <1>1 DEF Ownership, Places, Unclaimed, Executed, Entered
<1>5. \A i \in B : Status(i) = "new" /\ Status(i)' = "waiting"
  BY <1>1, <1>3, <1>4 DEF Status, Executed
<1>6. \A i \in Jobs \ B : Status(i)' = Status(i)
  BY <1>3 DEF Status, Executed
<1> QED BY <1>1, <1>5, <1>6, PoolAccept

\* A waker fires.
LEMMA StepWake ==
    ASSUME TypeInv, Ownership, NEW j \in Jobs, Wake(j)
    PROVE  [Pool!Next]_([i \in Jobs |-> Status(i)])
<1>1. /\ j \in wakers /\ wakers' = wakers \ {j}
      /\ UNCHANGED <<pc, ft, cbFiber, fresh, ended>>
  BY DEF Wake, locals
<1>2. \A i \in Jobs : Executed(i)' <=> Executed(i)
  BY <1>1 DEF Executed, Running
<1>3. j \notin fresh /\ j \notin ended /\ ~Executed(j)
  BY <1>1 DEF Ownership, Places, Executing, Unclaimed, Executed
<1>4. Status(j) = "suspended" /\ Status(j)' = "waiting"
  BY <1>1, <1>2, <1>3 DEF Status, Executed
<1>5. \A i \in Jobs \ {j} : Status(i)' = Status(i)
  BY <1>1, <1>2 DEF Status, Executed
<1> QED BY <1>4, <1>5, PoolMove

\* A thread enters a job that it took from the queue.
LEMMA StepBegin ==
    ASSUME TypeInv, Ownership, NEW t \in Threads, SwapInFiber(t) \/ SwapInCallback(t)
    PROVE  [Pool!Next]_([i \in Jobs |-> Status(i)])
<1>0. PICK j \in Jobs : j = ft[t]
  BY DEF SwapInFiber, SwapInCallback, At, TypeInv, LocalsFit
<1>1. /\ pc[t] = "dispatch" /\ pc' = [pc EXCEPT ![t] = "exec"] /\ fstate[j] \notin Finished
      /\ UNCHANGED <<fresh, ended, wakers>>
      /\ \/ UNCHANGED <<ft, cbFiber>>
         \/ cbFiber' = [cbFiber EXCEPT ![t] = j] /\ ft' = [ft EXCEPT ![t] = Nil]
  BY <1>0 DEF SwapInFiber, SwapInCallback, At, Goto, locals, world, Finished
<1>2. j \in Jobs /\ j # Nil
  BY ThreadsAssumption
<1>3. j \notin fresh /\ j \notin ended /\ j \notin wakers
  BY <1>0, <1>1, <1>2 DEF Ownership, Dispatching, States, Unclaimed
<1>4. ~Executed(j)
  BY <1>0, <1>1, <1>2, <1>3 DEF Executed, Running, Ownership, Apart, Refers
<1>5. pc'[t] = "exec" /\ Running(t)' = j
  BY <1>0, <1>1, <1>2 DEF Running, TypeInv, Typed
<1>6. \A u \in Threads \ {t} : pc'[u] = pc[u] /\ Running(u)' = Running(u)
  BY <1>1 DEF Running, TypeInv, Typed
<1>7. \A i \in Jobs \ {j} : Executed(i)' <=> Executed(i)
  BY <1>1, <1>5, <1>6 DEF Executed
<1>8. Executed(j)'
  BY <1>5 DEF Executed
<1>9. Status(j) = "waiting" /\ Status(j)' = "running"
  BY <1>1, <1>3, <1>4, <1>8 DEF Status, Executed
<1>10. \A i \in Jobs \ {j} : Status(i)' = Status(i)
  BY <1>1, <1>7 DEF Status, Executed
<1> QED BY <1>2, <1>9, <1>10, PoolMove

\* The job a thread executes ends or gives the thread up.
LEMMA StepLeave ==
    ASSUME TypeInv, Ownership, NEW t \in Threads, Finish(t) \/ YieldToHold(t) \/ YieldToReady(t)
    PROVE  [Pool!Next]_([i \in Jobs |-> Status(i)])
<1>0. PICK j \in Jobs : j = Running(t)
  BY DEF Finish, YieldToHold, YieldToReady, At, TypeInv, LocalsFit, Entered
<1>1. /\ pc[t] = "exec" /\ pc' = [pc EXCEPT ![t] = "leaving"]
      /\ UNCHANGED <<fresh, ft, cbFiber>>
      /\ \/ ended' = ended \cup {j} /\ wakers' = wakers
         \/ wakers' = wakers \cup {j} /\ ended' = ended
         \/ UNCHANGED <<ended, wakers>>
  BY <1>0 DEF Finish, YieldToHold, YieldToReady, At, Goto, locals
<1>2. j \in Jobs /\ j \notin ended /\ j \notin wakers /\ j \notin fresh
  BY <1>0, <1>1 DEF Entered, Ownership, Executing, Unclaimed, Places
<1>3. \A u \in Threads : Running(u)' = Running(u)
  BY <1>1 DEF Running
<1>4. \A u \in Threads \ {t} : pc'[u] = pc[u]
  BY <1>1 DEF TypeInv, Typed
<1>5. pc'[t] = "leaving"
  BY <1>1 DEF TypeInv, Typed
<1>6. Executed(j) /\ ~Executed(j)'
  <2>1. \A u \in Threads \ {t} : pc[u] = "exec" => Running(u) # j
    BY <1>0, <1>1 DEF Ownership, OneStack, Entered
  <2> QED BY <1>0, <1>1, <1>3, <1>4, <1>5, <2>1 DEF Executed
<1>7. \A i \in Jobs \ {j} : Executed(i)' <=> Executed(i)
  BY <1>0, <1>1, <1>3, <1>4, <1>5 DEF Executed
<1>8. Status(j) = "running" /\ Status(j)' \in {"waiting", "suspended", "done"}
  BY <1>1, <1>2, <1>6 DEF Status, Executed
<1>9. \A i \in Jobs \ {j} : Status(i)' = Status(i)
  BY <1>1, <1>7 DEF Status, Executed
<1> QED BY <1>2, <1>8, <1>9, PoolMove

\* Every step of the scheduler is a step of the pool or leaves it alone.
LEMMA PoolStep ==
    ASSUME TypeInv, Ownership, [Next]_vars
    PROVE  [Pool!Next]_([j \in Jobs |-> Status(j)])
<1> USE DEF counters, flags, fibers, locals, world
<1>1. CASE Start \/ Stop \/ StopLoop \/ Join \/ Over \/ (\E j \in Jobs : UserReschedule(j)) \/ UNCHANGED vars
  <2>1. UNCHANGED <<fresh, ended, wakers, ft, cbFiber>>
    BY <1>1 DEF Start, Stop, StopLoop, Join, Over, UserReschedule, vars
  <2>2. \A u \in Threads : pc'[u] = pc[u] \/ (pc[u] = "unborn" /\ pc'[u] = "scan")
    <3>1. CASE Start
      BY <3>1 DEF Start, TypeInv, Started, Threads
    <3>2. CASE Stop \/ StopLoop \/ Join \/ Over \/ (\E j \in Jobs : UserReschedule(j)) \/ UNCHANGED vars
      BY <3>2 DEF Stop, StopLoop, Join, Over, UserReschedule, vars
    <3> QED BY <1>1, <3>1, <3>2
  <2> QED BY <2>1, <2>2, StatusKept, PoolStutter DEF Running
<1>2. CASE UserBatch
  <2>1. Range(Batch) \in SUBSET fresh
    BY <1>2 DEF UserBatch
  <2> QED BY <1>2, <2>1, StepAccept DEF UserBatch
<1>3. ASSUME NEW j \in Jobs, UserSchedule(j) \/ \E t \in Threads : Spawn(t, j)
      PROVE  [Pool!Next]_([i \in Jobs |-> Status(i)])
  <2>1. {j} \in SUBSET fresh
    BY <1>3 DEF UserSchedule, Spawn
  <2> QED BY <1>3, <2>1, StepAccept DEF UserSchedule, Spawn
<1>4. ASSUME NEW t \in Threads,
             \/ TakeTask(t) \/ FindNothing(t) \/ DropFinished(t) \/ SwapOut(t) \/ Release(t)
             \/ SettleReady(t) \/ SettleFinished(t) \/ SettleHold(t)
             \/ EnterIdle(t) \/ IdleCheck(t) \/ LeaveIdle(t) \/ ExitRun(t)
      PROVE  [Pool!Next]_([i \in Jobs |-> Status(i)])
  <2> USE DEF TakeTask, FindNothing, DropFinished, SwapOut, Release, SettleReady, SettleFinished,
              SettleHold, EnterIdle, IdleCheck, LeaveIdle, ExitRun, At, Goto
  <2>1. UNCHANGED <<fresh, ended, wakers>>
    BY <1>4
  <2>2. /\ pc[t] # "exec"
        /\ \E l \in Locations \ {"exec"} : pc' = [pc EXCEPT ![t] = l]
    BY <1>4 DEF Locations
  <2>3. /\ ft' = ft \/ \E x : ft' = [ft EXCEPT ![t] = x]
        /\ cbFiber' = cbFiber \/ cbFiber' = [cbFiber EXCEPT ![t] = Nil]
    BY <1>4
  <2>4. \A u \in Threads : /\ pc'[u] = "exec" <=> pc[u] = "exec"
                           /\ pc[u] = "exec" => Running(u)' = Running(u)
    BY <2>2, <2>3 DEF TypeInv, Typed, Running
  <2> QED BY <2>1, <2>4, StatusKept, PoolStutter
<1>5. CASE \E j \in Jobs : Wake(j)
  BY <1>5, StepWake
<1>6. ASSUME NEW t \in Threads,
             Finish(t) \/ YieldToHold(t) \/ YieldToReady(t) \/ SwapInFiber(t) \/ SwapInCallback(t)
      PROVE  [Pool!Next]_([i \in Jobs |-> Status(i)])
  BY <1>6, StepBegin, StepLeave
<1> QED BY <1>1, <1>2, <1>3, <1>4, <1>5, <1>6 DEF Next, Program, Job, Loop

\* The scheduler implements the steps of the job pool: a job is accepted once, is
\* begun from the queue alone, and ends, waits again or is suspended where it ran.
THEOREM PoolRefinement == Spec => PoolSteps
<1>1. Init => Pool!Init
  <2> SUFFICES ASSUME Init PROVE Pool!Init
    OBVIOUS
  <2>1. \A j \in Jobs : Status(j) = "new"
    BY DEF Init, Status
  <2> QED BY <2>1 DEF Pool!Init
<1>2. TypeInv /\ Ownership /\ [Next]_vars => [Pool!Next]_([j \in Jobs |-> Status(j)])
  BY PoolStep
<1> QED BY <1>1, <1>2, OwnershipInvariant, PTL DEF Spec, PoolSteps, Pool!Safety

-----------------------------------------------------------------------------
(* stop() drains the pool.  A thread whose idle fiber has ended may still  *)
(* take tasks before it leaves run(), so that its having seen stopping()   *)
(* is not enough: as long as a job needs a thread some thread is going to  *)
(* look at the queue again.                                                *)

\* A job pinned to a thread that has left run() would never be taken.
OwnThreads == ~UseCaller /\ \A j \in Spawned : Pin[j] = AnyThread

\* thread t does not look at the queue again
Done(t) == idleTerm[t] /\ pc[t] \in {"empty", "exited"}

\* stop() is called once, and waits for every thread
StopOrder ==
    /\ caller \in {"user", "join", "returned"}
    /\ caller = "user" => ~autoStop
    /\ caller = "returned" => \A t \in Workers : pc[t] = "exited"

\* an idle fiber ends after stop() was called, when nothing was queued for one thread
EndedIdle ==
    /\ \A t \in Threads : pc[t] = "exited" => idleTerm[t]
    /\ (\E t \in Threads : idleTerm[t]) =>
          caller # "user" /\ \A i \in DOMAIN queue : queue[i].thread = AnyThread

\* a Fiber in EXEC has a thread behind it; a suspended job's Fiber is in EXEC or HOLD
Suspension ==
    /\ \A j \in Jobs : fstate[j] = "EXEC" => \E t \in Threads : Entered(t) /\ Running(t) = j
    /\ \A j \in wakers : fstate[j] \in {"EXEC", "HOLD"}

OnHold == \A j \in Jobs \ (fresh \cup ended) : fstate[j] = "HOLD"

Attended == OnHold \/ \E t \in Threads : ~Done(t)

Drain == StopOrder /\ EndedIdle /\ Suspension /\ Attended

\* Nothing is running when the scheduler is built.
LEMMA DrainInit == OwnThreads /\ Init => Drain
<1> SUFFICES ASSUME OwnThreads, Init PROVE Drain
  OBVIOUS
<1>1. StopOrder /\ EndedIdle
  <2>1. caller = "user" /\ autoStop = FALSE
    BY DEF Init
  <2>2. \A t \in Threads : idleTerm[t] = FALSE /\ pc[t] # "exited"
    BY DEF Init
  <2>3. StopOrder
    BY <2>1 DEF StopOrder
  <2>4. EndedIdle
    BY <2>2 DEF EndedIdle
  <2> QED BY <2>3, <2>4
<1>2. Suspension
  BY DEF Init, Suspension
<1>3. Attended
  BY DEF Init, Attended, OnHold
<1> QED BY <1>1, <1>2, <1>3 DEF Drain

\* Without use_caller nobody returns to stop()'s loop.
LEMMA StopOrderKept ==
    ASSUME OwnThreads, TypeInv, Drain, [Next]_vars
    PROVE  StopOrder'
<1> USE DEF OwnThreads, Drain, StopOrder, flags, counters, fibers, locals, world
<1>0. Root \notin Threads /\ Threads = Workers
  BY ThreadsAssumption DEF Threads
<1>1. CASE Program \/ (\E j \in Jobs : Wake(j)) \/ Over \/ UNCHANGED vars
  <2>1. CASE Start
    BY <2>1 DEF Start
  <2>2. CASE Stop \/ StopLoop \/ Join
    BY <1>0, <2>2 DEF Stop, StopLoop, Join
  <2>3. ASSUME UNCHANGED <<caller, autoStop, pc>>
        PROVE  StopOrder'
    BY <2>3
  <2>4. CASE UserBatch \/ Over \/ UNCHANGED vars
    BY <2>3, <2>4 DEF UserBatch, Over, vars
  <2>5. ASSUME NEW j \in Jobs, UserSchedule(j) \/ UserReschedule(j) \/ Wake(j)
        PROVE  StopOrder'
    BY <2>3, <2>5 DEF UserSchedule, UserReschedule, Wake
  <2> QED BY <1>1, <2>1, <2>2, <2>4, <2>5 DEF Program
<1>2. ASSUME NEW t \in Threads, Job(t) \/ Loop(t)
      PROVE  StopOrder'
  <2>1. caller' = caller /\ autoStop' = autoStop
    BY <1>0, <1>2 DEF Job, Finish, YieldToHold, YieldToReady, Spawn, Loop, TakeTask, FindNothing,
         SwapInFiber, DropFinished, SwapInCallback, SwapOut, ReturnsToStop, Release, SettleReady,
         SettleFinished, SettleHold, EnterIdle, IdleCheck, LeaveIdle, ExitRun
  <2>2. \E loc \in Locations \ {"exited"} : pc[t] = loc
    BY <1>2 DEF Job, Finish, YieldToHold, YieldToReady, Spawn, Loop, TakeTask, FindNothing,
         SwapInFiber, DropFinished, SwapInCallback, SwapOut, Release, SettleReady,
         SettleFinished, SettleHold, EnterIdle, IdleCheck, LeaveIdle, ExitRun, At, Locations
  <2> QED BY <1>0, <2>1, <2>2
<1> QED BY <1>1, <1>2 DEF Next

Unpinned(q) == \A i \in DOMAIN q : q[i].thread = AnyThread

\* The queue's entries stay for any thread when such an entry is added or one is erased.
LEMMA UnpinnedKept ==
    ASSUME NEW q \in Seq(Entries), Unpinned(q)
    PROVE  /\ \A e \in Entries : e.thread = AnyThread => Unpinned(Append(q, e))
           /\ \A i \in DOMAIN q : Unpinned(Erase(q, i))
<1>1. ASSUME NEW e \in Entries, e.thread = AnyThread
      PROVE  Unpinned(Append(q, e))
  <2> DEFINE r == Append(q, e)
  <2>1. Len(q) \in Nat /\ DOMAIN q = 1 .. Len(q)
    OBVIOUS
  <2>2. DOMAIN r = 1 .. Len(q) + 1 /\ r[Len(q) + 1] = e /\ \A k \in 1 .. Len(q) : r[k] = q[k]
    OBVIOUS
  <2>3. \A k \in 1 .. Len(q) + 1 : k \in 1 .. Len(q) \/ k = Len(q) + 1
    BY <2>1
  <2> HIDE DEF r
  <2> QED BY <1>1, <2>1, <2>2, <2>3 DEF Unpinned, r
<1>2. ASSUME NEW i \in DOMAIN q
      PROVE  Unpinned(Erase(q, i))
  <2> DEFINE n == Len(q) - 1
             r == Erase(q, i)
  <2>1. n \in Nat /\ DOMAIN q = 1 .. Len(q) /\ Len(q) \in Nat
    OBVIOUS
  <2>2. r = [k \in 1 .. n |-> IF k < i THEN q[k] ELSE q[k + 1]]
    BY DEF Erase
  <2>3. \A k \in 1 .. n : k \in DOMAIN q /\ k + 1 \in DOMAIN q
    BY <2>1
  <2> QED BY <2>2, <2>3 DEF Unpinned
<1> QED BY <1>1, <1>2

\* Once an idle fiber has ended, nothing is queued for one thread any more.
LEMMA EndedIdleKept ==
    ASSUME OwnThreads, TypeInv, Drain, [Next]_vars
    PROVE  EndedIdle'
<1> USE DEF Drain, flags, counters, fibers, locals, world
<1>0. queue \in Seq(Entries) /\ pc \in [Threads -> Locations] /\ idleTerm \in [Threads -> BOOLEAN]
  BY DEF TypeInv, Typed
<1>1. CASE Program \/ Over \/ UNCHANGED vars
  <2>1. idleTerm' = idleTerm
    BY <1>1 DEF Program, Start, UserBatch, Stop, StopLoop, Join, UserSchedule, UserReschedule, Over, vars
  <2>2. CASE caller = "user"
    <3>1. \A t \in Threads : ~idleTerm[t] /\ pc[t] # "exited"
      BY <2>2 DEF EndedIdle
    <3>2. \A t \in Threads : pc'[t] # "exited"
      BY <1>1, <3>1 DEF Program, Start, UserBatch, Stop, StopLoop, Join, UserSchedule, UserReschedule, Over, vars
    <3> QED BY <2>1, <3>1, <3>2 DEF EndedIdle
  <2>3. CASE caller # "user"
    <3>1. UNCHANGED <<pc, queue>> /\ caller' # "user"
      BY <1>1, <2>3 DEF Program, Start, UserBatch, Stop, StopLoop, Join, UserSchedule, UserReschedule, Over, vars
    <3> QED BY <2>1, <3>1 DEF EndedIdle
  <2> QED BY <2>2, <2>3
<1>2. ASSUME Unpinned(queue) => Unpinned(queue'), idleTerm' = idleTerm, caller' = caller,
             \A t \in Threads : pc'[t] = "exited" => pc[t] = "exited" \/ idleTerm[t]
      PROVE  EndedIdle'
  BY <1>2 DEF EndedIdle, Unpinned
<1>3. ASSUME NEW j \in Jobs, Wake(j)
      PROVE  EndedIdle'
  <2>1. [task |-> j, thread |-> AnyThread] \in Entries
    BY TaskEntries
  <2>2. Unpinned(queue) => Unpinned(queue')
    BY <1>0, <1>3, <2>1, UnpinnedKept DEF Wake
  <2> QED BY <1>2, <1>3, <2>2 DEF Wake
<1>4. ASSUME NEW t \in Threads, Job(t)
      PROVE  EndedIdle'
  <2>1. idleTerm' = idleTerm /\ caller' = caller /\ \A u \in Threads : pc'[u] = "exited" => pc[u] = "exited"
    BY <1>0, <1>4 DEF Job, Finish, YieldToHold, YieldToReady, Spawn, Goto
  <2>2. Unpinned(queue) => Unpinned(queue')
    <3>1. ASSUME NEW j \in Jobs, Spawn(t, j), Unpinned(queue)
          PROVE  Unpinned(queue')
      <4>1. Task(j) \in Entries /\ Task(j).thread = AnyThread
        BY <3>1, TaskEntries DEF Spawn, OwnThreads, Task
      <4> QED BY <1>0, <3>1, <4>1, UnpinnedKept DEF Spawn
    <3> QED BY <1>4, <3>1 DEF Job, Finish, YieldToHold, YieldToReady
  <2> QED BY <1>2, <2>1, <2>2
<1>5. ASSUME NEW t \in Threads, Loop(t), ~IdleCheck(t)
      PROVE  EndedIdle'
  <2>0. t # Root
    BY ThreadsAssumption DEF OwnThreads, Threads
  <2>1. idleTerm' = idleTerm /\ caller' = caller
    BY <1>5, <2>0 DEF Loop, TakeTask, FindNothing, SwapInFiber, DropFinished, SwapInCallback, SwapOut,
         ReturnsToStop, Release, SettleReady, SettleFinished, SettleHold, EnterIdle, LeaveIdle, ExitRun
  <2>2. \A u \in Threads : pc'[u] = "exited" => pc[u] = "exited" \/ idleTerm[u]
    BY <1>0, <1>5 DEF Loop, TakeTask, FindNothing, SwapInFiber, DropFinished, SwapInCallback, SwapOut,
         Release, SettleReady, SettleFinished, SettleHold, EnterIdle, LeaveIdle, ExitRun, Goto
  <2>3. Unpinned(queue) => Unpinned(queue')
    <3>1. CASE TakeTask(t)
      BY <1>0, <3>1, UnpinnedKept DEF TakeTask
    <3>2. CASE SettleReady(t)
      <4>1. [task |-> Running(t), thread |-> AnyThread] \in Entries
        BY <3>2, TaskEntries DEF SettleReady, At, TypeInv, LocalsFit, Entered
      <4> QED BY <1>0, <3>2, <4>1, UnpinnedKept DEF SettleReady
    <3> QED BY <1>5, <3>1, <3>2 DEF Loop, FindNothing, SwapInFiber, DropFinished, SwapInCallback,
         SwapOut, Release, SettleFinished, SettleHold, EnterIdle, LeaveIdle, ExitRun
  <2> QED BY <1>2, <2>1, <2>2, <2>3
<1>6. ASSUME NEW t \in Threads, IdleCheck(t)
      PROVE  EndedIdle'
  <2>1. /\ t # Root /\ caller' = caller /\ queue' = queue /\ pc[t] = "idle"
        /\ pc' = [pc EXCEPT ![t] = "idleLeft"]
        /\ idleTerm' = [idleTerm EXCEPT ![t] = Stopping]
    BY <1>6, ThreadsAssumption DEF IdleCheck, At, Goto, OwnThreads, Threads
  <2>2. Stopping => caller # "user" /\ Unpinned(queue)
    BY DEF Stopping, StopOrder, Unpinned
  <2>3. \A u \in Threads : pc'[u] = "exited" => u # t /\ pc[u] = "exited"
    BY <1>0, <2>1
  <2>4. \A u \in Threads : u # t => idleTerm'[u] = idleTerm[u]
    BY <1>0, <2>1
  <2>5. idleTerm'[t] => Stopping
    BY <1>0, <2>1
  <2> QED BY <2>1, <2>2, <2>3, <2>4, <2>5 DEF EndedIdle, Unpinned
<1> QED BY <1>1, <1>3, <1>4, <1>5, <1>6 DEF Next

\* A Fiber in EXEC has a thread behind it until that thread has set its state.
LEMMA SuspensionKept ==
    ASSUME TypeInv, Ownership, Suspension, [Next]_vars
    PROVE  Suspension'
<1> USE DEF Suspension, flags, counters, fibers, locals, world
<1>0. /\ pc \in [Threads -> Locations] /\ fstate \in [Jobs -> FiberStates] /\ wakers \subseteq Jobs
      /\ ft \in [Threads -> Jobs \cup {Nil}] /\ cbFiber \in [Threads -> Jobs \cup {Nil}]
  BY DEF TypeInv, Typed
<1>1. ASSUME fstate' = fstate, wakers' \subseteq wakers,
             \A u \in Threads : Entered(u) => Entered(u)' /\ Running(u)' = Running(u)
      PROVE  Suspension'
  BY <1>1
<1>2. CASE Program \/ (\E j \in Jobs : Wake(j)) \/ Over \/ UNCHANGED vars
  <2>1. UNCHANGED <<fstate, ft, cbFiber>> /\ wakers' \subseteq wakers
    BY <1>2 DEF Program, Start, UserBatch, Stop, StopLoop, Join, UserSchedule, UserReschedule, Wake, Over, vars
  <2>2. \A u \in Threads : Entered(u) => Entered(u)'
    <3>1. CASE Start
      BY <3>1 DEF Start, TypeInv, Started, Entered, Threads
    <3>2. CASE ~Start
      <4>1. pc' = pc
        BY <1>2, <3>2 DEF Program, UserBatch, Stop, StopLoop, Join, UserSchedule, UserReschedule, Wake, Over, vars
      <4> QED BY <4>1 DEF Entered
    <3> QED BY <3>1, <3>2
  <2> QED BY <1>1, <2>1, <2>2 DEF Running
<1>3. ASSUME NEW t \in Threads, NEW j \in Jobs, Spawn(t, j)
      PROVE  Suspension'
  BY <1>1, <1>3 DEF Spawn, Entered, Running
<1>4. ASSUME NEW t \in Threads,
             \/ TakeTask(t) \/ FindNothing(t) \/ DropFinished(t)
             \/ EnterIdle(t) \/ IdleCheck(t) \/ LeaveIdle(t) \/ ExitRun(t)
      PROVE  Suspension'
  <2> USE DEF TakeTask, FindNothing, DropFinished, EnterIdle, IdleCheck, LeaveIdle, ExitRun, At, Goto
  <2>1. UNCHANGED <<fstate, wakers, cbFiber>> /\ ~Entered(t)
    BY <1>4 DEF Entered
  <2>2. (\E l : pc' = [pc EXCEPT ![t] = l]) /\ (ft' = ft \/ \E x : ft' = [ft EXCEPT ![t] = x])
    BY <1>4
  <2>3. \A u \in Threads : Entered(u) => Entered(u)' /\ Running(u)' = Running(u)
    BY <1>0, <2>1, <2>2 DEF Entered, Running
  <2> QED BY <1>1, <2>1, <2>3
<1>5. ASSUME NEW t \in Threads, SwapOut(t) \/ Release(t)
      PROVE  Suspension'
  <2>1. UNCHANGED <<fstate, wakers, ft, cbFiber>>
    BY <1>5 DEF SwapOut, Release
  <2>2. \A u \in Threads : Entered(u) => Entered(u)'
    BY <1>0, <1>5 DEF SwapOut, Release, At, Goto, Entered
  <2> QED BY <1>1, <2>1, <2>2 DEF Running
<1>6. ASSUME NEW t \in Threads, SwapInFiber(t) \/ SwapInCallback(t)
      PROVE  Suspension'
  <2>0. PICK j \in Jobs : j = ft[t]
    BY <1>6 DEF SwapInFiber, SwapInCallback, At, TypeInv, LocalsFit
  <2>1. /\ pc[t] = "dispatch" /\ pc' = [pc EXCEPT ![t] = "exec"] /\ wakers' = wakers
        /\ \/ UNCHANGED <<ft, cbFiber>>
           \/ cbFiber' = [cbFiber EXCEPT ![t] = j] /\ ft' = [ft EXCEPT ![t] = Nil]
    BY <1>6, <2>0 DEF SwapInFiber, SwapInCallback, At, Goto
  <2>2. \A i \in Jobs : \/ i = j /\ fstate'[i] = "EXEC"
                        \/ i # j /\ i = cbFiber[t] /\ fstate'[i] = "NOFIBER"
                        \/ i # j /\ fstate'[i] = fstate[i]
    BY <1>0, <1>6, <2>0 DEF SwapInFiber, SwapInCallback
  <2>3. j # Nil /\ ~Entered(t)
    BY <2>1, ThreadsAssumption DEF Entered
  <2>4. Entered(t)' /\ Running(t)' = j
    BY <1>0, <2>0, <2>1, <2>3 DEF Entered, Running
  <2>5. \A u \in Threads \ {t} : (Entered(u) => Entered(u)') /\ Running(u)' = Running(u)
    BY <1>0, <2>1 DEF Entered, Running
  <2>6. ASSUME NEW i \in Jobs, fstate'[i] = "EXEC"
        PROVE  \E u \in Threads : Entered(u)' /\ Running(u)' = i
    BY <2>2, <2>3, <2>4, <2>5, <2>6
  <2>7. \A i \in wakers : i # j
    BY <2>0, <2>1 DEF Ownership, Dispatching, Unclaimed, Places
  <2>8. \A i \in wakers : i # cbFiber[t]
    <3>1. cbFiber[t] # Nil => cbFiber[t] \in ended /\ cbFiber[t] \in Jobs
      BY <1>0, <2>3 DEF Ownership, SpareIsFree
    <3> QED BY <1>0, <3>1, ThreadsAssumption DEF Ownership, Places
  <2>9. \A i \in wakers : fstate'[i] \in {"EXEC", "HOLD"}
    BY <1>0, <2>2, <2>7, <2>8
  <2> QED BY <2>1, <2>6, <2>9
<1>7. ASSUME NEW t \in Threads, Finish(t) \/ YieldToHold(t) \/ YieldToReady(t)
      PROVE  Suspension'
  <2>0. PICK j \in Jobs : j = Running(t)
    BY <1>7 DEF Finish, YieldToHold, YieldToReady, At, TypeInv, LocalsFit, Entered
  <2>1. /\ pc[t] = "exec" /\ pc' = [pc EXCEPT ![t] = "leaving"] /\ UNCHANGED <<ft, cbFiber>>
        /\ \/ wakers' = wakers \cup {j} /\ fstate' = fstate
           \/ wakers' = wakers /\ \E x \in {"TERM", "EXCEPT", "READY"} : fstate' = [fstate EXCEPT ![j] = x]
    BY <1>7, <2>0 DEF Finish, YieldToHold, YieldToReady, At, Goto, Finished
  <2>2. fstate[j] = "EXEC" /\ j \notin wakers
    BY <2>0, <2>1 DEF Ownership, Executing, Unclaimed
  <2>3. \A u \in Threads : (Entered(u) => Entered(u)') /\ Running(u)' = Running(u)
    BY <1>0, <2>1 DEF Entered, Running
  <2>4. \A i \in Jobs : fstate'[i] = "EXEC" => fstate[i] = "EXEC"
    BY <1>0, <2>1
  <2>5. \A i \in Jobs : fstate'[i] = "EXEC" => \E u \in Threads : Entered(u)' /\ Running(u)' = i
    BY <2>3, <2>4
  <2>6. \A i \in wakers' : fstate'[i] \in {"EXEC", "HOLD"}
    BY <1>0, <2>1, <2>2
  <2> QED BY <2>5, <2>6
<1>8. ASSUME NEW t \in Threads, SettleReady(t) \/ SettleFinished(t) \/ SettleHold(t)
      PROVE  Suspension'
  <2>0. PICK j \in Jobs : j = Running(t)
    BY <1>8 DEF SettleReady, SettleFinished, SettleHold, At, TypeInv, LocalsFit, Entered
  <2>1. /\ pc[t] = "settle" /\ pc' = [pc EXCEPT ![t] = "scan"] /\ wakers' = wakers
        /\ ft' = [ft EXCEPT ![t] = Nil]
        /\ cbFiber' = cbFiber \/ cbFiber' = [cbFiber EXCEPT ![t] = Nil]
        /\ \/ fstate' = fstate /\ fstate[j] # "EXEC"
           \/ fstate' = [fstate EXCEPT ![j] = "INIT"] /\ fstate[j] \in Finished
           \/ fstate' = [fstate EXCEPT ![j] = "HOLD"]
    BY <1>8, <2>0 DEF SettleReady, SettleFinished, SettleHold, At, Goto, Finished, Running
  <2>2. fstate[j] \in Finished => j \notin wakers
    BY <2>0 DEF Ownership, States, Places
  <2>3. \A u \in Threads \ {t} : (Entered(u) => Entered(u)') /\ Running(u)' = Running(u)
    BY <1>0, <2>1 DEF Entered, Running
  <2>4. \A i \in Jobs : fstate'[i] = "EXEC" => fstate[i] = "EXEC" /\ i # j
    BY <1>0, <2>1
  <2>5. \A i \in Jobs : fstate'[i] = "EXEC" => \E u \in Threads : Entered(u)' /\ Running(u)' = i
    BY <2>0, <2>3, <2>4
  <2>6. \A i \in wakers' : fstate'[i] \in {"EXEC", "HOLD"}
    BY <1>0, <2>1, <2>2
  <2> QED BY <2>5, <2>6
<1> QED BY <1>2, <1>3, <1>4, <1>5, <1>6, <1>7, <1>8 DEF Next, Job, Loop

\* The last thread to stop looking at the queue leaves no job that needs one.
LEMMA LastThread ==
    ASSUME TypeInv, Ownership, Drain, NEW t \in Threads, FindNothing(t), idleTerm[t],
           \A u \in Threads \ {t} : Done(u)
    PROVE  OnHold
<1>1. pc[t] = "scan" /\ \A i \in DOMAIN queue : ~Eligible(t, queue[i])
  BY DEF FindNothing, At
<1>2. \A u \in Threads : ~Entered(u) /\ pc[u] # "dispatch"
  BY <1>1 DEF Done, Entered
<1>3. \A j \in Jobs : fstate[j] # "EXEC"
  BY <1>2 DEF Drain, Suspension
<1>4. Tasks(queue) = {}
  <2>1. ASSUME NEW i \in DOMAIN queue PROVE FALSE
    <3>1. queue[i].thread = AnyThread
      BY <2>1 DEF Drain, EndedIdle
    <3>2. fstate[queue[i].task] = "EXEC"
      BY <1>1, <2>1, <3>1 DEF Eligible
    <3>3. queue[i] \in Entries
      <4>1. queue \in Seq(Entries)
        BY DEF TypeInv, Typed
      <4> QED BY <2>1, <4>1
    <3> QED BY <1>3, <3>2, <3>3 DEF Entries
  <2> QED BY <2>1 DEF Tasks
<1>5. \A u \in Threads, j \in Jobs : ~Holds(u, j)
  BY <1>2 DEF Holds, Entered
<1>6. \A j \in Jobs \ (fresh \cup ended) : j \in wakers
  BY <1>4, <1>5 DEF Ownership, NothingLost
<1> QED BY <1>3, <1>6 DEF OnHold, Drain, Suspension

\* As long as a job needs a thread, some thread will look at the queue again.
LEMMA AttendedKept ==
    ASSUME OwnThreads, TypeInv, Ownership, Drain, [Next]_vars
    PROVE  Attended'
<1> USE DEF flags, counters, fibers, locals, world
<1>0. pc \in [Threads -> Locations] /\ idleTerm \in [Threads -> BOOLEAN]
  BY DEF TypeInv, Typed
<1>1. CASE Program \/ (\E j \in Jobs : Wake(j)) \/ Over \/ UNCHANGED vars
  <2>1. idleTerm' = idleTerm /\ \A u \in Threads : pc'[u] \in {pc[u], "scan"}
    BY <1>1 DEF Program, Start, UserBatch, Stop, StopLoop, Join, UserSchedule, UserReschedule, Wake, Over, vars
  <2>2. CASE \E u \in Threads : ~Done(u)
    BY <2>1, <2>2 DEF Attended, Done
  <2>3. CASE OnHold /\ \A u \in Threads : Done(u)
    <3>1. caller # "user"
      BY <2>3, ThreadsAssumption DEF Done, Drain, EndedIdle
    <3>2. UNCHANGED <<fstate, fresh, ended>>
      BY <1>1, <3>1 DEF Program, Start, UserBatch, Stop, StopLoop, Join, UserSchedule, UserReschedule, Wake, Over, vars
    <3> QED BY <2>3, <3>2 DEF Attended, OnHold
  <2> QED BY <2>2, <2>3 DEF Drain, Attended
<1>2. ASSUME NEW t \in Threads, Job(t) \/ (Loop(t) /\ ~FindNothing(t) /\ ~ExitRun(t))
      PROVE  Attended'
  <2>1. \E l \in Locations \ {"empty", "exited"} : pc' = [pc EXCEPT ![t] = l]
    <3>1. CASE \E j \in Jobs : Spawn(t, j)
      <4>1. pc' = pc /\ pc[t] = "exec"
        BY <3>1 DEF Spawn, At
      <4>2. pc' = [pc EXCEPT ![t] = "exec"] /\ "exec" \in Locations \ {"empty", "exited"}
        BY <1>0, <4>1 DEF Locations
      <4> QED BY <4>2
    <3> QED BY <1>2, <3>1 DEF Job, Finish, YieldToHold, YieldToReady, Loop, TakeTask,
         SwapInFiber, DropFinished, SwapInCallback, SwapOut, Release, SettleReady,
         SettleFinished, SettleHold, EnterIdle, IdleCheck, LeaveIdle, Goto, Locations
  <2>2. ~Done(t)'
    BY <1>0, <2>1 DEF Done
  <2> QED BY <2>2 DEF Attended
<1>3. ASSUME NEW t \in Threads, FindNothing(t)
      PROVE  Attended'
  <2>1. /\ pc' = [pc EXCEPT ![t] = "empty"]
        /\ UNCHANGED <<idleTerm, fstate, fresh, ended>>
    BY <1>3 DEF FindNothing, Goto
  <2>2. CASE \E u \in Threads \ {t} : ~Done(u)
    BY <1>0, <2>1, <2>2 DEF Attended, Done
  <2>3. CASE ~idleTerm[t]
    BY <2>1, <2>3 DEF Attended, Done
  <2>4. CASE idleTerm[t] /\ \A u \in Threads \ {t} : Done(u)
    BY <1>3, <2>1, <2>4, LastThread DEF Attended, OnHold
  <2> QED BY <2>2, <2>3, <2>4
<1>4. ASSUME NEW t \in Threads, ExitRun(t)
      PROVE  Attended'
  <2>1. /\ pc[t] = "empty" /\ idleTerm[t] /\ pc' = [pc EXCEPT ![t] = "exited"]
        /\ UNCHANGED <<idleTerm, fstate, fresh, ended>>
    BY <1>4 DEF ExitRun, At, Goto
  <2>2. \A u \in Threads : Done(u)' <=> Done(u)
    BY <1>0, <2>1 DEF Done
  <2> QED BY <2>1, <2>2 DEF Drain, Attended, OnHold
<1> QED BY <1>1, <1>2, <1>3, <1>4 DEF Next

\* "Waits until all tasks have been executed, then stops the thread pool": when the
\* threads are the scheduler's own and no running job pins another to one of
\* them, stop() returns only when every accepted job has ended or is suspended.
THEOREM StopDrained ==
    ASSUME OwnThreads
    PROVE  Spec => []StopDrains
<1>1. Init => Drain
  BY DrainInit
<1>2. TypeInv /\ Ownership /\ Drain /\ [Next]_vars => Drain'
  BY StopOrderKept, EndedIdleKept, SuspensionKept, AttendedKept DEF Drain
<1>3. ASSUME Drain PROVE StopDrains
  <2>1. Threads = Workers
    BY DEF OwnThreads, Threads
  <2>2. SUFFICES ASSUME caller = "returned" PROVE OnHold
    BY <1>3 DEF Drain, StopOrder, StopDrains, OnHold
  <2>3. \A t \in Threads : Done(t)
    BY <1>3, <2>1, <2>2 DEF Drain, StopOrder, EndedIdle, Done
  <2> QED BY <1>3, <2>3 DEF Drain, Attended
<1> QED BY <1>1, <1>2, <1>3, OwnershipInvariant, PTL DEF Spec
=============================================================================
