---------------------------- MODULE HookIOProofs ----------------------------
(***************************************************************************)
(* Proofs about FdEvents and about HookIO, the calls that run on it.       *)
(*                                                                         *)
(* FdEvents, for any set of descriptors, jobs and threads: its types, the  *)
(* count of pending events, the agreement of the three records of a        *)
(* registration, and that a wait is resumed at most once.  HookIO, for any *)
(* set of fibers, timeouts and bounds: a fiber is resumed in its wait      *)
(* alone, and a call reports a timeout only when, and whenever, the timer  *)
(* of one of its waits has spoken.                                         *)
(***************************************************************************)
EXTENDS HookIO, FiniteSetTheorems, TLAPS

-----------------------------------------------------------------------------
(* The registered events as a set, and how the operations change it.       *)

\* The records of a registration that the operations keep, whatever epoll does.
RegInv == TypeOK /\ PendingExact /\ SlotsMatchBits /\ ResumedOnce

\* A descriptor has at most two events.
LEMMA EventsFinite ==
    ASSUME NEW E \in SUBSET Events
    PROVE  IsFiniteSet(E) /\ Cardinality(E) \in Nat
<1>1. Events = ({} \cup {"READ"}) \cup {"WRITE"}
  BY DEF Events
<1>2. IsFiniteSet(Events)
  BY <1>1, FS_EmptySet, FS_AddElement
<1> QED BY <1>2, FS_Subset, FS_CardinalityType

\* The pairs of one descriptor are as many as its events.
LEMMA PairsOfOne ==
    ASSUME NEW f, NEW E \in SUBSET Events
    PROVE  IsFiniteSet({f} \X E) /\ Cardinality({f} \X E) = Cardinality(E)
<1> DEFINE g == [e \in E |-> <<f, e>>]
<1>1. g \in [E -> {f} \X E] /\ \A d, e \in E : g[d] = g[e] => d = e
  OBVIOUS
<1>3. \A p \in {f} \X E : \E e \in E : g[e] = p
  OBVIOUS
<1>2. ExistsBijection(E, {f} \X E)
  <2> HIDE DEF g
  <2>1. g \in Injection(E, {f} \X E)
    BY <1>1 DEF Injection, IsInjective
  <2>2. g \in Surjection(E, {f} \X E)
    BY <1>1, <1>3 DEF Surjection
  <2> QED BY <2>1, <2>2 DEF ExistsBijection, Bijection
<1> QED BY <1>2, EventsFinite, FS_Bijection

\* There are finitely many waits.
LEMMA WaitsFinite ==
    ASSUME events \in [Fds -> SUBSET Events]
    PROVE  IsFiniteSet(Waits) /\ Cardinality(Waits) \in Nat
<1> DEFINE R == Fds \X {"READ"}
           W == Fds \X {"WRITE"}
           r == [f \in Fds |-> <<f, "READ">>]
           w == [f \in Fds |-> <<f, "WRITE">>]
<1>1. r \in [Fds -> R] /\ \A p \in R : \E f \in Fds : r[f] = p
  OBVIOUS
<1>5. w \in [Fds -> W] /\ \A p \in W : \E f \in Fds : w[f] = p
  OBVIOUS
<1>2. IsFiniteSet(R) /\ IsFiniteSet(W)
  <2>1. r \in Surjection(Fds, R) /\ w \in Surjection(Fds, W)
    BY <1>1, <1>5 DEF Surjection
  <2> QED BY <2>1, FdAssumption, FS_Surjection
<1>3. IsFiniteSet(R \cup W)
  BY <1>2, FS_Union
<1>4. Waits \subseteq R \cup W
  BY DEF Waits, Events
<1> QED BY <1>3, <1>4, FS_Subset, FS_CardinalityType

\* addEvent's bit adds one wait.
LEMMA AddWait ==
    ASSUME events \in [Fds -> SUBSET Events],
           NEW f \in Fds, NEW e \in Events, e \notin events[f],
           events' = [events EXCEPT ![f] = @ \cup {e}]
    PROVE  /\ events' \in [Fds -> SUBSET Events]
           /\ Waits' = Waits \cup {<<f, e>>}
           /\ Cardinality(Waits') = Cardinality(Waits) + 1
<1>1. events' \in [Fds -> SUBSET Events]
  OBVIOUS
<1>2. Waits' = Waits \cup {<<f, e>>}
  BY DEF Waits
<1>3. <<f, e>> \notin Waits
  BY DEF Waits
<1> QED BY <1>1, <1>2, <1>3, WaitsFinite, FS_AddElement

\* Clearing the bits E of a descriptor removes as many waits.
LEMMA DropWaits ==
    ASSUME events \in [Fds -> SUBSET Events],
           NEW f \in Fds, NEW E \in SUBSET Events, E \subseteq events[f],
           events' = [events EXCEPT ![f] = @ \ E]
    PROVE  /\ events' \in [Fds -> SUBSET Events]
           /\ Waits' = Waits \ ({f} \X E)
           /\ Cardinality(Waits') = Cardinality(Waits) - Cardinality(E)
           /\ Cardinality(E) \in Nat
<1> DEFINE D == {f} \X E
<1>1. events' \in [Fds -> SUBSET Events]
  OBVIOUS
<1>2. Waits' = Waits \ D
  BY DEF Waits
<1>3. D \subseteq Waits
  BY DEF Waits
<1>4. IsFiniteSet(D) /\ Cardinality(D) = Cardinality(E)
  BY PairsOfOne
<1>5. IsFiniteSet(Waits) /\ IsFiniteSet(Waits') /\ Cardinality(Waits') \in Nat
  <2>1. Waits' \in SUBSET Waits
    BY <1>2
  <2>2. IsFiniteSet(Waits) /\ IsFiniteSet(Waits')
    BY <2>1, WaitsFinite, FS_Subset
  <2> QED BY <2>2, FS_CardinalityType, FS_CardinalityType
<1>6. Waits' \cup D = Waits /\ Waits' \cap D = {}
  BY <1>2, <1>3
<1>7. Cardinality(Waits' \cup D) = Cardinality(Waits') + Cardinality(D) - Cardinality(Waits' \cap D)
  BY <1>4, <1>5, FS_Union
<1>8. Cardinality(E) \in Nat /\ Cardinality({}) = 0
  BY EventsFinite, FS_EmptySet
<1>9. Cardinality(Waits) = Cardinality(Waits') + Cardinality(E) - 0
  BY <1>4, <1>6, <1>7, <1>8
<1> HIDE DEF D
<1>10. Cardinality(Waits') = Cardinality(Waits) - Cardinality(E)
  BY <1>5, <1>8, <1>9
<1> QED BY <1>1, <1>2, <1>8, <1>10 DEF D

-----------------------------------------------------------------------------
(* The three changes of a registration: it is added, it is dropped, or its *)
(* job is handed to the scheduler.                                         *)

\* triggerEvent for registered events: each of their jobs, which waited for
\* nothing else, is scheduled once.
LEMMA TriggerKeeps ==
    ASSUME RegInv, NEW f \in Fds, NEW E \in SUBSET Events, E \subseteq events[f], Trigger(f, E)
    PROVE  /\ events' \in [Fds -> SUBSET Events] /\ ctx' \in [Fds -> [Events -> Jobs \cup {Nil}]]
           /\ pending' \in Nat /\ wakeups' \in [Jobs -> Nat]
           /\ PendingExact' /\ SlotsMatchBits' /\ ResumedOnce'
           /\ \A j \in Jobs : Idle(j) => Idle(j)'
<1> USE DEF RegInv, TypeOK, Trigger
<1> DEFINE hit(j) == {e \in E : ctx[f][e] = j}
<1>1. /\ events' \in [Fds -> SUBSET Events]
      /\ Waits' = Waits \ ({f} \X E)
      /\ Cardinality(Waits') = Cardinality(Waits) - Cardinality(E)
      /\ Cardinality(E) \in Nat
  BY DropWaits
<1>2. ctx' = [g \in Fds |-> [e \in Events |-> IF g = f /\ e \in E THEN Nil ELSE ctx[g][e]]]
  OBVIOUS
<1>3. ctx' \in [Fds -> [Events -> Jobs \cup {Nil}]]
  BY <1>2
<1>4. PendingExact' /\ pending' \in Nat
  <2>1. Cardinality(Waits') \in Nat
    BY <1>1, WaitsFinite, FS_Subset, FS_CardinalityType
  <2> QED BY <1>1, <2>1, WaitsFinite DEF PendingExact
<1>5. SlotsMatchBits'
  <2>1. SUFFICES ASSUME NEW g \in Fds, NEW e \in Events
                 PROVE  e \in events'[g] <=> ctx'[g][e] # Nil
    BY DEF SlotsMatchBits
  <2>2. ctx'[g][e] = IF g = f /\ e \in E THEN Nil ELSE ctx[g][e]
    BY <1>2
  <2>3. e \in events'[g] <=> e \in events[g] /\ ~(g = f /\ e \in E)
    OBVIOUS
  <2> QED BY <2>2, <2>3 DEF SlotsMatchBits
<1>6. \A j \in Jobs : Registered(j)' => Registered(j)
  BY <1>2, FdAssumption DEF Registered
<1>7. ASSUME NEW j \in Jobs
      PROVE  \/ hit(j) = {} /\ wakeups'[j] = wakeups[j]
             \/ Registered(j) /\ wakeups[j] = 0 /\ wakeups'[j] = 1 /\ ~Registered(j)'
  <2>1. CASE hit(j) = {}
    <3>1. wakeups'[j] = wakeups[j] + Cardinality({})
      BY <2>1
    <3> QED BY <2>1, <3>1, FS_EmptySet
  <2>2. CASE hit(j) # {}
    <3>1. PICK e \in E : ctx[f][e] = j
      BY <2>2
    <3>2. Registered(j) /\ wakeups[j] = 0
      BY <3>1 DEF Registered, ResumedOnce
    <3>3. ASSUME NEW g \in Fds, NEW d \in Events, ctx[g][d] = j
          PROVE  g = f /\ d = e
      <4>1. d \in events[g] /\ e \in events[f]
        BY <3>1, <3>3, FdAssumption DEF SlotsMatchBits
      <4>2. <<g, d>> \in Waits /\ <<f, e>> \in Waits
        BY <4>1 DEF Waits
      <4>3. <<g, d>> # <<f, e>> => ctx[g][d] # ctx[f][e]
        BY <4>2 DEF ResumedOnce
      <4> QED BY <3>1, <3>3, <4>3
    <3>4. hit(j) = {e}
      BY <3>1, <3>3
    <3>5. wakeups'[j] = 1
      <4>1. wakeups'[j] = 0 + Cardinality({e})
        BY <3>2, <3>4
      <4>2. Cardinality({e}) = 1
        BY FS_Singleton
      <4> QED BY <4>1, <4>2
    <3>6. ~Registered(j)'
      BY <1>2, <3>1, <3>3, FdAssumption DEF Registered
    <3> QED BY <3>2, <3>5, <3>6
  <2> QED BY <2>1, <2>2
<1>8. wakeups' \in [Jobs -> Nat]
  <2>1. wakeups' = [j \in Jobs |-> wakeups'[j]]
    OBVIOUS
  <2>2. \A j \in Jobs : wakeups'[j] \in Nat
    BY <1>7
  <2> QED BY <2>1, <2>2
<1>9. ResumedOnce'
  <2>1. \A j \in Jobs : wakeups'[j] <= 1 /\ (Registered(j)' => wakeups'[j] = 0)
    BY <1>6, <1>7 DEF ResumedOnce
  <2>2. \A v, w \in Waits' : v # w => ctx'[v[1]][v[2]] # ctx'[w[1]][w[2]]
    <3>1. \A v \in Waits' : v \in Waits /\ ctx'[v[1]][v[2]] = ctx[v[1]][v[2]]
      BY <1>1, <1>2 DEF Waits
    <3> QED BY <3>1 DEF ResumedOnce
  <2> QED BY <2>1, <2>2 DEF ResumedOnce
<1>10. \A j \in Jobs : Idle(j) => Idle(j)'
  BY <1>6, <1>7 DEF Idle
<1> QED BY <1>1, <1>3, <1>4, <1>5, <1>8, <1>9, <1>10

\* addEvent's bookkeeping for a job that waits for nothing: one wait more.
LEMMA AddKeeps ==
    ASSUME RegInv, NEW j \in Jobs, Idle(j), NEW f \in Fds, NEW e \in Events, e \notin events[f],
           events' = [events EXCEPT ![f] = @ \cup {e}], ctx' = [ctx EXCEPT ![f][e] = j],
           pending' = pending + 1, wakeups' = wakeups
    PROVE  /\ events' \in [Fds -> SUBSET Events] /\ ctx' \in [Fds -> [Events -> Jobs \cup {Nil}]]
           /\ pending' \in Nat
           /\ PendingExact' /\ SlotsMatchBits' /\ ResumedOnce'
           /\ \A i \in Jobs \ {j} : Idle(i) => Idle(i)'
<1> USE DEF RegInv, TypeOK
<1>1. /\ events' \in [Fds -> SUBSET Events]
      /\ Waits' = Waits \cup {<<f, e>>}
      /\ Cardinality(Waits') = Cardinality(Waits) + 1
  BY AddWait
<1>2. ctx' \in [Fds -> [Events -> Jobs \cup {Nil}]]
  OBVIOUS
<1>3. \A g \in Fds, d \in Events : ctx'[g][d] = IF g = f /\ d = e THEN j ELSE ctx[g][d]
  OBVIOUS
<1>4. pending' \in Nat /\ PendingExact'
  BY <1>1 DEF PendingExact
<1>5. SlotsMatchBits'
  <2>1. SUFFICES ASSUME NEW g \in Fds, NEW d \in Events
                 PROVE  d \in events'[g] <=> ctx'[g][d] # Nil
    BY DEF SlotsMatchBits
  <2>2. d \in events'[g] <=> d \in events[g] \/ (g = f /\ d = e)
    OBVIOUS
  <2> QED BY <1>3, <2>2, FdAssumption DEF SlotsMatchBits
<1>6. \A i \in Jobs : Registered(i)' => i = j \/ Registered(i)
  BY <1>3 DEF Registered
<1>7. ResumedOnce'
  <2>1. \A i \in Jobs : wakeups'[i] <= 1 /\ (Registered(i)' => wakeups'[i] = 0)
    BY <1>6 DEF ResumedOnce, Idle
  <2>2. \A v, w \in Waits' : v # w => ctx'[v[1]][v[2]] # ctx'[w[1]][w[2]]
    <3>1. ctx'[f][e] = j
      BY <1>3
    <3>2. ASSUME NEW v \in Waits', v # <<f, e>>
          PROVE  v \in Waits /\ ctx'[v[1]][v[2]] = ctx[v[1]][v[2]] /\ ctx'[v[1]][v[2]] # j
      <4>1. v \in Waits /\ v = <<v[1], v[2]>> /\ v[1] \in Fds /\ v[2] \in Events
        BY <1>1, <3>2 DEF Waits
      <4>2. ctx'[v[1]][v[2]] = ctx[v[1]][v[2]]
        BY <1>3, <4>1, <3>2
      <4> QED BY <4>1, <4>2 DEF Idle, Registered
    <3>3. SUFFICES ASSUME NEW v \in Waits', NEW w \in Waits', v # w
                   PROVE  ctx'[v[1]][v[2]] # ctx'[w[1]][w[2]]
      OBVIOUS
    <3>4. CASE v = <<f, e>>
      BY <3>1, <3>2, <3>3, <3>4
    <3>5. CASE w = <<f, e>>
      BY <3>1, <3>2, <3>3, <3>5
    <3>6. CASE v # <<f, e>> /\ w # <<f, e>>
      BY <3>2, <3>3, <3>6 DEF ResumedOnce
    <3> QED BY <3>4, <3>5, <3>6
  <2> QED BY <2>1, <2>2 DEF ResumedOnce
<1>8. \A i \in Jobs \ {j} : Idle(i) => Idle(i)'
  BY <1>6 DEF Idle
<1> QED BY <1>1, <1>2, <1>4, <1>5, <1>7, <1>8

\* delEvent's bookkeeping: one wait less, and its job goes nowhere.
LEMMA DropKeeps ==
    ASSUME RegInv, NEW f \in Fds, NEW e \in Events, e \in events[f],
           events' = [events EXCEPT ![f] = @ \ {e}], ctx' = [ctx EXCEPT ![f][e] = Nil],
           pending' = pending - 1, wakeups' = wakeups
    PROVE  /\ events' \in [Fds -> SUBSET Events] /\ ctx' \in [Fds -> [Events -> Jobs \cup {Nil}]]
           /\ pending' \in Nat
           /\ PendingExact' /\ SlotsMatchBits' /\ ResumedOnce'
<1> USE DEF RegInv, TypeOK
<1>1. /\ events' \in [Fds -> SUBSET Events]
      /\ Waits' = Waits \ ({f} \X {e})
      /\ Cardinality(Waits') = Cardinality(Waits) - 1
  <2>1. {e} \in SUBSET Events /\ {e} \subseteq events[f] /\ Cardinality({e}) = 1
    BY FS_Singleton
  <2> DEFINE E == {e}
  <2>2. E \in SUBSET Events /\ E \subseteq events[f] /\ events' = [events EXCEPT ![f] = @ \ E]
    BY <2>1
  <2>3. /\ events' \in [Fds -> SUBSET Events]
        /\ Waits' = Waits \ ({f} \X E)
        /\ Cardinality(Waits') = Cardinality(Waits) - Cardinality(E)
    <3> HIDE DEF E
    <3> QED BY <2>2, DropWaits
  <2> QED BY <2>1, <2>3
<1>2. ctx' \in [Fds -> [Events -> Jobs \cup {Nil}]]
  OBVIOUS
<1>3. \A g \in Fds, d \in Events : ctx'[g][d] = IF g = f /\ d = e THEN Nil ELSE ctx[g][d]
  OBVIOUS
<1>4. pending' \in Nat /\ PendingExact'
  <2>1. Cardinality(Waits') \in Nat
    BY <1>1, WaitsFinite, FS_Subset, FS_CardinalityType
  <2> QED BY <1>1, <2>1 DEF PendingExact
<1>5. SlotsMatchBits'
  <2>1. SUFFICES ASSUME NEW g \in Fds, NEW d \in Events
                 PROVE  d \in events'[g] <=> ctx'[g][d] # Nil
    BY DEF SlotsMatchBits
  <2>2. d \in events'[g] <=> d \in events[g] /\ ~(g = f /\ d = e)
    OBVIOUS
  <2> QED BY <1>3, <2>2 DEF SlotsMatchBits
<1>6. \A i \in Jobs : Registered(i)' => Registered(i)
  BY <1>3, FdAssumption DEF Registered
<1>7. \A v \in Waits' : v \in Waits /\ ctx'[v[1]][v[2]] = ctx[v[1]][v[2]]
  BY <1>1, <1>3 DEF Waits
<1>8. ResumedOnce'
  BY <1>6, <1>7 DEF ResumedOnce
<1> QED BY <1>1, <1>2, <1>4, <1>5, <1>8

\* The job the scheduler resumes was scheduled once: it is idle again.
LEMMA RunKeeps ==
    ASSUME RegInv, NEW j \in Jobs, Run(j)
    PROVE  RegInv' /\ Idle(j)' /\ wakeups[j] = 1 /\ \A i \in Jobs : Idle(i) => Idle(i)'
<1> USE DEF RegInv, TypeOK, Run
<1>1. wakeups[j] = 1 /\ ~Registered(j)
  BY DEF ResumedOnce
<1>2. wakeups' \in [Jobs -> Nat] /\ \A i \in Jobs : wakeups'[i] = IF i = j THEN 0 ELSE wakeups[i]
  BY <1>1
<1>3. TypeOK' /\ PendingExact' /\ SlotsMatchBits'
  BY <1>2 DEF PendingExact, Waits, SlotsMatchBits, kernel
<1>4. \A i \in Jobs : Registered(i)' <=> Registered(i)
  BY DEF Registered
<1>5. ResumedOnce'
  BY <1>2, <1>4 DEF ResumedOnce, Waits
<1>6. Idle(j)' /\ \A i \in Jobs : Idle(i) => Idle(i)'
  BY <1>1, <1>2, <1>4 DEF Idle
<1> QED BY <1>1, <1>3, <1>5, <1>6

\* What leaves the registrations and the jobs alone keeps them in order.
LEMMA OtherKeeps ==
    ASSUME RegInv, UNCHANGED <<events, ctx, pending, wakeups>>,
           interest' \in [Fds -> SUBSET Events],
           ready' \in [Fds -> SUBSET Conditions], edge' \in [Fds -> BOOLEAN],
           harvested' \in [Threads -> SUBSET [fd : Fds, what : SUBSET Conditions]],
           aborted' \in BOOLEAN
    PROVE  RegInv' /\ \A i \in Jobs : Idle(i) <=> Idle(i)'
BY DEF RegInv, TypeOK, PendingExact, Waits, SlotsMatchBits, ResumedOnce, Registered, Idle

-----------------------------------------------------------------------------
(* One lemma per operation.                                                *)

\* epoll_ctl leaves a mask of events and an edge.
LEMMA CtlTyped ==
    ASSUME TypeOK, NEW f \in Fds, NEW mask \in SUBSET Events, EpollCtl(f, mask)
    PROVE  /\ interest' \in [Fds -> SUBSET Events] /\ edge' \in [Fds -> BOOLEAN]
           /\ interest' = [interest EXCEPT ![f] = mask]
<1>1. interest' = [interest EXCEPT ![f] = mask] /\ interest \in [Fds -> SUBSET Events]
  BY DEF EpollCtl, TypeOK
<1>2. edge' = [edge EXCEPT ![f] = Reported(f, mask) # {}] /\ edge \in [Fds -> BOOLEAN]
  BY DEF EpollCtl, TypeOK
<1>3. interest' \in [Fds -> SUBSET Events]
  BY <1>1
<1>4. (Reported(f, mask) # {}) \in BOOLEAN
  OBVIOUS
<1>5. edge' \in [Fds -> BOOLEAN]
  BY <1>2, <1>4
<1> QED BY <1>1, <1>3, <1>5

\* addEvent.
LEMMA AddEventKeeps ==
    ASSUME RegInv, NEW j \in Jobs, NEW f \in Fds, NEW e \in Events, AddEvent(j, f, e)
    PROVE  /\ RegInv' /\ (EpollAgrees => EpollAgrees')
           /\ \A i \in Jobs \ {j} : Idle(i) => Idle(i)'
<1>1. events[f] \cup {e} \in SUBSET Events
  BY DEF RegInv, TypeOK
<1>2. /\ interest' \in [Fds -> SUBSET Events] /\ edge' \in [Fds -> BOOLEAN]
      /\ interest' = [interest EXCEPT ![f] = events[f] \cup {e}]
  BY <1>1, CtlTyped DEF AddEvent, RegInv
<1>3. /\ events' \in [Fds -> SUBSET Events] /\ ctx' \in [Fds -> [Events -> Jobs \cup {Nil}]]
      /\ pending' \in Nat
      /\ PendingExact' /\ SlotsMatchBits' /\ ResumedOnce'
      /\ \A i \in Jobs \ {j} : Idle(i) => Idle(i)'
  BY AddKeeps DEF AddEvent
<1>4. TypeOK'
  BY <1>2, <1>3 DEF RegInv, TypeOK, AddEvent
<1>5. EpollAgrees => EpollAgrees'
  BY <1>2 DEF EpollAgrees, RegInv, TypeOK, AddEvent
<1> QED BY <1>3, <1>4, <1>5 DEF RegInv

\* delEvent.
LEMMA DelKeeps ==
    ASSUME RegInv, NEW f \in Fds, NEW e \in Events, DelEvent(f, e)
    PROVE  RegInv' /\ (EpollAgrees => EpollAgrees')
<1>1. events[f] \ {e} \in SUBSET Events
  BY DEF RegInv, TypeOK
<1>2. /\ interest' \in [Fds -> SUBSET Events] /\ edge' \in [Fds -> BOOLEAN]
      /\ interest' = [interest EXCEPT ![f] = events[f] \ {e}]
  BY <1>1, CtlTyped DEF DelEvent, RegInv
<1>3. /\ events' \in [Fds -> SUBSET Events] /\ ctx' \in [Fds -> [Events -> Jobs \cup {Nil}]]
      /\ pending' \in Nat
      /\ PendingExact' /\ SlotsMatchBits' /\ ResumedOnce'
  BY DropKeeps DEF DelEvent
<1>4. TypeOK'
  BY <1>2, <1>3 DEF RegInv, TypeOK, DelEvent
<1>5. EpollAgrees => EpollAgrees'
  BY <1>2 DEF EpollAgrees, RegInv, TypeOK, DelEvent
<1> QED BY <1>3, <1>4, <1>5 DEF RegInv

\* triggerEvent together with the epoll_ctl that precedes it in cancelEvent,
\* cancelAll and idle().
LEMMA TriggerAndCtl ==
    ASSUME RegInv, NEW f \in Fds, NEW E \in SUBSET Events, E \subseteq events[f],
           EpollCtl(f, events[f] \ E), Trigger(f, E), UNCHANGED <<ready, aborted>>,
           harvested' \in [Threads -> SUBSET [fd : Fds, what : SUBSET Conditions]]
    PROVE  /\ RegInv' /\ (EpollAgrees => EpollAgrees')
           /\ \A i \in Jobs : Idle(i) => Idle(i)'
<1>1. events[f] \ E \in SUBSET Events
  BY DEF RegInv, TypeOK
<1>2. /\ interest' \in [Fds -> SUBSET Events] /\ edge' \in [Fds -> BOOLEAN]
      /\ interest' = [interest EXCEPT ![f] = events[f] \ E]
  BY <1>1, CtlTyped DEF RegInv
<1>3. /\ events' \in [Fds -> SUBSET Events] /\ ctx' \in [Fds -> [Events -> Jobs \cup {Nil}]]
      /\ pending' \in Nat /\ wakeups' \in [Jobs -> Nat]
      /\ PendingExact' /\ SlotsMatchBits' /\ ResumedOnce'
      /\ \A j \in Jobs : Idle(j) => Idle(j)'
  BY TriggerKeeps
<1>4. TypeOK'
  BY <1>2, <1>3 DEF RegInv, TypeOK
<1>5. EpollAgrees => EpollAgrees'
  BY <1>2 DEF EpollAgrees, RegInv, TypeOK, Trigger
<1> QED BY <1>3, <1>4, <1>5 DEF RegInv

\* cancelEvent.
LEMMA CancelEventKeeps ==
    ASSUME RegInv, NEW f \in Fds, NEW e \in Events, CancelEvent(f, e)
    PROVE  /\ RegInv' /\ (EpollAgrees => EpollAgrees')
           /\ \A i \in Jobs : Idle(i) => Idle(i)'
<1>1. {e} \in SUBSET Events /\ {e} \subseteq events[f]
  BY DEF CancelEvent
<1>2. harvested' \in [Threads -> SUBSET [fd : Fds, what : SUBSET Conditions]]
  BY DEF CancelEvent, RegInv, TypeOK
<1> QED BY <1>1, <1>2, TriggerAndCtl DEF CancelEvent

\* cancelAll.
LEMMA CancelAllKeeps ==
    ASSUME RegInv, NEW f \in Fds, CancelAll(f)
    PROVE  /\ RegInv' /\ (EpollAgrees => EpollAgrees')
           /\ \A i \in Jobs : Idle(i) => Idle(i)'
<1>1. events[f] \in SUBSET Events /\ events[f] \subseteq events[f] /\ events[f] \ events[f] = {}
  BY DEF RegInv, TypeOK
<1>2. harvested' \in [Threads -> SUBSET [fd : Fds, what : SUBSET Conditions]]
  BY DEF CancelAll, RegInv, TypeOK
<1>3. EpollCtl(f, events[f] \ events[f])
  BY <1>1 DEF CancelAll
<1> QED BY <1>1, <1>2, <1>3, TriggerAndCtl DEF CancelAll

\* The kernel sees a condition come and go.
LEMMA KernelKeeps ==
    ASSUME RegInv, NEW f \in Fds,
           \/ \E c \in Conditions : BecomeReady(f, c)
           \/ \E e \in Events : Consume(f, e)
    PROVE  /\ RegInv' /\ (EpollAgrees => EpollAgrees')
           /\ \A i \in Jobs : Idle(i) <=> Idle(i)'
<1>1. /\ UNCHANGED <<events, ctx, pending, wakeups, interest, harvested, aborted>>
      /\ ready' \in [Fds -> SUBSET Conditions] /\ edge' \in [Fds -> BOOLEAN]
  <2>1. CASE \E c \in Conditions : BecomeReady(f, c)
    <3>1. PICK c \in Conditions : BecomeReady(f, c)
      BY <2>1
    <3>2. ready' \in [Fds -> SUBSET Conditions]
      BY <3>1 DEF BecomeReady, RegInv, TypeOK
    <3>3. edge' \in [Fds -> BOOLEAN]
      BY <3>1 DEF BecomeReady, RegInv, TypeOK
    <3> QED BY <3>1, <3>2, <3>3 DEF BecomeReady
  <2>2. CASE \E e \in Events : Consume(f, e)
    BY <2>2 DEF Consume, RegInv, TypeOK
  <2> QED BY <2>1, <2>2
<1>2. RegInv' /\ \A i \in Jobs : Idle(i) <=> Idle(i)'
  BY <1>1, OtherKeeps DEF RegInv, TypeOK
<1> QED BY <1>1, <1>2 DEF EpollAgrees

\* idle(): epoll_wait, and each of the three ways to process what it returned.
LEMMA IdleKeeps ==
    ASSUME RegInv, NEW t \in Threads, IdleThread(t)
    PROVE  /\ RegInv' /\ (EpollAgrees => EpollAgrees')
           /\ \A i \in Jobs : Idle(i) => Idle(i)'
<1> DEFINE Batches == [Threads -> SUBSET [fd : Fds, what : SUBSET Conditions]]
<1>1. CASE EpollWait(t)
  <2>1. PICK F \in SUBSET Deliverable :
          /\ harvested' = [harvested EXCEPT ![t] =
                             {[fd |-> f, what |-> Reported(f, interest[f])] : f \in F}]
          /\ edge' = [f \in Fds |-> edge[f] /\ f \notin F]
    BY <1>1 DEF EpollWait
  <2>2. \A f \in F : f \in Fds /\ Reported(f, interest[f]) \in SUBSET Conditions
    BY DEF Deliverable, Reported, RegInv, TypeOK
  <2>3. harvested' \in Batches
    BY <2>1, <2>2 DEF RegInv, TypeOK
  <2>4. edge' \in [Fds -> BOOLEAN]
    BY <2>1
  <2>5. UNCHANGED <<events, ctx, pending, interest, ready, wakeups, aborted>>
    BY <1>1 DEF EpollWait
  <2>6. RegInv' /\ \A i \in Jobs : Idle(i) <=> Idle(i)'
    BY <2>3, <2>4, <2>5, OtherKeeps DEF RegInv, TypeOK
  <2> QED BY <2>5, <2>6 DEF EpollAgrees
<1>2. ASSUME NEW r \in harvested[t], ProcessStale(t, r) \/ ProcessAbort(t, r)
      PROVE  RegInv' /\ (EpollAgrees => EpollAgrees') /\ \A i \in Jobs : Idle(i) => Idle(i)'
  <2>1. /\ UNCHANGED <<events, ctx, pending, interest, ready, edge, wakeups>>
        /\ aborted' \in BOOLEAN /\ harvested' \in Batches
    BY <1>2 DEF ProcessStale, ProcessAbort, Take, kernel, RegInv, TypeOK
  <2>2. RegInv' /\ \A i \in Jobs : Idle(i) <=> Idle(i)'
    BY <2>1, OtherKeeps DEF RegInv, TypeOK
  <2> QED BY <2>1, <2>2 DEF EpollAgrees
<1>3. ASSUME NEW r \in harvested[t], Process(t, r)
      PROVE  RegInv' /\ (EpollAgrees => EpollAgrees') /\ \A i \in Jobs : Idle(i) => Idle(i)'
  <2>1. r.fd \in Fds
    BY <1>3 DEF RegInv, TypeOK
  <2>2. RealEvents(r.what) \in SUBSET Events
    BY DEF RealEvents
  <2>3. harvested' \in Batches
    BY <1>3 DEF Process, Take, RegInv, TypeOK
  <2> QED BY <1>3, <2>1, <2>2, <2>3, TriggerAndCtl DEF Process
<1> QED BY <1>1, <1>2, <1>3 DEF IdleThread

-----------------------------------------------------------------------------
(* The inductive invariant and the theorems.                               *)

FdInv == RegInv /\ EpollAgrees

\* IOManager's constructor: no event is registered.
LEMMA InitRegInv == Init => RegInv
<1> SUFFICES ASSUME Init PROVE RegInv
  OBVIOUS
<1>1. TypeOK
  BY DEF Init, TypeOK
<1>2. Waits = {}
  BY DEF Init, Waits
<1>3. PendingExact
  BY <1>2, FS_EmptySet DEF Init, PendingExact
<1>4. SlotsMatchBits
  BY DEF Init, SlotsMatchBits
<1>5. \A j \in Jobs : ~Registered(j) /\ wakeups[j] = 0
  BY FdAssumption DEF Init, Registered
<1> QED BY <1>1, <1>2, <1>3, <1>4, <1>5 DEF RegInv, ResumedOnce

\* Every operation of the event registration keeps the invariant.
LEMMA FdInvStep ==
    ASSUME FdInv, [Next]_vars
    PROVE  FdInv'
<1> USE DEF FdInv
<1>1. CASE UNCHANGED vars
  <2>1. RegInv'
    BY <1>1, OtherKeeps DEF vars, kernel, RegInv, TypeOK
  <2> QED BY <1>1, <2>1 DEF vars, EpollAgrees
<1>2. ASSUME NEW f \in Fds, NEW e \in Events, NEW j \in Jobs, AddEvent(j, f, e)
      PROVE  FdInv'
  BY <1>2, AddEventKeeps
<1>3. ASSUME NEW f \in Fds, NEW e \in Events, DelEvent(f, e)
      PROVE  FdInv'
  BY <1>3, DelKeeps
<1>4. ASSUME NEW f \in Fds, NEW e \in Events, CancelEvent(f, e)
      PROVE  FdInv'
  BY <1>4, CancelEventKeeps
<1>5. ASSUME NEW f \in Fds, NEW e \in Events, Consume(f, e)
      PROVE  FdInv'
  BY <1>5, KernelKeeps
<1>6. ASSUME NEW f \in Fds, NEW c \in Conditions, BecomeReady(f, c)
      PROVE  FdInv'
  BY <1>6, KernelKeeps
<1>7. ASSUME NEW f \in Fds, CancelAll(f)
      PROVE  FdInv'
  BY <1>7, CancelAllKeeps
<1>8. ASSUME NEW j \in Jobs, Run(j)
      PROVE  FdInv'
  BY <1>8, RunKeeps DEF Run, EpollAgrees
<1>9. ASSUME NEW t \in Threads, IdleThread(t)
      PROVE  FdInv'
  BY <1>9, IdleKeeps
<1> QED BY <1>1, <1>2, <1>3, <1>4, <1>5, <1>6, <1>7, <1>8, <1>9 DEF Next, Dead

\* The invariant holds in every reachable state.
LEMMA FdInvariant == Spec => []FdInv
<1>1. Init => FdInv
  BY InitRegInv DEF FdInv, Init, EpollAgrees
<1>2. FdInv /\ [Next]_vars => FdInv'
  BY FdInvStep
<1> QED BY <1>1, <1>2, PTL DEF Spec

\* Each variable has its type and m_pendingEventCount is the number of
\* registered events, whichever of addEvent, delEvent, cancelEvent, cancelAll and
\* idle() changes it.
THEOREM PendingCount == Spec => []PendingKept
<1>1. FdInv => PendingKept
  BY DEF FdInv, RegInv, PendingKept
<1> QED BY <1>1, FdInvariant, PTL

\* A registration's bit, its stored job and epoll's mask never disagree.
THEOREM RegistrationRecords == Spec => []RegistrationsAgree
<1>1. FdInv => RegistrationsAgree
  BY DEF FdInv, RegInv, RegistrationsAgree
<1> QED BY <1>1, FdInvariant, PTL

\* No wait is resumed twice, by whatever mix of late epoll results and cancels.
THEOREM OneResume == Spec => []ResumedOnce
<1>1. FdInv => ResumedOnce
  BY DEF FdInv, RegInv
<1> QED BY <1>1, FdInvariant, PTL

-----------------------------------------------------------------------------
(* The hooked calls.                                                       *)

\* The types of the variables of the calls themselves.
CallsTyped ==
    /\ call \in [Jobs -> Places] /\ result \in [Jobs -> Results]
    /\ waits \in [Jobs -> 0 .. MaxWaits]
    /\ timer \in [Jobs -> [Slots -> TimerStates]]
    /\ cancelled \in [Jobs -> BOOLEAN]
    /\ link \in {"down", "up", "refused"} /\ file \in 1 .. MaxFiles
    /\ open \in BOOLEAN /\ closing \in BOOLEAN

\* A wait that has not begun has no timer.
TimersAhead == \A j \in Jobs, k \in Slots : k > waits[j] => timer[j][k] = "none"

\* tinfo->cancelled is set by the callback of some timer of the call.
CancelledByTimer == \A j \in Jobs : cancelled[j] => \E k \in Slots : timer[j][k] \in {"cancelling", "done"}

\* ETIMEDOUT is returned only when tinfo->cancelled is set.
TimeoutMarked == \A j \in Jobs : result[j] = "timeout" => cancelled[j]

Causes == TimersAhead /\ CancelledByTimer /\ TimeoutMarked

HookInv == RegInv /\ NoStrayWakeup /\ CallsTyped /\ Causes

-----------------------------------------------------------------------------
(* A fiber outside its wait stays idle.                                    *)

\* The descriptor is one of epoll's and each fiber waits for one event.
LEMMA OneDescriptor == fd \in Fds /\ \A j : EventOf(j) \in Events
BY HookAssumption DEF EventOf, Events

\* A step that leaves the registrations to FdEvents' unchanged state.
LEMMA QuietStep ==
    ASSUME RegInv, UNCHANGED vars
    PROVE  RegInv' /\ \A i \in Jobs : Idle(i) <=> Idle(i)'
BY OtherKeeps DEF vars, kernel, RegInv, TypeOK

\* A fiber that is idle after the step, or still waits, is not resumed astray.
LEMMA StraysNot ==
    ASSUME NoStrayWakeup,
           \A i \in Jobs : call'[i] # "wait" => (call[i] # "wait" /\ (Idle(i) => Idle(i)')) \/ Idle(i)'
    PROVE  NoStrayWakeup'
BY DEF NoStrayWakeup, Idle

\* The steps of a call.
LEMMA CallKeepsRegistrations ==
    ASSUME HookInv, NEW j \in Jobs, Begin(j) \/ ConnectAtOnce(j) \/ Fiber(j)
    PROVE  RegInv' /\ NoStrayWakeup'
<1> USE DEF HookInv, CallsTyped, Goes, Returns
<1>1. CASE Begin(j) \/ ConnectAtOnce(j) \/ Arm(j) \/ AddFails(j) \/ SockError(j)
  <2>1. UNCHANGED vars
    BY <1>1 DEF Begin, ConnectAtOnce, Arm, AddFails, SockError
  <2>2. \A i \in Jobs : call'[i] # "wait" => call[i] # "wait"
    BY <1>1 DEF Begin, ConnectAtOnce, Arm, AddFails, SockError
  <2> QED BY <2>1, <2>2, QuietStep, StraysNot
<1>2. CASE Try(j)
  <2>1. UNCHANGED vars \/ Consume(fd, EventOf(j))
    BY <1>2 DEF Try
  <2>2. RegInv' /\ \A i \in Jobs : Idle(i) => Idle(i)'
    BY <2>1, QuietStep, KernelKeeps, OneDescriptor
  <2>3. \A i \in Jobs : call'[i] # "wait" => call[i] # "wait"
    BY <1>2 DEF Try
  <2> QED BY <2>2, <2>3, StraysNot
<1>3. CASE Add(j)
  <2>1. RegInv' /\ \A i \in Jobs \ {j} : Idle(i) => Idle(i)'
    BY <1>3, AddEventKeeps, OneDescriptor DEF Add
  <2>2. call' = [call EXCEPT ![j] = "wait"]
    BY <1>3 DEF Add
  <2> QED BY <2>1, <2>2, StraysNot
<1>4. CASE AddAborts(j)
  <2>1. RegInv' /\ \A i \in Jobs : Idle(i) <=> Idle(i)'
    BY <1>4, OtherKeeps DEF AddAborts, kernel, RegInv, TypeOK
  <2>2. call' = call
    BY <1>4 DEF AddAborts, hook
  <2> QED BY <2>1, <2>2, StraysNot
<1>5. CASE Resume(j)
  <2>1. RegInv' /\ Idle(j)' /\ \A i \in Jobs : Idle(i) => Idle(i)'
    BY <1>5, RunKeeps DEF Resume
  <2>2. \A i \in Jobs \ {j} : call'[i] = call[i]
    BY <1>5 DEF Resume
  <2> QED BY <2>1, <2>2, StraysNot
<1> QED BY <1>1, <1>2, <1>3, <1>4, <1>5 DEF Fiber

\* The steps of timers, idle threads, close() and the others.
LEMMA OthersKeepRegistrations ==
    ASSUME HookInv,
           \/ \E j \in Jobs : TimerStep(j)
           \/ \E t \in Threads : HookIdle(t)
           \/ CloseBegin \/ CloseEnd \/ Reopen \/ Cancelling \/ Peer \/ UNCHANGED hookVars
    PROVE  RegInv' /\ NoStrayWakeup'
<1> USE DEF HookInv, hook
<1>1. call' = call
  BY DEF TimerStep, Expire, Callback, CallbackCancels, HookIdle, CloseBegin, CloseEnd, Reopen,
         Cancelling, Peer, hookVars
<1>2. SUFFICES RegInv' /\ \A i \in Jobs : Idle(i) => Idle(i)'
  BY <1>1, StraysNot
<1>3. CASE UNCHANGED vars
  BY <1>3, QuietStep
<1>4. CASE \E e \in Events : CancelEvent(fd, e)
  BY <1>4, CancelEventKeeps, OneDescriptor
<1>5. CASE CancelAll(fd)
  BY <1>5, CancelAllKeeps, OneDescriptor
<1>6. CASE \E c \in Conditions : BecomeReady(fd, c)
  BY <1>6, KernelKeeps, OneDescriptor
<1>7. ASSUME NEW t \in Threads, IdleThread(t)
      PROVE  RegInv' /\ \A i \in Jobs : Idle(i) => Idle(i)'
  BY <1>7, IdleKeeps
<1>8. ASSUME NEW t \in Threads, NEW r \in harvested[t], ProcessFails(t, r)
      PROVE  RegInv' /\ \A i \in Jobs : Idle(i) => Idle(i)'
  <2>1. harvested' \in [Threads -> SUBSET [fd : Fds, what : SUBSET Conditions]]
    BY <1>8 DEF ProcessFails, Take, RegInv, TypeOK
  <2> QED BY <1>8, <2>1, OtherKeeps DEF ProcessFails, kernel, RegInv, TypeOK
<1>9. CASE CloseEnd
  <2>1. /\ interest' \in [Fds -> SUBSET Events] /\ ready' \in [Fds -> SUBSET Conditions]
        /\ edge' \in [Fds -> BOOLEAN]
    BY <1>9 DEF CloseEnd, RegInv, TypeOK
  <2> QED BY <1>9, <2>1, OtherKeeps DEF CloseEnd, RegInv, TypeOK
<1>10. CASE \E j \in Jobs : TimerStep(j)
  BY <1>10, <1>3, <1>4, OneDescriptor DEF TimerStep, Expire, Callback, CallbackCancels
<1>11. CASE \E t \in Threads : HookIdle(t)
  BY <1>11, <1>7, <1>8 DEF HookIdle
<1>12. CASE CloseBegin \/ Reopen \/ Cancelling \/ UNCHANGED hookVars
  BY <1>12, <1>3, <1>4, <1>5 DEF CloseBegin, Reopen, Cancelling, hookVars
<1>13. CASE Peer
  BY <1>13, <1>6 DEF Peer, Conditions, Events
<1> QED BY <1>9, <1>10, <1>11, <1>12, <1>13

-----------------------------------------------------------------------------
(* The types of the calls' variables and the causes of timeouts.           *)

\* timer->cancel() takes only an armed timer away.
LEMMA CancelTimerKeeps ==
    ASSUME CallsTyped, NEW j \in Jobs, CancelTimer(j)
    PROVE  /\ timer' \in [Jobs -> [Slots -> TimerStates]]
           /\ \A i \in Jobs, k \in Slots :
                timer'[i][k] = timer[i][k] \/ (i = j /\ timer[i][k] = "armed" /\ timer'[i][k] = "done")
<1> DEFINE row == [k \in Slots |-> IF k = waits[j] /\ timer[j][k] = "armed" THEN "done" ELSE timer[j][k]]
<1>1. timer \in [Jobs -> [Slots -> TimerStates]]
  BY DEF CallsTyped
<1>2. timer' = [timer EXCEPT ![j] = row]
  BY DEF CancelTimer
<1>3. row \in [Slots -> TimerStates]
  BY <1>1 DEF TimerStates
<1>4. \A k \in Slots : row[k] = timer[j][k] \/ (timer[j][k] = "armed" /\ row[k] = "done")
  OBVIOUS
<1> HIDE DEF row
<1>5. timer' \in [Jobs -> [Slots -> TimerStates]]
  BY <1>1, <1>2, <1>3
<1>6. \A i \in Jobs : timer'[i] = IF i = j THEN row ELSE timer[i]
  BY <1>1, <1>2
<1> QED BY <1>4, <1>5, <1>6

\* The steps of a call keep the types and the causes.
LEMMA CallKeepsCauses ==
    ASSUME HookInv, NEW j \in Jobs, Begin(j) \/ ConnectAtOnce(j) \/ Fiber(j)
    PROVE  CallsTyped' /\ Causes'
<1> USE DEF HookInv, CallsTyped, Goes, Returns, Places, Results
<1>1. CASE \/ Begin(j) \/ ConnectAtOnce(j) \/ Try(j) \/ Add(j) \/ AddAborts(j) \/ SockError(j)
  <2>1. UNCHANGED <<waits, timer, cancelled, file, open, closing>>
    BY <1>1 DEF Begin, ConnectAtOnce, Try, Add, AddAborts, SockError, hook
  <2>2. link' \in {"down", "up", "refused"}
    BY <1>1 DEF Begin, ConnectAtOnce, Try, Add, AddAborts, SockError
  <2>3. call' \in [Jobs -> Places]
    BY <1>1 DEF Begin, ConnectAtOnce, Try, Add, AddAborts, SockError, hook
  <2>4. result' = result \/ result' = [result EXCEPT ![j] = "ok"] \/ result' = [result EXCEPT ![j] = "error"]
    BY <1>1 DEF Begin, ConnectAtOnce, Try, Add, AddAborts, SockError, hook
  <2>5. result' \in [Jobs -> Results] /\ \A i \in Jobs : result'[i] = "timeout" => result[i] = "timeout"
    BY <2>4
  <2> QED BY <2>1, <2>2, <2>3, <2>5 DEF Causes, TimersAhead, CancelledByTimer, TimeoutMarked
<1>2. CASE Arm(j)
  <2>1. /\ waits' = [waits EXCEPT ![j] = @ + 1] /\ waits[j] + 1 \in Slots
        /\ UNCHANGED <<result, cancelled, link, file, open, closing>>
    BY <1>2, HookAssumption DEF Arm, Slots
  <2>2. waits' \in [Jobs -> 0 .. MaxWaits] /\ call' \in [Jobs -> Places]
    BY <1>2, <2>1 DEF Arm, Slots
  <2>3. timer' \in [Jobs -> [Slots -> TimerStates]]
    BY <1>2, <2>1 DEF Arm, TimerStates
  <2>4. \A i \in Jobs, k \in Slots :
          timer'[i][k] = timer[i][k] \/ (i = j /\ k = waits[j] + 1 /\ timer'[i][k] = "armed")
    BY <1>2, <2>1 DEF Arm
  <2>5. TimersAhead'
    <3>1. \A i \in Jobs, k \in Slots : k > waits'[i] => k > waits[i] /\ ~(i = j /\ k = waits[j] + 1)
      BY <2>1, HookAssumption DEF Slots
    <3> QED BY <2>4, <3>1 DEF Causes, TimersAhead
  <2>6. \A i \in Jobs, k \in Slots : timer[i][k] \in {"cancelling", "done"} => timer'[i][k] = timer[i][k]
    <3>1. timer[j][waits[j] + 1] = "none"
      BY <2>1, HookAssumption DEF Causes, TimersAhead
    <3> QED BY <2>4, <3>1
  <2> QED BY <2>1, <2>2, <2>3, <2>5, <2>6 DEF Causes, CancelledByTimer, TimeoutMarked
<1>3. CASE AddFails(j) \/ Resume(j)
  <2>1. CancelTimer(j) /\ UNCHANGED <<waits, cancelled, link, file, open, closing>>
    BY <1>3 DEF AddFails, Resume
  <2>2. call' \in [Jobs -> Places]
    BY <1>3 DEF AddFails, Resume
  <2>3. \/ result' = result \/ result' = [result EXCEPT ![j] = "error"]
        \/ cancelled[j] /\ result' = [result EXCEPT ![j] = "timeout"]
    BY <1>3 DEF AddFails, Resume
  <2>4. result' \in [Jobs -> Results]
    BY <2>3
  <2>5. TimeoutMarked'
    BY <2>1, <2>3 DEF Causes, TimeoutMarked
  <2>6. TimersAhead' /\ CancelledByTimer'
    BY <2>1, CancelTimerKeeps DEF Causes, TimersAhead, CancelledByTimer
  <2> QED BY <2>1, <2>2, <2>4, <2>5, <2>6, CancelTimerKeeps DEF Causes
<1> QED BY <1>1, <1>2, <1>3 DEF Fiber

\* The steps of a timer keep the types and the causes.
LEMMA TimerKeepsCauses ==
    ASSUME HookInv, NEW j \in Jobs, TimerStep(j)
    PROVE  CallsTyped' /\ Causes'
<1> USE DEF HookInv, CallsTyped
<1>1. PICK k \in Slots : Expire(j, k) \/ Callback(j, k) \/ CallbackCancels(j, k)
  BY DEF TimerStep
<1>2. UNCHANGED <<call, result, waits, link, file, open, closing>>
  BY <1>1 DEF Expire, Callback, CallbackCancels
<1>3. timer[j][k] # "none"
  BY <1>1 DEF Expire, Callback, CallbackCancels
<1>4. \E state \in {"fired", "cancelling", "done"} : timer' = [timer EXCEPT ![j][k] = state]
  BY <1>1 DEF Expire, Callback, CallbackCancels
<1>5. timer' \in [Jobs -> [Slots -> TimerStates]]
  BY <1>4 DEF TimerStates
<1>6. \A i \in Jobs, l \in Slots : (i # j \/ l # k) => timer'[i][l] = timer[i][l]
  BY <1>4
<1>7. TimersAhead'
  BY <1>2, <1>3, <1>6 DEF Causes, TimersAhead
<1>8. /\ cancelled' \in [Jobs -> BOOLEAN]
      /\ \A i \in Jobs : i # j => cancelled'[i] = cancelled[i]
      /\ cancelled[j] => cancelled'[j]
  <2>1. CASE Callback(j, k)
    <3> DEFINE mark == cancelled[j] \/ (InCall(j) /\ ~cancelled[j])
    <3>1. cancelled' = [cancelled EXCEPT ![j] = mark]
      BY <2>1 DEF Callback
    <3>2. mark \in BOOLEAN /\ (cancelled[j] => mark)
      OBVIOUS
    <3> HIDE DEF mark
    <3> QED BY <3>1, <3>2
  <2>2. CASE cancelled' = cancelled
    BY <2>2
  <2> QED BY <1>1, <2>1, <2>2 DEF Expire, CallbackCancels
<1>9. CancelledByTimer'
  <2>1. CASE timer'[j][k] \in {"cancelling", "done"}
    BY <2>1, <1>6, <1>8 DEF Causes, CancelledByTimer
  <2>2. CASE Expire(j, k)
    <3>1. cancelled' = cancelled /\ timer[j][k] = "armed"
      BY <2>2 DEF Expire
    <3> QED BY <3>1, <1>6 DEF Causes, CancelledByTimer
  <2>3. CASE Callback(j, k) \/ CallbackCancels(j, k)
    <3>1. timer'[j][k] \in {"cancelling", "done"}
      BY <2>3 DEF Callback, CallbackCancels
    <3> QED BY <3>1, <2>1
  <2> QED BY <1>1, <2>2, <2>3
<1>10. TimeoutMarked'
  BY <1>2, <1>8 DEF Causes, TimeoutMarked
<1> QED BY <1>2, <1>5, <1>7, <1>8, <1>9, <1>10 DEF Causes

\* The other steps leave the calls alone.
LEMMA OthersKeepCauses ==
    ASSUME HookInv,
           \/ \E t \in Threads : HookIdle(t)
           \/ CloseBegin \/ CloseEnd \/ Reopen \/ Cancelling \/ Peer \/ UNCHANGED hookVars
    PROVE  CallsTyped' /\ Causes'
<1>1. UNCHANGED hook
  BY DEF HookIdle, CloseBegin, CloseEnd, Reopen, Cancelling, Peer, hookVars
<1>2. link' \in {"down", "up", "refused"}
  BY DEF HookInv, CallsTyped, HookIdle, CloseBegin, CloseEnd, Reopen, Cancelling, Peer, hookVars
<1>3. file' \in 1 .. MaxFiles
  <2>1. file' = file \/ (file' = file + 1 /\ file < MaxFiles)
    BY DEF HookIdle, CloseBegin, CloseEnd, Reopen, Cancelling, Peer, hookVars
  <2> QED BY <2>1, HookAssumption DEF HookInv, CallsTyped
<1>4. open' \in BOOLEAN /\ closing' \in BOOLEAN
  <2>1. open' \in {open, TRUE, FALSE} /\ closing' \in {closing, TRUE, FALSE}
    BY DEF HookIdle, CloseBegin, CloseEnd, Reopen, Cancelling, Peer, hookVars
  <2> QED BY <2>1 DEF HookInv, CallsTyped
<1> QED BY <1>1, <1>2, <1>3, <1>4 DEF HookInv, CallsTyped, Causes, TimersAhead, CancelledByTimer, TimeoutMarked, hook

-----------------------------------------------------------------------------
(* The theorems.                                                           *)

\* No call has begun.
LEMMA HookInitInv == HookInit => HookInv
<1> SUFFICES ASSUME HookInit PROVE HookInv
  OBVIOUS
<1>1. RegInv
  BY InitRegInv DEF HookInit
<1>2. CallsTyped
  <2>1. file \in 1 .. MaxFiles /\ waits \in [Jobs -> 0 .. MaxWaits]
    BY HookAssumption DEF HookInit
  <2>2. timer \in [Jobs -> [Slots -> TimerStates]]
    BY DEF HookInit, TimerStates
  <2> QED BY <2>1, <2>2 DEF HookInit, CallsTyped, Places, Results
<1>3. Causes
  BY DEF HookInit, Causes, TimersAhead, CancelledByTimer, TimeoutMarked
<1>4. NoStrayWakeup
  BY FdAssumption DEF HookInit, Init, NoStrayWakeup, Registered
<1> QED BY <1>1, <1>2, <1>3, <1>4 DEF HookInv

\* Every step keeps the invariant.
LEMMA HookInvStep ==
    ASSUME HookInv, [HookNext]_hookVars
    PROVE  HookInv'
<1>1. CASE \E j \in Jobs : Begin(j) \/ ConnectAtOnce(j) \/ Fiber(j)
  BY <1>1, CallKeepsRegistrations, CallKeepsCauses DEF HookInv
<1>2. CASE \E j \in Jobs : TimerStep(j)
  BY <1>2, OthersKeepRegistrations, TimerKeepsCauses DEF HookInv
<1>3. CASE \/ \E t \in Threads : HookIdle(t)
           \/ CloseBegin \/ CloseEnd \/ Reopen \/ Cancelling \/ Peer \/ UNCHANGED hookVars
  BY <1>3, OthersKeepRegistrations, OthersKeepCauses DEF HookInv
<1> QED BY <1>1, <1>2, <1>3 DEF HookNext, HookDead

\* The invariant holds in every reachable state.
LEMMA HookInvariant == HookSpec => []HookInv
<1>1. HookInv /\ [HookNext]_hookVars => HookInv'
  BY HookInvStep
<1> QED BY <1>1, HookInitInv, PTL DEF HookSpec

\* Whatever events, timeouts, cancels and closes aim at a descriptor, only a
\* fiber that waits in IOhook or connect is registered or scheduled, and every
\* variable keeps its type.
THEOREM WakeupsInWaits == HookSpec => []WaitsClean
<1>1. HookInv => WaitsClean
  BY DEF HookInv, RegInv, CallsTyped, WaitsClean, HookTypeOK
<1> QED BY <1>1, HookInvariant, PTL

\* IOhook returns ETIMEDOUT only after the callback of one of the call's own
\* condition timers has marked its tinfo.
THEOREM TimeoutCause == HookSpec => []TimeoutHasCause
<1>1. HookInv => TimeoutHasCause
  BY DEF HookInv, Causes, CancelledByTimer, TimeoutMarked, TimeoutHasCause
<1> QED BY <1>1, HookInvariant, PTL

\* A fiber that leaves its wait after its timeout has spoken returns ETIMEDOUT:
\* it does not retry the call.
THEOREM TimeoutFinal == HookSpec => TimeoutEndsCall
<1> DEFINE Ends == \A j \in Jobs : call[j] = "wait" /\ cancelled[j] /\ call'[j] # "wait" => result'[j] = "timeout"
<1>1. HookInv /\ [HookNext]_hookVars => [Ends]_hookVars
  <2> SUFFICES ASSUME HookInv, [HookNext]_hookVars, NEW i \in Jobs,
                      call[i] = "wait", cancelled[i], call'[i] # "wait"
               PROVE  result'[i] = "timeout"
    OBVIOUS
  <2>1. PICK j \in Jobs : Begin(j) \/ ConnectAtOnce(j) \/ Fiber(j)
    BY DEF HookNext, HookDead, TimerStep, Expire, Callback, CallbackCancels, HookIdle, CloseBegin,
           CloseEnd, Reopen, Cancelling, Peer, hookVars, hook
  <2>2. i = j /\ Resume(j)
    BY <2>1 DEF HookInv, CallsTyped, Begin, ConnectAtOnce, Fiber, Try, Arm, Add, AddFails, AddAborts,
                Resume, SockError, Goes, Returns, hook
  <2> QED BY <2>2 DEF Resume, Returns, HookInv, CallsTyped
<1> QED BY <1>1, HookInvariant, PTL DEF HookSpec, TimeoutEndsCall
=============================================================================
