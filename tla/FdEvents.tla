------------------------------ MODULE FdEvents ------------------------------
(***************************************************************************)
(* Event registration of IOManager (src/async/iomanager.cpp): addEvent,    *)
(* delEvent, cancelEvent, cancelAll and the part of idle() that turns what *)
(* epoll_wait returned into scheduled jobs, with the epoll instance they   *)
(* drive (edge triggered).                                                 *)
(*                                                                         *)
(* Each operation runs under the FdContext's mutex and is one step.  What  *)
(* epoll_wait returned is in the thread's hands before it takes that mutex *)
(* and may be out of date when it is processed.                            *)
(***************************************************************************)
EXTENDS Integers, FiniteSets, FiniteSetsExt

CONSTANTS
    Fds,       \* file descriptors
    Jobs,      \* fibers or callbacks that wait for events
    Threads,   \* threads in idle()
    Nil

Events == {"READ", "WRITE"}
Conditions == Events \cup {"HUP"}   \* EPOLLIN, EPOLLOUT and EPOLLHUP / EPOLLERR

ASSUME FdAssumption == IsFiniteSet(Fds) /\ Nil \notin Jobs

VARIABLES
    events,     \* FdContext::m_events
    ctx,        \* the job in FdContext::read and FdContext::write
    pending,    \* m_pendingEventCount
    interest,   \* the event mask epoll holds for each descriptor, {} when removed
    ready,      \* the conditions the kernel sees on each descriptor
    edge,       \* an edge not yet returned by epoll_wait
    harvested,  \* what epoll_wait returned to each thread and is not processed yet
    wakeups,    \* schedule() calls made for each job since it last ran
    aborted     \* an ASSERT has failed

kernel == <<ready, edge>>
vars == <<events, ctx, pending, interest, kernel, harvested, wakeups, aborted>>

Init ==
    /\ events = [f \in Fds |-> {}]
    /\ ctx = [f \in Fds |-> [e \in Events |-> Nil]]
    /\ pending = 0
    /\ interest = [f \in Fds |-> {}]
    /\ ready = [f \in Fds |-> {}] /\ edge = [f \in Fds |-> FALSE]
    /\ harvested = [t \in Threads |-> {}]
    /\ wakeups = [j \in Jobs |-> 0]
    /\ aborted = FALSE

\* what epoll reports for f with this mask: hang-ups and errors are always reported
Reported(f, mask) == IF mask = {} THEN {} ELSE ready[f] \cap (mask \cup {"HUP"})

\* epoll_ctl: a removal, or a new mask whose readiness is looked at afresh
EpollCtl(f, mask) ==
    /\ interest' = [interest EXCEPT ![f] = mask]
    /\ edge' = [edge EXCEPT ![f] = Reported(f, mask) # {}]

\* epoll_ctl succeeds: ADD, chosen when no event is registered, needs a descriptor
\* epoll does not hold, MOD and DEL one that it holds
CtlWorks(f) == (events[f] = {}) <=> (interest[f] = {})

Registered(j) == \E f \in Fds, e \in Events : ctx[f][e] = j

\* the job runs: it waits for nothing and nobody has scheduled it
Idle(j) == ~Registered(j) /\ wakeups[j] = 0

TriggerKeepsSlot(f, E) ==   \* mutant of Trigger: the fiber is copied, not moved, out of its slot
    /\ events' = [events EXCEPT ![f] = @ \ E]
    /\ wakeups' = [j \in Jobs |-> wakeups[j] + Cardinality({e \in E : ctx[f][e] = j})]
    /\ pending' = pending - Cardinality(E)
    /\ UNCHANGED ctx

\* triggerEvent for each event of E: the job of each goes to the scheduler
Trigger(f, E) ==
    /\ events' = [events EXCEPT ![f] = @ \ E]
    /\ ctx' = [ctx EXCEPT ![f] = [e \in Events |-> IF e \in E THEN Nil ELSE @[e]]]
    /\ wakeups' = [j \in Jobs |-> wakeups[j] + Cardinality({e \in E : ctx[f][e] = j})]
    /\ pending' = pending - Cardinality(E)

-----------------------------------------------------------------------------
AddEventUncounted(j, f, e) ==   \* mutant of AddEvent: the count misses a second event
    /\ ~aborted /\ Idle(j) /\ e \notin events[f] /\ CtlWorks(f)
    /\ EpollCtl(f, events[f] \cup {e})
    /\ pending' = IF events[f] = {} THEN pending + 1 ELSE pending
    /\ events' = [events EXCEPT ![f] = @ \cup {e}]
    /\ ctx' = [ctx EXCEPT ![f][e] = j]
    /\ UNCHANGED <<ready, harvested, wakeups, aborted>>

\* IOManager::addEvent; the caller has no second wait for the same event
AddEvent(j, f, e) ==
    /\ ~aborted /\ Idle(j) /\ e \notin events[f] /\ CtlWorks(f)
    /\ EpollCtl(f, events[f] \cup {e})
    /\ pending' = pending + 1
    /\ events' = [events EXCEPT ![f] = @ \cup {e}]
    /\ ctx' = [ctx EXCEPT ![f][e] = j]
    /\ UNCHANGED <<ready, harvested, wakeups, aborted>>

DelEventKeeps(f, e) ==   \* mutant of DelEvent: resetContext is missing
    /\ ~aborted /\ e \in events[f] /\ CtlWorks(f)
    /\ EpollCtl(f, events[f] \ {e})
    /\ pending' = pending - 1
    /\ events' = [events EXCEPT ![f] = @ \ {e}]
    /\ UNCHANGED <<ctx, ready, harvested, wakeups, aborted>>

\* IOManager::delEvent: the job is dropped, not scheduled
DelEvent(f, e) ==
    /\ ~aborted /\ e \in events[f] /\ CtlWorks(f)
    /\ EpollCtl(f, events[f] \ {e})
    /\ pending' = pending - 1
    /\ events' = [events EXCEPT ![f] = @ \ {e}]
    /\ ctx' = [ctx EXCEPT ![f][e] = Nil]
    /\ UNCHANGED <<ready, harvested, wakeups, aborted>>

\* IOManager::cancelEvent: the job is scheduled at once
CancelEvent(f, e) ==
    /\ ~aborted /\ e \in events[f] /\ CtlWorks(f)
    /\ EpollCtl(f, events[f] \ {e})
    /\ Trigger(f, {e})
    /\ UNCHANGED <<ready, harvested, aborted>>

\* IOManager::cancelAll
CancelAll(f) ==
    /\ ~aborted /\ events[f] # {} /\ CtlWorks(f)
    /\ EpollCtl(f, {})
    /\ Trigger(f, events[f])
    /\ UNCHANGED <<ready, harvested, aborted>>

-----------------------------------------------------------------------------
(* The kernel and the scheduler.                                           *)

BecomeReady(f, c) ==
    /\ ~aborted /\ c \notin ready[f]
    /\ ready' = [ready EXCEPT ![f] = @ \cup {c}]
    /\ edge' = [edge EXCEPT ![f] = @ \/ (interest[f] # {} /\ c \in interest[f] \cup {"HUP"})]
    /\ UNCHANGED <<events, ctx, pending, interest, harvested, wakeups, aborted>>

\* the data is read or the buffer fills up: a hang-up stays
Consume(f, e) ==
    /\ ~aborted /\ e \in ready[f] \cap Events
    /\ ready' = [ready EXCEPT ![f] = @ \ {e}]
    /\ UNCHANGED <<events, ctx, pending, interest, edge, harvested, wakeups, aborted>>

\* the scheduler resumes a job that was scheduled
Run(j) ==
    /\ ~aborted /\ wakeups[j] > 0
    /\ wakeups' = [wakeups EXCEPT ![j] = @ - 1]
    /\ UNCHANGED <<events, ctx, pending, interest, kernel, harvested, aborted>>

-----------------------------------------------------------------------------
(* IOManager::idle.                                                        *)

Deliverable == {f \in Fds : edge[f] /\ Reported(f, interest[f]) # {}}

\* epoll_wait returns some of the descriptors with an edge
EpollWait(t) ==
    /\ ~aborted /\ harvested[t] = {}
    /\ \E F \in SUBSET Deliverable \ {{}} :
        /\ harvested' = [harvested EXCEPT ![t] =
                           {[fd |-> f, what |-> Reported(f, interest[f])] : f \in F}]
        /\ edge' = [f \in Fds |-> edge[f] /\ f \notin F]
    /\ UNCHANGED <<events, ctx, pending, interest, ready, wakeups, aborted>>

\* real_events: a hang-up or an error counts as readable and writable
RealEvents(what) == IF "HUP" \in what THEN Events ELSE what \cap Events

Take(t, r) == harvested' = [harvested EXCEPT ![t] = @ \ {r}]

\* none of the returned events is registered any more
ProcessStale(t, r) ==
    /\ ~aborted /\ r \in harvested[t] /\ events[r.fd] \cap RealEvents(r.what) = {}
    /\ Take(t, r)
    /\ UNCHANGED <<events, ctx, pending, interest, kernel, wakeups, aborted>>

ProcessNoRearm(t, r) ==   \* mutant of Process: the events left are dropped from the mask
    /\ ~aborted /\ r \in harvested[t] /\ RealEvents(r.what) # {}
    /\ RealEvents(r.what) \subseteq events[r.fd] /\ CtlWorks(r.fd)
    /\ EpollCtl(r.fd, {})
    /\ Trigger(r.fd, RealEvents(r.what))
    /\ Take(t, r)
    /\ UNCHANGED <<ready, aborted>>

\* every returned event is registered: its job is scheduled
Process(t, r) ==
    /\ ~aborted /\ r \in harvested[t] /\ RealEvents(r.what) # {}
    /\ RealEvents(r.what) \subseteq events[r.fd] /\ CtlWorks(r.fd)
    /\ EpollCtl(r.fd, events[r.fd] \ RealEvents(r.what))
    /\ Trigger(r.fd, RealEvents(r.what))
    /\ Take(t, r)
    /\ UNCHANGED <<ready, aborted>>

\* only some are: triggerEvent's ASSERT(m_events & event) fails for another
ProcessAbort(t, r) ==
    /\ ~aborted /\ r \in harvested[t] /\ events[r.fd] \cap RealEvents(r.what) # {}
    /\ ~(RealEvents(r.what) \subseteq events[r.fd]) /\ CtlWorks(r.fd)
    /\ aborted' = TRUE
    /\ UNCHANGED <<events, ctx, pending, interest, kernel, harvested, wakeups>>

IdleThread(t) ==
    \/ EpollWait(t)
    \/ \E r \in harvested[t] : ProcessStale(t, r) \/ Process(t, r) \/ ProcessAbort(t, r)

\* abort() has ended the process
Dead == aborted /\ UNCHANGED vars

Next ==
    \/ Dead
    \/ \E f \in Fds, e \in Events :
         DelEvent(f, e) \/ CancelEvent(f, e) \/ Consume(f, e) \/ \E j \in Jobs : AddEvent(j, f, e)
    \/ \E f \in Fds : CancelAll(f) \/ \E c \in Conditions : BecomeReady(f, c)
    \/ \E j \in Jobs : Run(j)
    \/ \E t \in Threads : IdleThread(t)

Spec == Init /\ [][Next]_vars

\* idle threads keep calling epoll_wait and processing what it returns
FairSpec == Spec /\ \A t \in Threads : WF_vars(IdleThread(t))

-----------------------------------------------------------------------------
(* Properties.                                                             *)

\* Every variable stays in its type.
TypeOK ==
    /\ events \in [Fds -> SUBSET Events] /\ interest \in [Fds -> SUBSET Events]
    /\ ctx \in [Fds -> [Events -> Jobs \cup {Nil}]]
    /\ pending \in Nat
    /\ ready \in [Fds -> SUBSET Conditions] /\ edge \in [Fds -> BOOLEAN]
    /\ harvested \in [Threads -> SUBSET [fd : Fds, what : SUBSET Conditions]]
    /\ wakeups \in [Jobs -> Nat]
    /\ aborted \in BOOLEAN

Waits == {w \in Fds \X Events : w[2] \in events[w[1]]}

\* stopping() waits for m_pendingEventCount to be 0: it is exactly the number
\* of registered events, whichever of the five paths removes them.
PendingExact == pending = Cardinality(Waits)

\* The count, and every variable in its type.
PendingKept == TypeOK /\ PendingExact

\* An event bit is set exactly while a job is stored for it: addEvent's ASSERT that
\* the slot is empty holds, and triggerEvent never schedules an empty slot.
SlotsMatchBits == \A f \in Fds, e \in Events : e \in events[f] <=> ctx[f][e] # Nil

\* epoll watches a descriptor for exactly the registered events.
EpollAgrees == \A f \in Fds : interest[f] = events[f]

\* What the three places say of a registration: bit, stored job and epoll's mask.
RegistrationsAgree == SlotsMatchBits /\ EpollAgrees

\* A wait is resumed at most once: a job is never both registered and
\* scheduled, nor scheduled twice, though a late epoll result, a cancel and a
\* timeout may all aim at it.
ResumedOnce ==
    /\ \A j \in Jobs : wakeups[j] <= 1 /\ (Registered(j) => wakeups[j] = 0)
    /\ \A v, w \in Waits : v # w => ctx[v[1]][v[2]] # ctx[w[1]][w[2]]

\* A job that waits for an event is resumed when the event stays ready: no
\* edge is lost between registering, re-arming and processing old results.
ReadyIsServed ==
    \A f \in Fds, e \in Events :
        (e \in events[f] /\ e \in ready[f]) ~> (e \notin events[f] \/ e \notin ready[f] \/ aborted)

\* triggerEvent's ASSERT(m_events & event) never fails.
NeverAborts == ~aborted
=============================================================================
