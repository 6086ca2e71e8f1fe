------------------------------- MODULE HookIO -------------------------------
(***************************************************************************)
(* The hooked socket calls (src/async/hook.cpp): IOhook (read, write,      *)
(* accept and the like), IOHook_connect and close, on one descriptor, on   *)
(* top of FdEvents.  A fiber that would block arms a condition timer,      *)
(* registers for its event, yields, and retries when it is resumed; the    *)
(* timer's callback marks the call as timed out and cancels the event.     *)
(*                                                                         *)
(* Each fiber makes one call; its tinfo lives as long as the call.  The    *)
(* timers of its successive waits are numbered.                            *)
(***************************************************************************)
EXTENDS FdEvents

CONSTANTS
    Readers,      \* fibers in read(), recv(), accept(), ...
    Connectors,   \* fibers in connect()
    Timed,        \* the fibers whose call has a timeout
    MaxWaits,     \* bound: waits of one call
    MaxFiles,     \* bound: files that get this descriptor, one after the other
    FileOf,       \* the file each fiber makes its call on: at most one fiber per
                  \* file and event, as addEvent demands
    Closes,       \* whether some fiber closes the descriptor
    Cancels,      \* whether other code cancels events (Socket::cancelRead and the like)
    Fails,        \* whether the peer may refuse, reset or hang up
    fd            \* the descriptor

ASSUME HookAssumption ==
    /\ Readers \cup Connectors = Jobs /\ Readers \cap Connectors = {}
    /\ Timed \subseteq Jobs /\ Fds = {fd}
    /\ MaxWaits \in Nat /\ MaxFiles \in Nat \ {0} /\ FileOf \in [Jobs -> 1 .. MaxFiles]
    /\ \A i, j \in Jobs : i # j /\ FileOf[i] = FileOf[j] => (i \in Readers <=> j \notin Readers)
    /\ Closes \in BOOLEAN /\ Cancels \in BOOLEAN /\ Fails \in BOOLEAN

VARIABLES
    call,       \* where each fiber is in its call
    result,     \* what the call returned
    waits,      \* how often it has waited
    timer,      \* the condition timer of each wait
    cancelled,  \* tinfo->cancelled
    link,       \* the connection behind the descriptor
    file,       \* number of the file the descriptor stands for
    open,       \* the descriptor is open
    closing     \* a fiber in close() is past cancelAll

hook == <<call, result, waits, timer, cancelled>>
hookVars == <<vars, hook, link, file, open, closing>>

Slots == 1 .. MaxWaits
Places == {"user", "try", "arm", "add", "wait", "sockerr", "returned"}
Results == {"none", "ok", "error", "timeout"}
TimerStates == {"none", "armed", "fired", "cancelling", "done"}

EventOf(j) == IF j \in Readers THEN "READ" ELSE "WRITE"

HookInit ==
    /\ Init
    /\ call = [j \in Jobs |-> "user"] /\ result = [j \in Jobs |-> "none"]
    /\ waits = [j \in Jobs |-> 0]
    /\ timer = [j \in Jobs |-> [k \in Slots |-> "none"]]
    /\ cancelled = [j \in Jobs |-> FALSE]
    /\ link = "down" /\ file = 1 /\ open = TRUE /\ closing = FALSE

Goes(j, p) == call' = [call EXCEPT ![j] = p]
Returns(j, r) == Goes(j, "returned") /\ result' = [result EXCEPT ![j] = r]

\* timer->cancel(): a timer that has already expired runs its callback all the same
CancelTimer(j) ==
    timer' = [timer EXCEPT ![j] =
                [k \in Slots |-> IF k = waits[j] /\ @[k] = "armed" THEN "done" ELSE @[k]]]

-----------------------------------------------------------------------------
(* The hooked calls.                                                       *)

\* the call finds its FdCtx; connect_f says EINPROGRESS
Begin(j) ==
    /\ ~aborted /\ call[j] = "user" /\ open /\ file = FileOf[j]
    /\ Goes(j, IF j \in Connectors THEN "arm" ELSE "try")
    /\ UNCHANGED <<vars, result, waits, timer, cancelled, link, file, open, closing>>

\* connect_f connects or fails at once
ConnectAtOnce(j) ==
    /\ ~aborted /\ call[j] = "user" /\ open /\ file = FileOf[j] /\ j \in Connectors
    /\ link = "down"
    /\ \/ link' = "up" /\ Returns(j, "ok")
       \/ link' = "refused" /\ Returns(j, "error")
    /\ UNCHANGED <<vars, waits, timer, cancelled, file, open, closing>>

\* the original function: it fails, succeeds or would block
Try(j) ==
    /\ ~aborted /\ call[j] = "try"
    /\ \/ ~open /\ Returns(j, "error") /\ UNCHANGED vars
       \/ open /\ "HUP" \in ready[fd] /\ Returns(j, "ok") /\ UNCHANGED vars
       \/ open /\ EventOf(j) \in ready[fd] /\ Returns(j, "ok") /\ Consume(fd, EventOf(j))
       \/ /\ open /\ ready[fd] \cap {"HUP", EventOf(j)} = {} /\ waits[j] < MaxWaits
          /\ Goes(j, "arm") /\ UNCHANGED <<vars, result>>
    /\ UNCHANGED <<waits, timer, cancelled, link, file, open, closing>>

\* addConditionTimer, when there is a timeout
Arm(j) ==
    /\ ~aborted /\ call[j] = "arm" /\ waits[j] < MaxWaits
    /\ waits' = [waits EXCEPT ![j] = @ + 1]
    /\ timer' = IF j \in Timed THEN [timer EXCEPT ![j][waits[j] + 1] = "armed"] ELSE timer
    /\ Goes(j, "add")
    /\ UNCHANGED <<vars, result, cancelled, link, file, open, closing>>

\* addEvent succeeds and the fiber yields
Add(j) ==
    /\ call[j] = "add" /\ open
    /\ AddEvent(j, fd, EventOf(j))
    /\ Goes(j, "wait")
    /\ UNCHANGED <<result, waits, timer, cancelled, link, file, open, closing>>

AddFailsRegistered(j) ==   \* mutant of AddFails: the event is recorded before epoll_ctl fails
    /\ ~aborted /\ call[j] = "add" /\ ~(open /\ CtlWorks(fd)) /\ EventOf(j) \notin events[fd]
    /\ CancelTimer(j)
    /\ Returns(j, "error")
    /\ events' = [events EXCEPT ![fd] = @ \cup {EventOf(j)}]
    /\ ctx' = [ctx EXCEPT ![fd][EventOf(j)] = j]
    /\ UNCHANGED <<pending, interest, kernel, harvested, wakeups, aborted,
                   waits, cancelled, link, file, open, closing>>

\* addEvent fails, since epoll_ctl does.  connect() goes on all the same
AddFails(j) ==
    /\ ~aborted /\ call[j] = "add" /\ ~(open /\ CtlWorks(fd)) /\ EventOf(j) \notin events[fd]
    /\ CancelTimer(j)
    /\ IF j \in Connectors THEN Goes(j, "sockerr") /\ UNCHANGED result
                           ELSE Returns(j, "error")
    /\ UNCHANGED <<vars, waits, cancelled, link, file, open, closing>>

\* addEvent's ASSERT(!(fd_ctx->m_events & event)) fails
AddAborts(j) ==
    /\ ~aborted /\ call[j] = "add" /\ EventOf(j) \in events[fd]
    /\ aborted' = TRUE
    /\ UNCHANGED <<events, ctx, pending, interest, kernel, harvested, wakeups,
                   hook, link, file, open, closing>>

ResumeIgnoresTimeout(j) ==   \* mutant of Resume: tinfo->cancelled is not looked at
    /\ call[j] = "wait" /\ Run(j)
    /\ CancelTimer(j)
    /\ Goes(j, IF j \in Connectors THEN "sockerr" ELSE "try")
    /\ UNCHANGED <<result, waits, cancelled, link, file, open, closing>>

ResumeBlamesTimer(j) ==   \* mutant of Resume: a wake-up without its event counts as a timeout
    /\ call[j] = "wait" /\ Run(j)
    /\ CancelTimer(j)
    /\ IF EventOf(j) \notin ready[fd]
         THEN Returns(j, "timeout")
         ELSE Goes(j, IF j \in Connectors THEN "sockerr" ELSE "try") /\ UNCHANGED result
    /\ UNCHANGED <<waits, cancelled, link, file, open, closing>>

\* the fiber runs again: it cancels its timer and looks at tinfo->cancelled
Resume(j) ==
    /\ call[j] = "wait" /\ Run(j)
    /\ CancelTimer(j)
    /\ IF cancelled[j] THEN Returns(j, "timeout")
                       ELSE /\ Goes(j, IF j \in Connectors THEN "sockerr" ELSE "try")
                            /\ UNCHANGED result
    /\ UNCHANGED <<waits, cancelled, link, file, open, closing>>

\* the end of IOHook_connect: SO_ERROR decides
SockError(j) ==
    /\ ~aborted /\ call[j] = "sockerr"
    /\ Returns(j, IF ~open \/ link = "refused" THEN "error" ELSE "ok")
    /\ UNCHANGED <<vars, waits, timer, cancelled, link, file, open, closing>>

-----------------------------------------------------------------------------
(* The timers.                                                             *)

Expire(j, k) ==
    /\ ~aborted /\ timer[j][k] = "armed"
    /\ timer' = [timer EXCEPT ![j][k] = "fired"]
    /\ UNCHANGED <<vars, call, result, waits, cancelled, link, file, open, closing>>

InCall(j) == call[j] \notin {"user", "returned"}

\* the callback finds tinfo alive and not cancelled, and marks it; else it does nothing
Callback(j, k) ==
    /\ ~aborted /\ timer[j][k] = "fired"
    /\ LET live == InCall(j) /\ ~cancelled[j] IN
       /\ timer' = [timer EXCEPT ![j][k] = IF live THEN "cancelling" ELSE "done"]
       /\ cancelled' = [cancelled EXCEPT ![j] = @ \/ live]
    /\ UNCHANGED <<vars, call, result, waits, link, file, open, closing>>

\* ... and then calls cancelEvent, which finds the event or not, or fails in epoll_ctl
CallbackCancels(j, k) ==
    /\ ~aborted /\ timer[j][k] = "cancelling"
    /\ timer' = [timer EXCEPT ![j][k] = "done"]
    /\ IF EventOf(j) \in events[fd] /\ CtlWorks(fd)
         THEN CancelEvent(fd, EventOf(j)) ELSE UNCHANGED vars
    /\ UNCHANGED <<call, result, waits, cancelled, link, file, open, closing>>

-----------------------------------------------------------------------------
(* close(), other users of the descriptor, the peer.                       *)

\* close(): cancelAll and the end of the FdCtx, before close_f
CloseBegin ==
    /\ Closes /\ ~aborted /\ open /\ ~closing
    /\ closing' = TRUE
    /\ IF events[fd] # {} /\ CtlWorks(fd) THEN CancelAll(fd) ELSE UNCHANGED vars
    /\ UNCHANGED <<hook, link, file, open>>

\* close_f: the kernel forgets the descriptor, its epoll registration included
CloseEnd ==
    /\ ~aborted /\ closing /\ open
    /\ open' = FALSE /\ closing' = FALSE /\ link' = "down"
    /\ interest' = [interest EXCEPT ![fd] = {}]
    /\ ready' = [ready EXCEPT ![fd] = {}] /\ edge' = [edge EXCEPT ![fd] = FALSE]
    /\ UNCHANGED <<events, ctx, pending, harvested, wakeups, aborted, hook, file>>

\* socket() or accept() returns the same descriptor for a new file
Reopen ==
    /\ ~aborted /\ ~open /\ file < MaxFiles
    /\ open' = TRUE /\ file' = file + 1
    /\ UNCHANGED <<vars, hook, link, closing>>

\* Socket::cancelRead, cancelWrite, cancelAccept, cancelAll
Cancelling ==
    /\ Cancels /\ open
    /\ CancelAll(fd) \/ \E e \in Events : CancelEvent(fd, e)
    /\ UNCHANGED <<hook, link, file, open, closing>>

\* data or room arrives, the connection is made, or it fails
Peer ==
    /\ ~aborted /\ open
    /\ \/ BecomeReady(fd, "READ") /\ UNCHANGED link
       \/ BecomeReady(fd, "WRITE") /\ link' = "up"
       \/ Fails /\ BecomeReady(fd, "HUP") /\ link' = (IF link = "down" THEN "refused" ELSE link)
    /\ UNCHANGED <<hook, file, open, closing>>

\* idle() finds a registered event epoll no longer holds: epoll_ctl fails, nobody is resumed
ProcessFails(t, r) ==
    /\ ~aborted /\ r \in harvested[t] /\ events[fd] \cap RealEvents(r.what) # {} /\ ~CtlWorks(fd)
    /\ Take(t, r)
    /\ UNCHANGED <<events, ctx, pending, interest, kernel, wakeups, aborted>>

HookIdle(t) ==
    /\ IdleThread(t) \/ \E r \in harvested[t] : ProcessFails(t, r)
    /\ UNCHANGED <<hook, link, file, open, closing>>

HookDead == aborted /\ UNCHANGED hookVars

Fiber(j) == Try(j) \/ Arm(j) \/ Add(j) \/ AddFails(j) \/ AddAborts(j) \/ Resume(j) \/ SockError(j)
TimerStep(j) == \E k \in Slots : Expire(j, k) \/ Callback(j, k) \/ CallbackCancels(j, k)

HookNext ==
    \/ \E j \in Jobs : Begin(j) \/ ConnectAtOnce(j) \/ Fiber(j) \/ TimerStep(j)
    \/ \E t \in Threads : HookIdle(t)
    \/ CloseBegin \/ CloseEnd \/ Reopen \/ Cancelling \/ Peer \/ HookDead

HookSpec == HookInit /\ [][HookNext]_hookVars

\* fibers, idle threads and timers make progress; the peer owes nothing
HookFairSpec ==
    /\ HookSpec
    /\ \A j \in Jobs : WF_hookVars(Fiber(j)) /\ WF_hookVars(TimerStep(j))
    /\ \A t \in Threads : WF_hookVars(HookIdle(t))
    /\ WF_hookVars(CloseEnd)

-----------------------------------------------------------------------------
(* Properties.                                                             *)

\* Every variable stays in its type.
HookTypeOK ==
    /\ TypeOK
    /\ call \in [Jobs -> Places] /\ result \in [Jobs -> Results]
    /\ waits \in [Jobs -> 0 .. MaxWaits]
    /\ timer \in [Jobs -> [Slots -> TimerStates]]
    /\ cancelled \in [Jobs -> BOOLEAN]
    /\ link \in {"down", "up", "refused"} /\ file \in 1 .. MaxFiles
    /\ open \in BOOLEAN /\ closing \in BOOLEAN

\* Outside its wait a fiber is neither registered nor scheduled: no late event,
\* timeout, cancel or close resumes it in the middle of something else.
NoStrayWakeup == \A j \in Jobs : call[j] # "wait" => ~Registered(j) /\ wakeups[j] = 0

\* A fiber is resumed in its wait alone, and every variable is in its type.
WaitsClean == HookTypeOK /\ NoStrayWakeup

\* A call reports ETIMEDOUT only when the timer of one of its waits has expired
\* and its callback has run.
TimeoutHasCause ==
    \A j \in Jobs : result[j] = "timeout" => \E k \in Slots : timer[j][k] \in {"cancelling", "done"} /\ cancelled[j]

\* A timed-out call is over: a fiber whose callback has run and that is resumed
\* does not wait again.
TimeoutEndsCall ==
    [][\A j \in Jobs : call[j] = "wait" /\ cancelled[j] /\ call'[j] # "wait" => result'[j] = "timeout"]_hookVars

\* "If a timeout is set, a condition timer cancels the event when the time is
\* up": a call with a timeout returns, even when nothing ever arrives.
TimeoutHonoured == \A j \in Timed : InCall(j) ~> (~InCall(j) \/ aborted)
=============================================================================
