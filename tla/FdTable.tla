------------------------------ MODULE FdTable ------------------------------
(***************************************************************************)
(* The descriptor table (src/async/fdmanager.cpp) and the hooked calls     *)
(* that keep it (src/async/hook.cpp): socket, accept, close, fcntl, ioctl  *)
(* and setsockopt.  An entry remembers what the program asked for, while   *)
(* the kernel's descriptor is always made non-blocking.                    *)
(*                                                                         *)
(* FdManager::get() looks under a read lock and creates under a later      *)
(* write lock; close() removes the entry before it closes the descriptor,  *)
(* whose number the kernel may then give to any other thread.              *)
(***************************************************************************)
EXTENDS Naturals, FiniteSets

CONSTANTS
    Numbers,     \* descriptor numbers
    Callers,     \* threads
    Plain,       \* the threads with t_hook_enable = false
    Timeouts,    \* time-outs given to setsockopt
    NoEntry,     \* an empty slot of m_datas
    MaxFiles     \* bound: how many files are ever opened

NoTimeout == "-1"

\* FdCtx of a socket: the file it was made for, and the modes and time-out it remembers
FdCtxs == [made : Nat, sysNonblock : BOOLEAN, userNonblock : BOOLEAN, isClosed : BOOLEAN,
           timeout : Timeouts \cup {NoTimeout}]

ASSUME FdTableAssumption == NoEntry \notin FdCtxs /\ MaxFiles \in Nat

VARIABLES
    openFile,  \* external: the open file behind each number, 0 when it is free
    files,     \* external: how many files have been opened
    nonblock,  \* external: the kernel's O_NONBLOCK flag of each number
    m_datas,   \* FdManager::m_datas
    call,      \* the step each thread is at in a call that takes several, and its number
    wanted,    \* what the program last asked for: non-blocking or not
    bypassed   \* numbers whose entry or flag some call has gone around

kernelVars == <<openFile, files, nonblock>>
fdVars == <<kernelVars, m_datas, call, wanted, bypassed>>

None == [at |-> "none", fd |-> 0]

FdInit ==
    /\ openFile = [n \in Numbers |-> 0] /\ files = 0
    /\ nonblock = [n \in Numbers |-> FALSE]
    /\ m_datas = [n \in Numbers |-> NoEntry]
    /\ call = [t \in Callers |-> None]
    /\ wanted = [n \in Numbers |-> FALSE]
    /\ bypassed = {}

Hooked(t) == t \notin Plain
InCall(t, at) == call[t].at = at
Step(t, at, n) == call' = [call EXCEPT ![t] = [at |-> at, fd |-> n]]
Return(t) == call' = [call EXCEPT ![t] = None]

\* no thread is inside a call on n that takes several steps
Settled(n) == \A t \in Callers : call[t] # None => call[t].fd # n

\* external: the kernel opens a file under a free number, blocking
Opened(t, n, at) ==
    /\ call[t] = None /\ openFile[n] = 0 /\ files < MaxFiles
    /\ files' = files + 1
    /\ openFile' = [openFile EXCEPT ![n] = files + 1]
    /\ nonblock' = [nonblock EXCEPT ![n] = FALSE]
    /\ wanted' = [wanted EXCEPT ![n] = FALSE]
    /\ IF at = "none" THEN Return(t) ELSE Step(t, at, n)
    /\ UNCHANGED <<m_datas, bypassed>>

\* socket(): a thread without the hook only makes the system call
Socket(t, n) == Opened(t, n, IF Hooked(t) THEN "get" ELSE "none")

\* accept() registers what it returns in either case
Accept(t, n) == Opened(t, n, "get")

\* FdManager::get(fd, true) under the read lock
GetEntry(t) ==
    /\ InCall(t, "get")
    /\ IF m_datas[call[t].fd] # NoEntry THEN Return(t) ELSE Step(t, "create", call[t].fd)
    /\ UNCHANGED <<kernelVars, m_datas, wanted, bypassed>>

\* FdCtx::init() of a socket
NewFdCtx(n) == [made |-> openFile[n], sysNonblock |-> TRUE, userNonblock |-> FALSE,
                isClosed |-> FALSE, timeout |-> NoTimeout]

\* FdManager::get(fd, true) under the write lock, which does not look again
CreateEntry(t) ==
    /\ InCall(t, "create")
    /\ LET n == call[t].fd IN
          /\ m_datas' = [m_datas EXCEPT ![n] = NewFdCtx(n)]
          /\ nonblock' = [nonblock EXCEPT ![n] = TRUE]
    /\ Return(t)
    /\ UNCHANGED <<openFile, files, wanted, bypassed>>

Usable(n) == openFile[n] # 0 /\ Settled(n)

\* the call that opened n has returned it to the program
Known(n) == /\ openFile[n] # 0
            /\ \A t \in Callers : call[t].fd = n => ~InCall(t, "get") /\ ~InCall(t, "create")

\* close(): a thread without the hook only makes the system call
ClosePlain(t, n) ==
    /\ call[t] = None /\ Usable(n) /\ ~Hooked(t)
    /\ openFile' = [openFile EXCEPT ![n] = 0]
    /\ bypassed' = IF m_datas[n] # NoEntry THEN bypassed \cup {n} ELSE bypassed
    /\ UNCHANGED <<files, nonblock, m_datas, call, wanted>>

\* close(): wake the waiters (cancelAll) and mark the entry, ...
CloseBegin(t, n) ==
    /\ call[t] = None /\ Usable(n) /\ Hooked(t)
    /\ IF m_datas[n] = NoEntry
          THEN Step(t, "close", n) /\ UNCHANGED m_datas
          ELSE Step(t, "del", n) /\ m_datas' = [m_datas EXCEPT ![n].isClosed = TRUE]
    /\ UNCHANGED <<kernelVars, wanted, bypassed>>

CloseKeepsEntry(t) ==   \* mutant of CloseDel: the entry stays
    /\ InCall(t, "del")
    /\ Step(t, "close", call[t].fd)
    /\ UNCHANGED <<kernelVars, m_datas, wanted, bypassed>>

\* ... FdManager::del(), ...
CloseDel(t) ==
    /\ InCall(t, "del")
    /\ m_datas' = [m_datas EXCEPT ![call[t].fd] = NoEntry]
    /\ Step(t, "close", call[t].fd)
    /\ UNCHANGED <<kernelVars, wanted, bypassed>>

\* ... and the system call
CloseEnd(t) ==
    /\ InCall(t, "close")
    /\ openFile' = [openFile EXCEPT ![call[t].fd] = 0]
    /\ bypassed' = bypassed \ {call[t].fd}
    /\ Return(t)
    /\ UNCHANGED <<files, nonblock, m_datas, wanted>>

\* the entry is followed: there is one and it is not closed
Followed(n) == m_datas[n] # NoEntry /\ ~m_datas[n].isClosed

SetFlPassedOn(t, n, nb) ==   \* mutant of FcntlSetFl: the kernel is given the program's flag
    /\ call[t] = None /\ Known(n)
    /\ wanted' = [wanted EXCEPT ![n] = nb]
    /\ m_datas' = IF Followed(n) THEN [m_datas EXCEPT ![n].userNonblock = nb] ELSE m_datas
    /\ nonblock' = [nonblock EXCEPT ![n] = nb]
    /\ UNCHANGED <<openFile, files, call, bypassed>>

\* fcntl(F_SETFL): the entry keeps the program's wish, the kernel the entry's mode
FcntlSetFl(t, n, nb) ==
    /\ call[t] = None /\ Known(n)
    /\ wanted' = [wanted EXCEPT ![n] = nb]
    /\ IF Followed(n)
          THEN /\ m_datas' = [m_datas EXCEPT ![n].userNonblock = nb]
               /\ nonblock' = [nonblock EXCEPT ![n] = m_datas[n].sysNonblock]
          ELSE /\ nonblock' = [nonblock EXCEPT ![n] = nb]
               /\ UNCHANGED m_datas
    /\ UNCHANGED <<openFile, files, call, bypassed>>

\* fcntl(F_GETFL): what the program is told
FcntlGetFl(n) == IF Followed(n) THEN m_datas[n].userNonblock ELSE nonblock[n]

\* ioctl(FIONBIO): the kernel is given the program's value, entry or not
IoctlFionbio(t, n, nb) ==
    /\ call[t] = None /\ Known(n)
    /\ wanted' = [wanted EXCEPT ![n] = nb]
    /\ m_datas' = IF Followed(n) THEN [m_datas EXCEPT ![n].userNonblock = nb] ELSE m_datas
    /\ nonblock' = [nonblock EXCEPT ![n] = nb]
    /\ bypassed' = IF Followed(n) /\ ~nb THEN bypassed \cup {n} ELSE bypassed
    /\ UNCHANGED <<openFile, files, call>>

\* setsockopt(SO_RCVTIMEO / SO_SNDTIMEO): the entry keeps the time-out
SetTimeout(t, n, ms) ==
    /\ call[t] = None /\ Hooked(t) /\ Usable(n)
    /\ m_datas' = IF m_datas[n] = NoEntry THEN m_datas ELSE [m_datas EXCEPT ![n].timeout = ms]
    /\ UNCHANGED <<kernelVars, call, wanted, bypassed>>

FdNext ==
    \E t \in Callers :
       \/ GetEntry(t) \/ CreateEntry(t) \/ CloseDel(t) \/ CloseEnd(t)
       \/ \E n \in Numbers :
             \/ Socket(t, n) \/ Accept(t, n) \/ ClosePlain(t, n) \/ CloseBegin(t, n)
             \/ \E nb \in BOOLEAN : FcntlSetFl(t, n, nb) \/ IoctlFionbio(t, n, nb)
             \/ \E ms \in Timeouts : SetTimeout(t, n, ms)

FdSpec == FdInit /\ [][FdNext]_fdVars
-----------------------------------------------------------------------------
\* An entry belongs to the file that is open under its number, never to an earlier file
\* of that number, and get() overwrites none: a number that is free, or is being entered,
\* has no entry.  A thread that closes without the hook is the only way around it.
EntryOfOpenFile ==
    \A n \in Numbers \ bypassed :
       /\ m_datas[n] # NoEntry => m_datas[n].made = openFile[n]
       /\ (\E t \in Callers : InCall(t, "create") /\ call[t].fd = n) => m_datas[n] = NoEntry

\* Outside the calls that change it, F_GETFL tells the program what it last asked for,
\* and a descriptor with an entry is non-blocking in the kernel, which hooked reads and
\* writes need to suspend a fiber and not the thread; unless FIONBIO turned that off.
NonblockKept ==
    \A n \in Numbers \ bypassed : openFile[n] # 0 /\ Settled(n) =>
       /\ FcntlGetFl(n) = wanted[n]
       /\ m_datas[n] # NoEntry => nonblock[n] /\ ~m_datas[n].isClosed
=============================================================================
