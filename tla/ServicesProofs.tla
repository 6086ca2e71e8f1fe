--------------------------- MODULE ServicesProofs ---------------------------
(***************************************************************************)
(* Proofs about the descriptor table, for any numbers, threads and files,  *)
(* about the server, for any listening sockets and accept loops, and about *)
(* the loggers, for any definitions, writing threads and patterns.         *)
(***************************************************************************)
EXTENDS FdTable, TcpServer, Logging, FiniteSetTheorems, WellFoundedInduction, TLAPS

-----------------------------------------------------------------------------
(* The descriptor table.                                                   *)

FdSteps == {"none", "get", "create", "del", "close"}

FdTyped ==
    /\ openFile \in [Numbers -> Nat] /\ files \in Nat
    /\ nonblock \in [Numbers -> BOOLEAN] /\ wanted \in [Numbers -> BOOLEAN]
    /\ m_datas \in [Numbers -> FdCtxs \cup {NoEntry}]
    /\ call \in [Callers -> [at : FdSteps, fd : Numbers \cup {0}]]
    /\ bypassed \subseteq Numbers

\* thread t is inside a call on n that takes several steps
Busy(t, n) == call[t].at # "none" /\ call[t].fd = n
Entering(t) == call[t].at \in {"get", "create"}

\* a thread in a call has the number to itself, its file open; when it comes to the
\* system call the entry is gone
Calls ==
    /\ \A t \in Callers : IF call[t].at = "none" THEN call[t] = None
                          ELSE call[t].fd \in Numbers /\ openFile[call[t].fd] # 0
    /\ \A t, u \in Callers, n \in Numbers : Busy(t, n) /\ Busy(u, n) => t = u
    /\ \A t \in Callers : call[t].at = "close" => m_datas[call[t].fd] = NoEntry

\* every entry is of a socket, which init() has made non-blocking; and where nobody has gone
\* around the table, an entry is of the open file, a file being entered is blocking, as it
\* was opened, and has no entry yet, and outside the calls the flag is what it should be
NumberKept(n) ==
    /\ m_datas[n] # NoEntry => m_datas[n].sysNonblock = TRUE
    /\ n \notin bypassed =>
          /\ m_datas[n] # NoEntry => openFile[n] # 0 /\ m_datas[n].made = openFile[n]
          /\ \A t \in Callers : Entering(t) /\ call[t].fd = n =>
                m_datas[n] = NoEntry /\ nonblock[n] = FALSE /\ wanted[n] = FALSE
          /\ openFile[n] # 0 /\ Settled(n) =>
                /\ FcntlGetFl(n) = wanted[n]
                /\ m_datas[n] # NoEntry => nonblock[n] = TRUE /\ m_datas[n].isClosed = FALSE

FdTableInv == FdTyped /\ Calls /\ \A n \in Numbers : NumberKept(n)

\* An empty table.
LEMMA FdTableInit == FdInit => FdTableInv
<1> SUFFICES ASSUME FdInit PROVE FdTableInv
  OBVIOUS
<1> USE FdTableAssumption DEF FdInit, None
<1>1. FdTyped
  BY DEF FdTyped, FdSteps
<1>2. Calls
  BY DEF Calls, Busy
<1>3. \A n \in Numbers : NumberKept(n)
  BY DEF NumberKept, Entering
<1> QED BY <1>1, <1>2, <1>3 DEF FdTableInv

\* Every variable stays in its type.
LEMMA FdTypesKept ==
    ASSUME FdTyped, Calls, [FdNext]_fdVars
    PROVE  FdTyped'
<1> USE DEF FdTyped, kernelVars
<1>0. ASSUME NEW t \in Callers, NEW at \in FdSteps, NEW n \in Numbers, Step(t, at, n) \/ Return(t)
      PROVE  call' \in [Callers -> [at : FdSteps, fd : Numbers \cup {0}]]
  BY <1>0 DEF Step, Return, None, FdSteps
<1>1. CASE UNCHANGED fdVars
  BY <1>1 DEF fdVars
<1>2. ASSUME NEW t \in Callers, NEW n \in Numbers, Socket(t, n) \/ Accept(t, n)
      PROVE  FdTyped'
  <2>1. PICK at \in {"none", "get"} : Opened(t, n, at)
    BY <1>2 DEF Socket, Accept
  <2>2. /\ files' = files + 1 /\ openFile' = [openFile EXCEPT ![n] = files + 1]
        /\ nonblock' = [nonblock EXCEPT ![n] = FALSE] /\ wanted' = [wanted EXCEPT ![n] = FALSE]
        /\ UNCHANGED <<m_datas, bypassed>>
    BY <2>1 DEF Opened
  <2>3. call' \in [Callers -> [at : FdSteps, fd : Numbers \cup {0}]]
    BY <1>0, <2>1 DEF Opened, FdSteps
  <2> QED BY <2>2, <2>3
<1>3. ASSUME NEW t \in Callers, GetEntry(t) \/ CreateEntry(t) \/ CloseDel(t) \/ CloseEnd(t)
      PROVE  FdTyped'
  <2>0. PICK n \in Numbers : n = call[t].fd
    BY <1>3 DEF GetEntry, CreateEntry, CloseDel, CloseEnd, InCall, Calls
  <2>1. call' \in [Callers -> [at : FdSteps, fd : Numbers \cup {0}]]
    BY <1>0, <1>3, <2>0 DEF GetEntry, CreateEntry, CloseDel, CloseEnd, FdSteps
  <2>2. NewFdCtx(n) \in FdCtxs
    BY DEF NewFdCtx, FdCtxs
  <2>3. m_datas' \in [Numbers -> FdCtxs \cup {NoEntry}] /\ bypassed' \subseteq Numbers
    BY <1>3, <2>0, <2>2 DEF GetEntry, CreateEntry, CloseDel, CloseEnd
  <2>4. openFile' \in [Numbers -> Nat] /\ UNCHANGED <<files, wanted>>
    BY <1>3, <2>0 DEF GetEntry, CreateEntry, CloseDel, CloseEnd
  <2>5. nonblock' = nonblock \/ nonblock' = [nonblock EXCEPT ![n] = TRUE]
    BY <1>3, <2>0 DEF GetEntry, CreateEntry, CloseDel, CloseEnd
  <2>6. nonblock' \in [Numbers -> BOOLEAN]
    BY <2>5
  <2> QED BY <2>1, <2>3, <2>4, <2>6
<1>4. ASSUME NEW n \in Numbers, m_datas[n] # NoEntry
      PROVE  /\ [m_datas EXCEPT ![n].isClosed = TRUE] \in [Numbers -> FdCtxs \cup {NoEntry}]
             /\ \A nb \in BOOLEAN :
                   [m_datas EXCEPT ![n].userNonblock = nb] \in [Numbers -> FdCtxs \cup {NoEntry}]
             /\ \A ms \in Timeouts :
                   [m_datas EXCEPT ![n].timeout = ms] \in [Numbers -> FdCtxs \cup {NoEntry}]
  <2>1. m_datas[n] \in FdCtxs
    BY <1>4
  <2>2. /\ [m_datas[n] EXCEPT !.isClosed = TRUE] \in FdCtxs
        /\ \A nb \in BOOLEAN : [m_datas[n] EXCEPT !.userNonblock = nb] \in FdCtxs
        /\ \A ms \in Timeouts : [m_datas[n] EXCEPT !.timeout = ms] \in FdCtxs
    BY <2>1 DEF FdCtxs
  <2> QED BY <2>2
<1>5. ASSUME NEW t \in Callers, NEW n \in Numbers, ClosePlain(t, n)
      PROVE  FdTyped'
  BY <1>5 DEF ClosePlain
<1>6. ASSUME NEW t \in Callers, NEW n \in Numbers, CloseBegin(t, n)
      PROVE  FdTyped'
  <2>1. call' \in [Callers -> [at : FdSteps, fd : Numbers \cup {0}]]
    BY <1>0, <1>6 DEF CloseBegin, FdSteps
  <2>2. m_datas' \in [Numbers -> FdCtxs \cup {NoEntry}]
    BY <1>4, <1>6 DEF CloseBegin
  <2> QED BY <1>6, <2>1, <2>2 DEF CloseBegin
<1>7. ASSUME NEW t \in Callers, NEW n \in Numbers, NEW nb \in BOOLEAN,
             FcntlSetFl(t, n, nb) \/ IoctlFionbio(t, n, nb)
      PROVE  FdTyped'
  <2>1. UNCHANGED <<openFile, files, call>> /\ wanted' = [wanted EXCEPT ![n] = nb]
    BY <1>7 DEF FcntlSetFl, IoctlFionbio
  <2>2. m_datas' \in [Numbers -> FdCtxs \cup {NoEntry}]
    <3>1. m_datas' = m_datas \/ (m_datas[n] # NoEntry /\ m_datas' = [m_datas EXCEPT ![n].userNonblock = nb])
      BY <1>7 DEF FcntlSetFl, IoctlFionbio, Followed
    <3>2. m_datas[n] # NoEntry => [m_datas EXCEPT ![n].userNonblock = nb] \in [Numbers -> FdCtxs \cup {NoEntry}]
      BY <1>4
    <3>3. m_datas \in [Numbers -> FdCtxs \cup {NoEntry}]
      OBVIOUS
    <3> HIDE DEF FdTyped
    <3> QED BY <3>1, <3>2, <3>3
  <2>3. bypassed' \subseteq Numbers
    BY <1>7 DEF FcntlSetFl, IoctlFionbio
  <2>4. nonblock' \in [Numbers -> BOOLEAN]
    <3>1. m_datas[n] # NoEntry => m_datas[n].sysNonblock \in BOOLEAN
      BY DEF FdCtxs
    <3> QED BY <1>7, <3>1 DEF FcntlSetFl, IoctlFionbio, Followed
  <2> QED BY <2>1, <2>2, <2>3, <2>4
<1>8. ASSUME NEW t \in Callers, NEW n \in Numbers, NEW ms \in Timeouts, SetTimeout(t, n, ms)
      PROVE  FdTyped'
  <2>1. m_datas' \in [Numbers -> FdCtxs \cup {NoEntry}]
    BY <1>4, <1>8 DEF SetTimeout
  <2> QED BY <1>8, <2>1 DEF SetTimeout
<1> QED BY <1>1, <1>2, <1>3, <1>5, <1>6, <1>7, <1>8 DEF FdNext

\* A number is given to a new call only when no thread is inside another one on it.
LEMMA CallsKept ==
    ASSUME FdTyped, Calls, [FdNext]_fdVars
    PROVE  Calls'
<1> USE DEF Calls, Busy, kernelVars
<1>0. /\ openFile \in [Numbers -> Nat] /\ files \in Nat /\ m_datas \in [Numbers -> FdCtxs \cup {NoEntry}]
      /\ call \in [Callers -> [at : FdSteps, fd : Numbers \cup {0}]]
      /\ None.at = "none"
  BY DEF FdTyped, None
<1>1. ASSUME UNCHANGED <<openFile, call>>, \A n \in Numbers : m_datas[n] = NoEntry => m_datas'[n] = NoEntry
      PROVE  Calls'
  BY <1>1
<1>2. CASE UNCHANGED fdVars
  BY <1>1, <1>2 DEF fdVars
<1>3. ASSUME NEW t \in Callers, NEW n \in Numbers, NEW nb \in BOOLEAN,
             FcntlSetFl(t, n, nb) \/ IoctlFionbio(t, n, nb)
      PROVE  Calls'
  BY <1>0, <1>1, <1>3 DEF FcntlSetFl, IoctlFionbio, Followed
<1>4. ASSUME NEW t \in Callers, NEW n \in Numbers, NEW ms \in Timeouts, SetTimeout(t, n, ms)
      PROVE  Calls'
  BY <1>0, <1>1, <1>4 DEF SetTimeout
<1>5. ASSUME NEW t \in Callers, NEW n \in Numbers, Socket(t, n) \/ Accept(t, n)
      PROVE  Calls'
  <2>1. PICK at \in {"none", "get"} : Opened(t, n, at)
    BY <1>5 DEF Socket, Accept
  <2>2. /\ openFile[n] = 0 /\ openFile' = [openFile EXCEPT ![n] = files + 1] /\ m_datas' = m_datas
        /\ call' = [call EXCEPT ![t] = None] \/ call' = [call EXCEPT ![t] = [at |-> "get", fd |-> n]]
    BY <2>1 DEF Opened, Step, Return
  <2>3. \A u \in Callers : ~Busy(u, n)
    BY <2>2
  <2>4. openFile'[n] # 0 /\ \A i \in Numbers \ {n} : openFile'[i] = openFile[i]
    BY <1>0, <2>2
  <2>5. \A u \in Callers \ {t} : call'[u] = call[u]
    BY <1>0, <2>2
  <2>6. call'[t] = None \/ call'[t] = [at |-> "get", fd |-> n]
    BY <1>0, <2>2
  <2> QED BY <1>0, <2>2, <2>3, <2>4, <2>5, <2>6
<1>6. ASSUME NEW t \in Callers, GetEntry(t) \/ CreateEntry(t) \/ CloseDel(t) \/ CloseEnd(t)
      PROVE  Calls'
  <2>0. PICK n \in Numbers : n = call[t].fd /\ Busy(t, n)
    BY <1>6 DEF GetEntry, CreateEntry, CloseDel, CloseEnd, InCall
  <2>1. \A u \in Callers \ {t} : ~Busy(u, n) /\ call'[u] = call[u]
    BY <1>0, <1>6, <2>0 DEF GetEntry, CreateEntry, CloseDel, CloseEnd, Step, Return
  <2>2. \/ call'[t] = None
        \/ call'[t] = [at |-> "create", fd |-> n] /\ openFile' = openFile
        \/ call'[t] = [at |-> "close", fd |-> n] /\ openFile' = openFile /\ m_datas'[n] = NoEntry
    BY <1>0, <1>6, <2>0 DEF GetEntry, CreateEntry, CloseDel, CloseEnd, Step, Return
  <2>3. \A i \in Numbers \ {n} : openFile'[i] = openFile[i] /\ m_datas'[i] = m_datas[i]
    BY <1>0, <1>6, <2>0 DEF GetEntry, CreateEntry, CloseDel, CloseEnd
  <2> QED BY <1>0, <2>0, <2>1, <2>2, <2>3
<1>7. ASSUME NEW t \in Callers, NEW n \in Numbers, ClosePlain(t, n)
      PROVE  Calls'
  <2>1. /\ openFile' = [openFile EXCEPT ![n] = 0] /\ UNCHANGED <<m_datas, call>>
        /\ \A u \in Callers : ~Busy(u, n)
    BY <1>0, <1>7 DEF ClosePlain, Usable, Settled
  <2> QED BY <1>0, <2>1
<1>8. ASSUME NEW t \in Callers, NEW n \in Numbers, CloseBegin(t, n)
      PROVE  Calls'
  <2>1. /\ openFile' = openFile /\ openFile[n] # 0
        /\ \A u \in Callers : ~Busy(u, n)
        /\ \A u \in Callers \ {t} : call'[u] = call[u]
    BY <1>0, <1>8 DEF CloseBegin, Usable, Settled, Step
  <2>2. \/ call'[t] = [at |-> "del", fd |-> n]
        \/ call'[t] = [at |-> "close", fd |-> n] /\ m_datas'[n] = NoEntry
    BY <1>0, <1>8 DEF CloseBegin, Step
  <2>3. \A i \in Numbers \ {n} : m_datas'[i] = m_datas[i]
    BY <1>0, <1>8 DEF CloseBegin
  <2> QED BY <1>0, <2>1, <2>2, <2>3
<1> QED BY <1>2, <1>3, <1>4, <1>5, <1>6, <1>7, <1>8 DEF FdNext

\* What a call on another number leaves alone.
LEMMA Untouched ==
    ASSUME NEW n \in Numbers, NumberKept(n),
           m_datas'[n] = m_datas[n], openFile'[n] = openFile[n],
           nonblock'[n] = nonblock[n], wanted'[n] = wanted[n],
           n \in bypassed => n \in bypassed',
           \A t \in Callers : call'[t] = call[t] \/ (~Busy(t, n) /\ ~Busy(t, n)'),
           \A t \in Callers : call[t].at = "none" => call[t] = None,
           \A t \in Callers : call'[t].at = "none" => call'[t] = None
    PROVE  NumberKept(n)'
<1>1. Settled(n)' => Settled(n)
  BY DEF Settled, Busy, None
<1>2. \A t \in Callers : Entering(t)' /\ call'[t].fd = n => Entering(t) /\ call[t].fd = n
  BY DEF Entering, Busy
<1>3. FcntlGetFl(n)' = FcntlGetFl(n)
  BY DEF FcntlGetFl, Followed
<1> QED BY <1>1, <1>2, <1>3 DEF NumberKept

\* Opening and entering a file.
LEMMA EnterKept ==
    ASSUME FdTableInv, [FdNext]_fdVars, Calls', FdTyped', NEW t \in Callers, NEW n \in Numbers,
           Socket(t, n) \/ Accept(t, n) \/ (call[t].fd = n /\ (GetEntry(t) \/ CreateEntry(t)))
    PROVE  \A i \in Numbers : NumberKept(i)'
<1> USE DEF kernelVars
<1>0. /\ FdTyped /\ Calls /\ \A i \in Numbers : NumberKept(i)
      /\ call \in [Callers -> [at : FdSteps, fd : Numbers \cup {0}]]
      /\ m_datas \in [Numbers -> FdCtxs \cup {NoEntry}]
      /\ openFile \in [Numbers -> Nat] /\ files \in Nat
      /\ nonblock \in [Numbers -> BOOLEAN] /\ wanted \in [Numbers -> BOOLEAN]
  BY DEF FdTableInv, FdTyped
<1>1. ASSUME NEW i \in Numbers, i # n
      PROVE  NumberKept(i)'
  <2>1. /\ m_datas'[i] = m_datas[i] /\ openFile'[i] = openFile[i] /\ nonblock'[i] = nonblock[i]
        /\ wanted'[i] = wanted[i] /\ bypassed' = bypassed
    BY <1>0, <1>1 DEF Socket, Accept, Opened, GetEntry, CreateEntry
  <2>2. \A u \in Callers : call'[u] = call[u] \/ (~Busy(u, i) /\ ~Busy(u, i)')
    BY <1>0, <1>1 DEF Socket, Accept, Opened, GetEntry, CreateEntry, Step, Return, Busy, None
  <2> QED BY <1>0, <2>1, <2>2, Untouched DEF Calls
<1>2. CASE Socket(t, n) \/ Accept(t, n)
  <2>1. PICK at \in {"none", "get"} : Opened(t, n, at)
    BY <1>2 DEF Socket, Accept
  <2>2. /\ openFile[n] = 0 /\ openFile'[n] = files + 1 /\ nonblock'[n] = FALSE /\ wanted'[n] = FALSE
        /\ UNCHANGED <<m_datas, bypassed>>
    BY <1>0, <2>1 DEF Opened
  <2>3. n \notin bypassed => m_datas'[n] = NoEntry
    BY <1>0, <2>2 DEF NumberKept
  <2>4. NumberKept(n)'
    BY <1>0, <2>2, <2>3 DEF NumberKept, FcntlGetFl, Followed
  <2> QED BY <1>1, <2>4
<1>3. CASE call[t].fd = n /\ GetEntry(t)
  <2>1. /\ call[t].at = "get" /\ Entering(t) /\ UNCHANGED <<openFile, nonblock, m_datas, wanted, bypassed>>
        /\ \A u \in Callers \ {t} : call'[u] = call[u]
    BY <1>0, <1>3 DEF GetEntry, InCall, Step, Return, Entering
  <2>2. CASE m_datas[n] # NoEntry
    <3>1. n \in bypassed /\ m_datas[n].sysNonblock = TRUE
      BY <1>0, <1>3, <2>1, <2>2 DEF NumberKept
    <3>2. NumberKept(n)'
      BY <2>1, <3>1 DEF NumberKept
    <3> QED BY <1>1, <3>2
  <2>3. CASE m_datas[n] = NoEntry
    <3>1. call'[t] = [at |-> "create", fd |-> n]
      BY <1>0, <1>3, <2>3 DEF GetEntry, Step
    <3>2. ~Settled(n)'
      BY <3>1 DEF Settled, None
    <3>3. m_datas[n] = NoEntry /\ (n \notin bypassed => nonblock[n] = FALSE /\ wanted[n] = FALSE)
      BY <1>0, <1>3, <2>1, <2>3 DEF NumberKept
    <3>4. NumberKept(n)'
      BY <2>1, <3>2, <3>3 DEF NumberKept
    <3> QED BY <1>1, <3>4
  <2> QED BY <1>1, <2>2, <2>3
<1>4. CASE call[t].fd = n /\ CreateEntry(t)
  <2>1. /\ call[t].at = "create" /\ Entering(t) /\ UNCHANGED <<openFile, wanted, bypassed>>
        /\ call'[t] = None /\ m_datas'[n] = NewFdCtx(n) /\ nonblock'[n] = TRUE
        /\ \A u \in Callers \ {t} : call'[u] = call[u]
    BY <1>0, <1>4 DEF CreateEntry, InCall, Return, Entering
  <2>2. \A u \in Callers : ~(Entering(u)' /\ call'[u].fd = n)
    BY <1>0, <1>4, <2>1 DEF Calls, Busy, Entering, None
  <2>3. openFile[n] # 0
    BY <1>0, <1>4, <2>1 DEF Calls
  <2>4. NewFdCtx(n) # NoEntry
    <3>1. NewFdCtx(n) \in FdCtxs
      BY <1>0 DEF NewFdCtx, FdCtxs
    <3> QED BY <3>1, FdTableAssumption
  <2>5. n \notin bypassed => wanted'[n] = FALSE
    BY <1>0, <1>4, <2>1 DEF NumberKept
  <2>6. FcntlGetFl(n)' = FALSE
    BY <2>1, <2>4 DEF FcntlGetFl, Followed, NewFdCtx
  <2>7. NumberKept(n)'
    <3>1. /\ m_datas'[n].made = openFile[n] /\ m_datas'[n].sysNonblock = TRUE
          /\ m_datas'[n].isClosed = FALSE
      BY <2>1 DEF NewFdCtx
    <3> QED BY <2>1, <2>2, <2>3, <2>5, <2>6, <3>1 DEF NumberKept
  <2> QED BY <1>1, <2>7
<1> QED BY <1>2, <1>3, <1>4

\* Closing a file.
LEMMA LeaveKept ==
    ASSUME FdTableInv, [FdNext]_fdVars, Calls', FdTyped', NEW t \in Callers, NEW n \in Numbers,
           \/ ClosePlain(t, n) \/ CloseBegin(t, n)
           \/ call[t].fd = n /\ (CloseDel(t) \/ CloseEnd(t))
    PROVE  \A i \in Numbers : NumberKept(i)'
<1> USE DEF kernelVars
<1>0. /\ FdTyped /\ Calls /\ \A i \in Numbers : NumberKept(i)
      /\ call \in [Callers -> [at : FdSteps, fd : Numbers \cup {0}]]
      /\ m_datas \in [Numbers -> FdCtxs \cup {NoEntry}]
      /\ openFile \in [Numbers -> Nat]
  BY DEF FdTableInv, FdTyped
<1>1. ASSUME NEW i \in Numbers, i # n
      PROVE  NumberKept(i)'
  <2>1. /\ m_datas'[i] = m_datas[i] /\ openFile'[i] = openFile[i] /\ nonblock'[i] = nonblock[i]
        /\ wanted'[i] = wanted[i] /\ (i \in bypassed => i \in bypassed')
    BY <1>0, <1>1 DEF ClosePlain, CloseBegin, CloseDel, CloseEnd
  <2>2. \A u \in Callers : call'[u] = call[u] \/ (~Busy(u, i) /\ ~Busy(u, i)')
    BY <1>0, <1>1 DEF ClosePlain, CloseBegin, CloseDel, CloseEnd, Step, Return, Busy, None
  <2> QED BY <1>0, <2>1, <2>2, Untouched DEF Calls
<1>2. CASE ClosePlain(t, n)
  <2>1. /\ openFile'[n] = 0 /\ UNCHANGED <<m_datas, nonblock, wanted, call>>
        /\ bypassed' = IF m_datas[n] # NoEntry THEN bypassed \cup {n} ELSE bypassed
        /\ \A u \in Callers : ~Busy(u, n)
    BY <1>0, <1>2 DEF ClosePlain, Usable, Settled, Busy, None
  <2>2. \A u \in Callers : ~(Entering(u)' /\ call'[u].fd = n)
    BY <2>1 DEF Entering, Busy
  <2>3. (m_datas[n] # NoEntry => m_datas[n].sysNonblock = TRUE) /\ (n \notin bypassed' => m_datas[n] = NoEntry)
    BY <1>0, <2>1 DEF NumberKept
  <2>4. NumberKept(n)'
    BY <2>1, <2>2, <2>3 DEF NumberKept
  <2> QED BY <1>1, <2>4
<1>3. CASE CloseBegin(t, n)
  <2>1. /\ UNCHANGED <<openFile, nonblock, wanted, bypassed>>
        /\ \A u \in Callers : ~Busy(u, n)
        /\ \A u \in Callers \ {t} : call'[u] = call[u]
        /\ call'[t].at \in {"del", "close"} /\ call'[t].fd = n
    BY <1>0, <1>3 DEF CloseBegin, Usable, Settled, Busy, None, Step
  <2>2. ~Settled(n)' /\ \A u \in Callers : ~(Entering(u)' /\ call'[u].fd = n)
    BY <2>1 DEF Settled, None, Entering, Busy
  <2>3. m_datas[n] = NoEntry => m_datas'[n] = NoEntry
    BY <1>3 DEF CloseBegin
  <2>4. m_datas[n] # NoEntry =>
           m_datas'[n].sysNonblock = m_datas[n].sysNonblock /\ m_datas'[n].made = m_datas[n].made
    <3>1. m_datas[n] # NoEntry => m_datas[n] \in FdCtxs /\ m_datas'[n] = [m_datas[n] EXCEPT !.isClosed = TRUE]
      BY <1>0, <1>3 DEF CloseBegin
    <3> QED BY <3>1 DEF FdCtxs
  <2>5. NumberKept(n)
    BY <1>0
  <2>6. NumberKept(n)'
    BY <2>1, <2>2, <2>3, <2>4, <2>5 DEF NumberKept
  <2> QED BY <1>1, <2>6
<1>4. CASE call[t].fd = n /\ CloseDel(t)
  <2>1. m_datas'[n] = NoEntry /\ call'[t] = [at |-> "close", fd |-> n] /\ Busy(t, n)
    BY <1>0, <1>4 DEF CloseDel, Step, Busy, InCall
  <2>2. \A u \in Callers \ {t} : call'[u] = call[u] /\ ~Busy(u, n)
    BY <1>0, <1>4, <2>1 DEF CloseDel, Step, Calls
  <2>3. ~Settled(n)' /\ \A u \in Callers : ~(Entering(u)' /\ call'[u].fd = n)
    BY <2>1, <2>2 DEF Settled, None, Entering, Busy
  <2>4. NumberKept(n)'
    BY <2>1, <2>3 DEF NumberKept
  <2> QED BY <1>1, <2>4
<1>5. CASE call[t].fd = n /\ CloseEnd(t)
  <2>1. /\ m_datas[n] = NoEntry /\ m_datas' = m_datas /\ openFile'[n] = 0
        /\ call'[t] = None /\ Busy(t, n)
    BY <1>0, <1>5 DEF CloseEnd, Return, Busy, InCall, Calls
  <2>2. \A u \in Callers \ {t} : call'[u] = call[u] /\ ~Busy(u, n)
    BY <1>0, <1>5, <2>1 DEF CloseEnd, Return, Calls
  <2>3. \A u \in Callers : ~(Entering(u)' /\ call'[u].fd = n)
    BY <2>1, <2>2 DEF None, Entering, Busy
  <2>4. NumberKept(n)'
    BY <2>1, <2>3 DEF NumberKept
  <2> QED BY <1>1, <2>4
<1> QED BY <1>2, <1>3, <1>4, <1>5

\* fcntl, ioctl and setsockopt.
LEMMA FlagsKept ==
    ASSUME FdTableInv, NEW t \in Callers, NEW n \in Numbers,
           \/ \E nb \in BOOLEAN : FcntlSetFl(t, n, nb) \/ IoctlFionbio(t, n, nb)
           \/ \E ms \in Timeouts : SetTimeout(t, n, ms)
    PROVE  \A i \in Numbers : NumberKept(i)'
<1> USE DEF kernelVars
<1>0. /\ FdTyped /\ Calls /\ \A i \in Numbers : NumberKept(i)
      /\ call \in [Callers -> [at : FdSteps, fd : Numbers \cup {0}]]
      /\ m_datas \in [Numbers -> FdCtxs \cup {NoEntry}]
      /\ nonblock \in [Numbers -> BOOLEAN] /\ wanted \in [Numbers -> BOOLEAN]
  BY DEF FdTableInv, FdTyped
<1>1. UNCHANGED <<openFile, call>> /\ bypassed \subseteq bypassed'
  BY DEF FcntlSetFl, IoctlFionbio, SetTimeout
<1>2. ASSUME NEW i \in Numbers, i # n
      PROVE  NumberKept(i)'
  <2>1. m_datas'[i] = m_datas[i] /\ nonblock'[i] = nonblock[i] /\ wanted'[i] = wanted[i]
    BY <1>0, <1>2 DEF FcntlSetFl, IoctlFionbio, SetTimeout
  <2> QED BY <1>0, <1>1, <2>1, Untouched DEF Calls
<1>3. /\ m_datas[n] = NoEntry => m_datas'[n] = NoEntry
      /\ m_datas[n] # NoEntry =>
            /\ m_datas'[n].sysNonblock = m_datas[n].sysNonblock /\ m_datas'[n].made = m_datas[n].made
            /\ m_datas'[n].isClosed = m_datas[n].isClosed
  <2>1. CASE m_datas[n] = NoEntry
    BY <2>1 DEF FcntlSetFl, IoctlFionbio, SetTimeout, Followed
  <2>2. CASE m_datas[n] # NoEntry
    <3>1. m_datas[n] \in FdCtxs
      BY <1>0, <2>2
    <3>2. \/ m_datas'[n] = m_datas[n]
          \/ \E nb : m_datas'[n] = [m_datas[n] EXCEPT !.userNonblock = nb]
          \/ \E ms : m_datas'[n] = [m_datas[n] EXCEPT !.timeout = ms]
      <4>1. CASE \E nb \in BOOLEAN : FcntlSetFl(t, n, nb)
        BY <1>0, <2>2, <4>1 DEF FcntlSetFl
      <4>2. CASE \E nb \in BOOLEAN : IoctlFionbio(t, n, nb)
        BY <1>0, <2>2, <4>2 DEF IoctlFionbio
      <4>3. CASE \E ms \in Timeouts : SetTimeout(t, n, ms)
        BY <1>0, <2>2, <4>3 DEF SetTimeout
      <4> QED BY <4>1, <4>2, <4>3
    <3>3. ASSUME NEW nb, m_datas'[n] = [m_datas[n] EXCEPT !.userNonblock = nb]
          PROVE  /\ m_datas'[n].sysNonblock = m_datas[n].sysNonblock
                 /\ m_datas'[n].made = m_datas[n].made /\ m_datas'[n].isClosed = m_datas[n].isClosed
      BY <3>1, <3>3 DEF FdCtxs
    <3>4. ASSUME NEW ms, m_datas'[n] = [m_datas[n] EXCEPT !.timeout = ms]
          PROVE  /\ m_datas'[n].sysNonblock = m_datas[n].sysNonblock
                 /\ m_datas'[n].made = m_datas[n].made /\ m_datas'[n].isClosed = m_datas[n].isClosed
      BY <3>1, <3>4 DEF FdCtxs
    <3> QED BY <2>2, <3>2, <3>3, <3>4
  <2> QED BY <2>1, <2>2
<1>4. Settled(n)' <=> Settled(n)
  BY <1>1 DEF Settled
<1>5. ASSUME NEW ms \in Timeouts, SetTimeout(t, n, ms)
      PROVE  NumberKept(n)'
  <2>1. UNCHANGED <<nonblock, wanted, bypassed>>
    BY <1>5 DEF SetTimeout
  <2>2. FcntlGetFl(n)' = FcntlGetFl(n)
    <3>1. m_datas[n] # NoEntry => m_datas[n] \in FdCtxs /\ m_datas'[n] = [m_datas[n] EXCEPT !.timeout = ms]
      BY <1>0, <1>5 DEF SetTimeout
    <3>2. m_datas[n] # NoEntry => m_datas'[n].userNonblock = m_datas[n].userNonblock /\ m_datas'[n] # NoEntry
      <4>1. m_datas[n] # NoEntry => m_datas'[n] \in FdCtxs
        BY <3>1 DEF FdCtxs
      <4> QED BY <3>1, <4>1, FdTableAssumption DEF FdCtxs
    <3> QED BY <1>3, <2>1, <3>2 DEF FcntlGetFl, Followed
  <2>3. NumberKept(n)
    BY <1>0
  <2>4. \A u \in Callers : Entering(u)' <=> Entering(u)
    BY <1>1 DEF Entering
  <2> QED BY <1>1, <1>3, <1>4, <2>1, <2>2, <2>3, <2>4 DEF NumberKept
<1>6. ASSUME NEW nb \in BOOLEAN, FcntlSetFl(t, n, nb) \/ IoctlFionbio(t, n, nb)
      PROVE  NumberKept(n)'
  <2>1. wanted'[n] = nb /\ \A u \in Callers : ~(Entering(u)' /\ call'[u].fd = n)
    BY <1>0, <1>1, <1>6 DEF FcntlSetFl, IoctlFionbio, Known, InCall, Entering
  <2>2. NumberKept(n) /\ (n \notin bypassed' => n \notin bypassed)
    BY <1>0, <1>1
  <2>3. CASE ~Settled(n)
    BY <1>1, <1>3, <1>4, <2>1, <2>2, <2>3 DEF NumberKept
  <2>4. CASE Settled(n) /\ m_datas[n] = NoEntry
    <3>1. nonblock'[n] = nb /\ m_datas'[n] = NoEntry
      BY <1>0, <1>3, <1>6, <2>4 DEF FcntlSetFl, IoctlFionbio, Followed
    <3>2. FcntlGetFl(n)' = nb
      BY <3>1 DEF FcntlGetFl, Followed
    <3> QED BY <2>1, <3>1, <3>2 DEF NumberKept
  <2>5. CASE Settled(n) /\ m_datas[n] # NoEntry /\ n \notin bypassed'
    <3>1. openFile[n] # 0
      BY <1>6 DEF FcntlSetFl, IoctlFionbio, Known
    <3>2. Followed(n) /\ m_datas[n].sysNonblock = TRUE
      BY <2>2, <2>5, <3>1 DEF NumberKept, Followed
    <3>3. m_datas[n] \in FdCtxs /\ m_datas'[n] = [m_datas[n] EXCEPT !.userNonblock = nb]
      BY <1>0, <1>6, <2>5, <3>2 DEF FcntlSetFl, IoctlFionbio
    <3>4. nonblock'[n] = TRUE
      BY <1>0, <1>6, <2>5, <3>2 DEF FcntlSetFl, IoctlFionbio
    <3>5. m_datas'[n].userNonblock = nb /\ m_datas'[n] # NoEntry
      <4>1. m_datas'[n] \in FdCtxs /\ m_datas'[n].userNonblock = nb
        BY <3>3 DEF FdCtxs
      <4> QED BY <4>1, FdTableAssumption
    <3>6. m_datas'[n].isClosed = FALSE
      BY <1>3, <2>2, <2>5, <3>1 DEF NumberKept
    <3>7. FcntlGetFl(n)' = nb
      BY <3>5, <3>6 DEF FcntlGetFl, Followed
    <3> QED BY <1>1, <1>3, <2>1, <2>2, <2>5, <3>4, <3>6, <3>7 DEF NumberKept
  <2>6. CASE m_datas[n] # NoEntry /\ n \in bypassed'
    BY <1>3, <2>2, <2>6 DEF NumberKept
  <2> QED BY <2>3, <2>4, <2>5, <2>6
<1> QED BY <1>2, <1>5, <1>6

\* The descriptor table's invariant.
THEOREM FdTableInvariant == FdSpec => []FdTableInv
<1>1. FdTableInv /\ [FdNext]_fdVars => FdTableInv'
  <2>1. SUFFICES ASSUME FdTableInv, [FdNext]_fdVars PROVE FdTableInv'
    OBVIOUS
  <2>2. FdTyped' /\ Calls'
    BY <2>1, FdTypesKept, CallsKept DEF FdTableInv
  <2>3. CASE UNCHANGED fdVars
    <3>1. \A i \in Numbers : NumberKept(i)'
      BY <2>1, <2>3, Untouched DEF FdTableInv, fdVars, kernelVars, Calls
    <3> QED BY <2>2, <3>1 DEF FdTableInv
  <2>4. ASSUME NEW t \in Callers, GetEntry(t) \/ CreateEntry(t) \/ CloseDel(t) \/ CloseEnd(t)
        PROVE  \A i \in Numbers : NumberKept(i)'
    <3>1. call[t].fd \in Numbers
      BY <2>1, <2>4 DEF FdTableInv, Calls, GetEntry, CreateEntry, CloseDel, CloseEnd, InCall
    <3> QED BY <2>1, <2>2, <2>4, <3>1, EnterKept, LeaveKept
  <2>5. CASE FdNext
    <3>1. \A i \in Numbers : NumberKept(i)'
      BY <2>1, <2>2, <2>4, <2>5, EnterKept, LeaveKept, FlagsKept DEF FdNext
    <3> QED BY <2>2, <3>1 DEF FdTableInv
  <2> QED BY <2>1, <2>3, <2>5
<1> QED BY <1>1, FdTableInit, PTL DEF FdSpec

\* An entry of the table is never one of an earlier file under its number, and get() never
\* overwrites one, unless a thread without the hook closed the number.
THEOREM EntriesOfOpenFiles == FdSpec => []EntryOfOpenFile
<1>1. FdTableInv => EntryOfOpenFile
  BY DEF FdTableInv, NumberKept, EntryOfOpenFile, Entering, InCall
<1> QED BY <1>1, FdTableInvariant, PTL

\* Outside the calls that change it, fcntl tells the program what it asked for, and a number
\* with an entry is non-blocking in the kernel.
THEOREM NonblockIsKept == FdSpec => []NonblockKept
<1>1. FdTableInv => NonblockKept
  BY DEF FdTableInv, NumberKept, NonblockKept
<1> QED BY <1>1, FdTableInvariant, PTL

-----------------------------------------------------------------------------
(* The server.                                                             *)

ServerTyped ==
    /\ m_isStop \in BOOLEAN /\ restarted \in BOOLEAN /\ aborted \in BOOLEAN
    /\ m_socks \subseteq Listeners /\ sock \in [Listeners -> {"new", "listening", "closed"}]
    /\ loop \in [LoopIds -> [at : {"none", "test", "accept", "try", "register", "wait", "ended"},
                             on : Listeners]]
    /\ stopJobs \in Nat
    /\ job \in [at : {"none", "wake", "close"}, todo : SUBSET Listeners, on : Listeners]

\* a bound socket listens, unless the job of stop() has closed it
SocketsOpen ==
    /\ \A l \in m_socks : sock[l] # "new"
    /\ job = NoJob => \A l \in m_socks : sock[l] = "listening"
    /\ job # NoJob => /\ job.at \in {"wake", "close"}
                      /\ \A l \in m_socks : IF l \in job.todo THEN sock[l] = "listening" ELSE sock[l] = "closed"

\* a loop's socket was bound, and is still the server's unless it is closed or was dropped
LoopSockets ==
    \A i \in LoopIds : Living(i) =>
       /\ sock[On(i)] # "new"
       /\ On(i) \in m_socks \/ On(i) \in dropped \/ sock[On(i)] = "closed"

\* whoever waits on a socket about to be closed has slipped in after the wake-up
WaitsOpen ==
    \A i \in LoopIds \ slipped : LoopAt(i, "wait") =>
       /\ sock[On(i)] = "listening"
       /\ job.at = "close" => On(i) # job.on

\* as long as start() waits for the last stop()
InTurn ==
    ~restarted =>
       /\ ~aborted
       /\ \A i, k \in LoopIds : Living(i) /\ Living(k) /\ On(i) = On(k) => i = k
       /\ ~m_isStop => stopJobs = 0 /\ job = NoJob
       /\ \A i \in LoopIds : Living(i) /\ ~m_isStop => sock[On(i)] = "listening"
       /\ m_isStop /\ stopJobs = 0 /\ job = NoJob => \A i \in LoopIds : Living(i) => On(i) \notin m_socks

ServerInv == ServerTyped /\ SocketsOpen /\ LoopSockets /\ WaitsOpen /\ InTurn

\* The record of a job that is not there.
LEMMA NoJobRecord ==
    /\ NoJob \in [at : {"none", "wake", "close"}, todo : SUBSET Listeners, on : Listeners]
    /\ NoJob.at = "none"
BY ServerAssumption DEF NoJob

\* Nothing is bound and no loop runs.
LEMMA ServerStart == ServerInit => ServerInv
<1> SUFFICES ASSUME ServerInit PROVE ServerInv
  OBVIOUS
<1> USE DEF ServerInit
<1>1. ServerTyped
  <2>1. (CHOOSE l \in Listeners : TRUE) \in Listeners
    BY ServerAssumption
  <2>2. loop \in [LoopIds -> [at : {"none", "test", "accept", "try", "register", "wait", "ended"},
                              on : Listeners]]
    BY <2>1
  <2> QED BY <2>2, NoJobRecord DEF ServerTyped
<1>2. \A i \in LoopIds : ~Living(i) /\ ~LoopAt(i, "wait")
  BY DEF Living, LoopAt
<1>3. SocketsOpen /\ LoopSockets /\ WaitsOpen /\ InTurn
  BY <1>2 DEF SocketsOpen, LoopSockets, WaitsOpen, InTurn
<1> QED BY <1>1, <1>3 DEF ServerInv

LoopSteps(i) == LoopTest(i) \/ LoopAccept(i) \/ LoopTry(i) \/ LoopRegister(i) \/ LoopWoken(i)

\* What a step of an accept loop may do: it closes a socket nobody else has, when the server is
\* stopped; it comes to wait only on a socket that is not closed; and addEvent's assertion
\* fails only when another loop is on the socket.
LEMMA LoopEffect ==
    ASSUME ServerTyped, NEW i \in LoopIds, LoopSteps(i)
    PROVE  /\ UNCHANGED <<m_isStop, m_socks, stopJobs, job, dropped, restarted>>
           /\ slipped \subseteq slipped'
           /\ loop' \in [LoopIds -> [at : {"none", "test", "accept", "try", "register", "wait", "ended"},
                                     on : Listeners]]
           /\ \A k \in LoopIds \ {i} : loop'[k] = loop[k]
           /\ Living(i) /\ On(i)' = On(i)
           /\ \/ sock' = sock
              \/ /\ m_isStop /\ On(i) \notin m_socks /\ ~Living(i)'
                 /\ sock' = [sock EXCEPT ![On(i)] = "closed"]
                 /\ \A k \in LoopIds \ {i} : Living(k) => On(k) # On(i)
           /\ LoopAt(i, "wait")' => /\ sock[On(i)] # "closed" /\ sock' = sock
                                    /\ job.at = "close" /\ job.on = On(i) => i \in slipped'
           /\ aborted' \in BOOLEAN
           /\ aborted' => aborted \/ \E k \in LoopIds \ {i} : Living(k) /\ On(k) = On(i)
<1> USE DEF ServerTyped, loopOnly
<1>1. /\ UNCHANGED <<m_isStop, m_socks, stopJobs, job, dropped, restarted>>
      /\ slipped \subseteq slipped'
  BY DEF LoopSteps, LoopTest, LoopAccept, LoopTry, LoopRegister, LoopWoken
<1>2. \E at \in {"test", "accept", "try", "register", "wait", "ended"} : loop' = [loop EXCEPT ![i].at = at]
  BY DEF LoopSteps, LoopTest, LoopAccept, LoopTry, LoopRegister, LoopWoken, Move
<1>3. PICK at \in {"test", "accept", "try", "register", "wait", "ended"} : loop' = [loop EXCEPT ![i].at = at]
  BY <1>2
<1>4. loop[i] \in [at : {"none", "test", "accept", "try", "register", "wait", "ended"}, on : Listeners]
  OBVIOUS
<1>5. loop'[i] = [at |-> at, on |-> loop[i].on] /\ \A k \in LoopIds \ {i} : loop'[k] = loop[k]
  BY <1>3, <1>4
<1>6. loop' \in [LoopIds -> [at : {"none", "test", "accept", "try", "register", "wait", "ended"},
                             on : Listeners]]
  <2>1. [loop[i] EXCEPT !.at = at]
           \in [at : {"none", "test", "accept", "try", "register", "wait", "ended"}, on : Listeners]
    BY <1>4
  <2> QED BY <1>3, <2>1
<1>7. Living(i) /\ On(i)' = On(i)
  BY <1>5 DEF Living, On, LoopSteps, LoopTest, LoopAccept, LoopTry, LoopRegister, LoopWoken, LoopAt
<1>8. \/ sock' = sock
      \/ /\ m_isStop /\ On(i) \notin m_socks /\ ~Living(i)'
         /\ sock' = [sock EXCEPT ![On(i)] = "closed"]
         /\ \A k \in LoopIds \ {i} : Living(k) => On(k) # On(i)
  <2>1. CASE LoopTest(i)
    <3>1. CASE m_isStop /\ On(i) \notin m_socks /\ LoopsOn(On(i)) = {i}
      <4>1. loop' = [loop EXCEPT ![i].at = "ended"] /\ sock' = [sock EXCEPT ![On(i)] = "closed"]
        BY <2>1, <3>1 DEF LoopTest, Move
      <4>2. ~Living(i)'
        BY <1>4, <4>1 DEF Living
      <4>3. \A k \in LoopIds \ {i} : Living(k) => On(k) # On(i)
        BY <3>1 DEF LoopsOn
      <4> QED BY <3>1, <4>1, <4>2, <4>3
    <3>2. CASE ~(m_isStop /\ On(i) \notin m_socks /\ LoopsOn(On(i)) = {i})
      BY <2>1, <3>2 DEF LoopTest
    <3> QED BY <3>1, <3>2
  <2>2. CASE ~LoopTest(i)
    BY <2>2 DEF LoopSteps, LoopAccept, LoopTry, LoopRegister, LoopWoken
  <2> QED BY <2>1, <2>2
<1>9. LoopAt(i, "wait")' => LoopRegister(i) /\ sock[On(i)] # "closed"
  <2>1. LoopAt(i, "wait")' => at = "wait"
    BY <1>5 DEF LoopAt
  <2>2. ASSUME NEW other, loop' = [loop EXCEPT ![i].at = other]
        PROVE  other = at
    BY <1>4, <1>5, <2>2
  <2> QED BY <2>1, <2>2 DEF LoopSteps, LoopTest, LoopAccept, LoopTry, LoopRegister, LoopWoken, Move
<1>10. LoopAt(i, "wait")' => /\ sock[On(i)] # "closed" /\ sock' = sock
                             /\ job.at = "close" /\ job.on = On(i) => i \in slipped'
  BY <1>9 DEF LoopRegister
<1>11. aborted' \in BOOLEAN /\ (aborted' => aborted \/ \E k \in LoopIds \ {i} : Living(k) /\ On(k) = On(i))
  <2>1. CASE LoopRegister(i)
    BY <2>1 DEF LoopRegister, LoopAt, Living
  <2>2. CASE ~LoopRegister(i)
    BY <2>2 DEF LoopSteps, LoopTest, LoopAccept, LoopTry, LoopWoken
  <2> QED BY <2>1, <2>2
<1> QED BY <1>1, <1>5, <1>6, <1>7, <1>8, <1>10, <1>11

\* the fibers in new start, fiber i on socket f[i], each on its own
StartsOn(new, f) ==
    /\ new \subseteq LoopIds /\ f \in [new -> m_socks]
    /\ \A i \in new : LoopAt(i, "none")
    /\ \A i, k \in new : f[i] = f[k] => i = k
    /\ loop' = [i \in LoopIds |-> IF i \in new THEN [at |-> "test", on |-> f[i]] ELSE loop[i]]

\* start() gives each socket one loop: as many loops as sockets, and none left out.
LEMMA StartEffect ==
    ASSUME StartServer
    PROVE  \E new, f : StartsOn(new, f)
<1>1. PICK new \in SUBSET {i \in LoopIds : LoopAt(i, "none")} : \E f \in [new -> m_socks] :
         /\ {f[i] : i \in new} = m_socks /\ Cardinality(new) = Cardinality(m_socks)
         /\ loop' = [i \in LoopIds |-> IF i \in new THEN [at |-> "test", on |-> f[i]] ELSE loop[i]]
  BY DEF StartServer
<1>2. PICK f \in [new -> m_socks] :
         /\ {f[i] : i \in new} = m_socks /\ Cardinality(new) = Cardinality(m_socks)
         /\ loop' = [i \in LoopIds |-> IF i \in new THEN [at |-> "test", on |-> f[i]] ELSE loop[i]]
  BY <1>1
<1>3. IsFiniteSet(new)
  BY ServerAssumption, FS_Subset
<1>4. \A l \in m_socks : \E i \in new : f[i] = l
  BY <1>2
<1>5. f \in Surjection(new, m_socks)
  BY <1>4 DEF Surjection
<1>6. f \in Injection(new, m_socks)
  BY <1>2, <1>3, <1>5, FS_Surjection
<1>7. \A i, k \in new : f[i] = f[k] => i = k
  BY <1>6 DEF Injection, IsInjective
<1> QED BY <1>2, <1>7 DEF StartsOn

\* Every variable stays in its type.
LEMMA ServerTypesKept ==
    ASSUME ServerTyped, [ServerNext]_serverVars
    PROVE  ServerTyped'
<1> USE NoJobRecord DEF ServerTyped
<1>1. CASE UNCHANGED serverVars
  BY <1>1 DEF serverVars
<1>2. ASSUME NEW addrs \in SUBSET Listeners, NEW failed \in SUBSET addrs, Bind(addrs, failed)
      PROVE  ServerTyped'
  <2>1. m_socks' \subseteq Listeners
    BY <1>2 DEF Bind
  <2>2. sock' \in [Listeners -> {"new", "listening", "closed"}]
    BY <1>2 DEF Bind
  <2> QED BY <1>2, <2>1, <2>2 DEF Bind
<1>3. CASE StartServer
  <2>1. PICK new, f : StartsOn(new, f)
    BY <1>3, StartEffect
  <2>2. \A i \in new : f[i] \in Listeners
    BY <2>1 DEF StartsOn
  <2>3. loop' \in [LoopIds -> [at : {"none", "test", "accept", "try", "register", "wait", "ended"},
                               on : Listeners]]
    BY <2>1, <2>2 DEF StartsOn
  <2>4. restarted' \in BOOLEAN
    BY <1>3 DEF StartServer
  <2> QED BY <1>3, <2>3, <2>4 DEF StartServer
<1>4. CASE StopServer
  BY <1>4 DEF StopServer
<1>5. CASE StopBegins
  <2>1. stopJobs' \in Nat
    BY <1>5 DEF StopBegins
  <2>2. job' \in [at : {"none", "wake", "close"}, todo : SUBSET Listeners, on : Listeners]
    BY <1>5 DEF StopBegins
  <2> QED BY <1>5, <2>1, <2>2 DEF StopBegins
<1>6. ASSUME NEW l \in Listeners, StopWakes(l)
      PROVE  ServerTyped'
  <2>1. job' \in [at : {"none", "wake", "close"}, todo : SUBSET Listeners, on : Listeners]
    BY <1>6 DEF StopWakes
  <2>2. loop' \in [LoopIds -> [at : {"none", "test", "accept", "try", "register", "wait", "ended"},
                               on : Listeners]]
    BY <1>6 DEF StopWakes
  <2> QED BY <1>6, <2>1, <2>2 DEF StopWakes
<1>7. CASE StopCloses
  <2>1. job' \in [at : {"none", "wake", "close"}, todo : SUBSET Listeners, on : Listeners]
    BY <1>7 DEF StopCloses
  <2> QED BY <1>7, <2>1 DEF StopCloses
<1>8. CASE StopClears
  <2>1. sock' \in [Listeners -> {"new", "listening", "closed"}]
    BY <1>8 DEF StopClears
  <2> QED BY <1>8, <2>1 DEF StopClears
<1>9. ASSUME NEW l \in Listeners, ClientArrives(l)
      PROVE  ServerTyped'
  BY <1>9 DEF ClientArrives
<1>10. ASSUME NEW i \in LoopIds, LoopSteps(i)
       PROVE  ServerTyped'
  <2>1. sock' \in [Listeners -> {"new", "listening", "closed"}]
    BY <1>10, LoopEffect DEF On
  <2> QED BY <1>10, <2>1, LoopEffect
<1> QED BY <1>1, <1>2, <1>3, <1>4, <1>5, <1>6, <1>7, <1>8, <1>9, <1>10 DEF ServerNext, LoopSteps

\* A socket of the server listens until the job of stop() comes to it.
LEMMA SocketsKept ==
    ASSUME ServerTyped, SocketsOpen, [ServerNext]_serverVars
    PROVE  SocketsOpen'
<1> USE NoJobRecord DEF ServerTyped, SocketsOpen
<1>1. ASSUME UNCHANGED <<m_socks, job>>, \A l \in m_socks : sock'[l] = sock[l]
      PROVE  SocketsOpen'
  BY <1>1
<1>2. ASSUME NEW addrs \in SUBSET Listeners, NEW failed \in SUBSET addrs, Bind(addrs, failed)
      PROVE  SocketsOpen'
  <2>1. job = NoJob /\ job' = job
    BY <1>2 DEF Bind
  <2>2. CASE failed # {}
    BY <1>2, <2>1, <2>2 DEF Bind
  <2>3. CASE failed = {}
    <3>1. m_socks' = m_socks \cup addrs /\ \A l \in m_socks : sock[l] = "listening"
      BY <1>2, <2>1, <2>3 DEF Bind
    <3>2. \A l \in Listeners : sock'[l] = IF l \in addrs THEN "listening" ELSE sock[l]
      BY <1>2, <2>3 DEF Bind
    <3>3. \A l \in m_socks' : sock'[l] = "listening"
      BY <3>1, <3>2
    <3> QED BY <2>1, <3>3
  <2> QED BY <2>2, <2>3
<1>3. CASE StopBegins
  <2>1. job = NoJob /\ job' = [NoJob EXCEPT !.at = "wake", !.todo = m_socks] /\ UNCHANGED <<m_socks, sock>>
    BY <1>3 DEF StopBegins
  <2>2. job'.at = "wake" /\ job'.todo = m_socks /\ job' # NoJob
    BY <2>1
  <2> QED BY <2>1, <2>2
<1>4. ASSUME NEW l \in Listeners, StopWakes(l)
      PROVE  SocketsOpen'
  <2>1. /\ job # NoJob /\ job' = [job EXCEPT !.at = "close", !.on = l] /\ UNCHANGED <<m_socks, sock>>
    BY <1>4 DEF StopWakes
  <2>2. job'.at = "close" /\ job'.todo = job.todo /\ job' # NoJob
    BY <2>1
  <2> QED BY <2>1, <2>2
<1>5. CASE StopCloses
  <2>1. /\ job # NoJob /\ job' = [job EXCEPT !.at = "wake", !.todo = @ \ {job.on}] /\ m_socks' = m_socks
        /\ sock' = [sock EXCEPT ![job.on] = "closed"]
    BY <1>5 DEF StopCloses
  <2>2. job'.at = "wake" /\ job'.todo = job.todo \ {job.on} /\ job' # NoJob
    BY <2>1
  <2>3. \A l \in m_socks : IF l = job.on THEN sock'[l] = "closed" ELSE sock'[l] = sock[l]
    BY <2>1
  <2> QED BY <2>1, <2>2, <2>3
<1>6. CASE StopClears
  BY <1>6 DEF StopClears
<1>7. ASSUME NEW i \in LoopIds, LoopSteps(i)
      PROVE  SocketsOpen'
  BY <1>1, <1>7, LoopEffect
<1>8. CASE StartServer \/ StopServer \/ (\E l \in Listeners : ClientArrives(l)) \/ UNCHANGED serverVars
  BY <1>1, <1>8 DEF StartServer, StopServer, ClientArrives, serverVars
<1> QED BY <1>2, <1>3, <1>4, <1>5, <1>6, <1>7, <1>8 DEF ServerNext, LoopSteps

\* What bind() does to the socket of a loop that runs: nothing.
LEMMA BindSpares ==
    ASSUME ServerTyped, LoopSockets, NEW addrs \in SUBSET Listeners, NEW failed \in SUBSET addrs,
           Bind(addrs, failed), NEW i \in LoopIds, Living(i)
    PROVE  On(i) \in Listeners \ addrs /\ sock'[On(i)] = sock[On(i)]
<1>1. On(i) \in Listeners
  BY DEF ServerTyped, On
<1>2. On(i) \notin addrs
  BY DEF LoopSockets, Bind
<1>3. LoopsOn(On(i)) # {}
  BY DEF LoopsOn
<1> QED BY <1>1, <1>2, <1>3 DEF Bind

\* A loop's socket leaves m_socks only closed or dropped.
LEMMA LoopSocketsKept ==
    ASSUME ServerTyped, SocketsOpen, LoopSockets, [ServerNext]_serverVars
    PROVE  LoopSockets'
<1> USE NoJobRecord DEF LoopSockets
<1>1. ASSUME UNCHANGED <<loop, m_socks, sock>>, dropped \subseteq dropped'
      PROVE  LoopSockets'
  BY <1>1 DEF Living, On
<1>2. ASSUME NEW addrs \in SUBSET Listeners, NEW failed \in SUBSET addrs, Bind(addrs, failed)
      PROVE  LoopSockets'
  <2>1. loop' = loop
    BY <1>2 DEF Bind
  <2>2. SUFFICES ASSUME NEW i \in LoopIds, Living(i)
                 PROVE  /\ sock'[On(i)] # "new"
                        /\ On(i) \in m_socks' \/ On(i) \in dropped' \/ sock'[On(i)] = "closed"
    BY <2>1 DEF Living, On
  <2>3. sock'[On(i)] = sock[On(i)]
    BY <1>2, <2>2, BindSpares
  <2>4. On(i) \in m_socks => On(i) \in m_socks' \/ On(i) \in dropped'
    BY <1>2, <2>2 DEF Bind, LoopsOn
  <2>5. dropped \subseteq dropped'
    BY <1>2 DEF Bind
  <2> QED BY <2>2, <2>3, <2>4, <2>5
<1>3. CASE StartServer
  <2>1. PICK new, f : StartsOn(new, f)
    BY <1>3, StartEffect
  <2>2. ASSUME NEW i \in LoopIds, Living(i)'
        PROVE  \/ i \in new /\ On(i)' \in m_socks
               \/ i \notin new /\ Living(i) /\ On(i)' = On(i)
    BY <2>1, <2>2 DEF StartsOn, On, Living
  <2>3. UNCHANGED <<m_socks, sock, dropped>>
    BY <1>3 DEF StartServer
  <2> QED BY <2>2, <2>3 DEF SocketsOpen
<1>4. ASSUME NEW l \in Listeners, StopWakes(l)
      PROVE  LoopSockets'
  <2>1. \A i \in LoopIds : (Living(i)' => Living(i)) /\ On(i)' = On(i)
    BY <1>4 DEF StopWakes, ServerTyped, LoopAt, Living, On
  <2> QED BY <1>4, <2>1 DEF StopWakes
<1>5. CASE StopCloses
  <2>1. /\ UNCHANGED <<loop, m_socks, dropped>>
        /\ \A l \in Listeners : sock'[l] = sock[l] \/ sock'[l] = "closed"
    BY <1>5 DEF StopCloses, ServerTyped
  <2>2. \A i \in LoopIds : On(i) \in Listeners
    BY DEF ServerTyped, On
  <2> QED BY <2>1, <2>2 DEF Living, On
<1>6. CASE StopClears
  <2>1. UNCHANGED <<loop, dropped>> /\ \A l \in Listeners : sock'[l] = sock[l] \/ sock'[l] = "closed"
    BY <1>6 DEF StopClears, ServerTyped
  <2>2. \A l \in m_socks : sock[l] = "closed"
    BY <1>6 DEF StopClears, SocketsOpen
  <2>3. \A i \in LoopIds : On(i) \in Listeners
    BY DEF ServerTyped, On
  <2> QED BY <2>1, <2>2, <2>3 DEF Living, On
<1>7. ASSUME NEW i \in LoopIds, LoopSteps(i)
      PROVE  LoopSockets'
  <2>1. UNCHANGED <<m_socks, dropped>> /\ Living(i)
    BY <1>7, LoopEffect
  <2>2. \A k \in LoopIds : (Living(k)' => Living(k)) /\ On(k)' = On(k)
    BY <1>7, LoopEffect DEF Living, On
  <2>3. \A l \in Listeners : sock'[l] = sock[l] \/ sock'[l] = "closed"
    BY <1>7, LoopEffect DEF ServerTyped
  <2>4. \A k \in LoopIds : On(k) \in Listeners
    BY DEF ServerTyped, On
  <2> QED BY <2>1, <2>2, <2>3, <2>4
<1>8. CASE StopServer \/ StopBegins \/ (\E l \in Listeners : ClientArrives(l)) \/ UNCHANGED serverVars
  BY <1>1, <1>8 DEF StopServer, StopBegins, ClientArrives, serverVars
<1> QED BY <1>2, <1>3, <1>4, <1>5, <1>6, <1>7, <1>8 DEF ServerNext, LoopSteps

\* The job wakes who waits on a socket before it closes it.
LEMMA WaitsKept ==
    ASSUME ServerTyped, SocketsOpen, LoopSockets, WaitsOpen, [ServerNext]_serverVars
    PROVE  WaitsOpen'
<1> USE NoJobRecord DEF WaitsOpen
<1>0. \A i \in LoopIds : On(i) \in Listeners /\ (LoopAt(i, "wait") => Living(i))
  BY DEF ServerTyped, On, LoopAt, Living
<1>1. ASSUME UNCHANGED <<loop, sock>>, slipped \subseteq slipped',
             job'.at = "close" => job.at = "close" /\ job'.on = job.on
      PROVE  WaitsOpen'
  BY <1>1 DEF LoopAt, On
<1>2. ASSUME NEW addrs \in SUBSET Listeners, NEW failed \in SUBSET addrs, Bind(addrs, failed)
      PROVE  WaitsOpen'
  <2>1. UNCHANGED <<loop, slipped, job>>
    BY <1>2 DEF Bind
  <2>2. \A i \in LoopIds : LoopAt(i, "wait") => sock'[On(i)] = sock[On(i)]
    BY <1>0, <1>2, BindSpares
  <2> QED BY <2>1, <2>2 DEF LoopAt, On
<1>3. CASE StartServer
  <2>1. PICK new, f : StartsOn(new, f)
    BY <1>3, StartEffect
  <2>2. \A i \in LoopIds : LoopAt(i, "wait")' => LoopAt(i, "wait") /\ On(i)' = On(i)
    BY <2>1 DEF StartsOn, On, LoopAt
  <2>3. UNCHANGED <<slipped, sock, job>>
    BY <1>3 DEF StartServer
  <2> QED BY <2>2, <2>3
<1>4. ASSUME NEW l \in Listeners, StopWakes(l)
      PROVE  WaitsOpen'
  <2>1. \A i \in LoopIds : LoopAt(i, "wait")' => LoopAt(i, "wait") /\ On(i)' = On(i) /\ On(i) # l
    BY <1>4 DEF StopWakes, ServerTyped, LoopAt, On
  <2>2. job'.on = l /\ UNCHANGED <<slipped, sock>>
    BY <1>4 DEF StopWakes, ServerTyped
  <2> QED BY <2>1, <2>2
<1>5. CASE StopCloses
  <2>1. /\ UNCHANGED <<loop, slipped>> /\ job'.at = "wake" /\ job.at = "close"
        /\ \A l \in Listeners : l # job.on => sock'[l] = sock[l]
    BY <1>5 DEF StopCloses, ServerTyped
  <2> QED BY <1>0, <2>1 DEF LoopAt, On
<1>6. CASE StopClears
  <2>1. /\ UNCHANGED <<loop, slipped>> /\ job'.at = "none"
        /\ \A l \in Listeners : LoopsOn(l) # {} => sock'[l] = sock[l]
    BY <1>6 DEF StopClears, ServerTyped
  <2>2. \A i \in LoopIds : LoopAt(i, "wait") => LoopsOn(On(i)) # {}
    BY <1>0 DEF LoopsOn
  <2> QED BY <1>0, <2>1, <2>2 DEF LoopAt, On
<1>7. ASSUME NEW i \in LoopIds, LoopSteps(i)
      PROVE  WaitsOpen'
  <2>1. job' = job /\ slipped \subseteq slipped' /\ \A k \in LoopIds : On(k)' = On(k)
    BY <1>7, LoopEffect DEF On
  <2>2. ASSUME NEW k \in LoopIds \ {i}, LoopAt(k, "wait")'
        PROVE  LoopAt(k, "wait") /\ sock'[On(k)] = sock[On(k)]
    <3>1. LoopAt(k, "wait") /\ Living(k)
      BY <1>0, <1>7, <2>2, LoopEffect DEF LoopAt
    <3> QED BY <1>0, <1>7, <3>1, LoopEffect DEF ServerTyped
  <2>3. LoopAt(i, "wait")' /\ i \notin slipped' =>
           sock'[On(i)] = "listening" /\ (job.at = "close" => On(i) # job.on)
    <3>1. sock[On(i)] \in {"new", "listening", "closed"}
      BY <1>0 DEF ServerTyped
    <3> QED BY <1>7, <3>1, LoopEffect DEF LoopSockets
  <2> QED BY <2>1, <2>2, <2>3
<1>8. CASE StopServer \/ StopBegins \/ (\E l \in Listeners : ClientArrives(l)) \/ UNCHANGED serverVars
  <2>1. UNCHANGED <<loop, sock, slipped>>
    BY <1>8 DEF StopServer, StopBegins, ClientArrives, serverVars
  <2>2. job' = job \/ job'.at = "wake"
    BY <1>8 DEF StopServer, StopBegins, ClientArrives, serverVars, NoJob
  <2> QED BY <1>1, <2>1, <2>2
<1> QED BY <1>2, <1>3, <1>4, <1>5, <1>6, <1>7, <1>8 DEF ServerNext, LoopSteps

\* While the stops and starts take turns, a job of stop() runs only on a stopped server and no
\* loop outlives the clearing of m_socks on a socket that start() would serve again.
LEMMA InTurnKept ==
    ASSUME ServerTyped, SocketsOpen, LoopSockets, InTurn, [ServerNext]_serverVars
    PROVE  InTurn'
<1> USE NoJobRecord DEF InTurn
<1>1. ASSUME UNCHANGED <<m_isStop, m_socks, stopJobs, job, aborted, restarted>>,
             \A i \in LoopIds : (Living(i)' => Living(i)) /\ On(i)' = On(i),
             \A i \in LoopIds : Living(i)' => sock'[On(i)] = sock[On(i)]
      PROVE  InTurn'
  BY <1>1
\* the server is stopped before and after, and more of the stop is to come
<1>2. ASSUME UNCHANGED <<aborted, restarted>>, ~restarted => m_isStop', stopJobs' # 0 \/ job' # NoJob,
             \A i \in LoopIds : (Living(i)' => Living(i)) /\ On(i)' = On(i)
      PROVE  InTurn'
  BY <1>2
<1>3. ASSUME NEW addrs \in SUBSET Listeners, NEW failed \in SUBSET addrs, Bind(addrs, failed)
      PROVE  InTurn'
  <2>1. UNCHANGED <<m_isStop, loop, stopJobs, job, aborted, restarted>> /\ m_socks' \subseteq m_socks \cup addrs
    BY <1>3 DEF Bind
  <2>2. \A i \in LoopIds : Living(i) => On(i) \notin addrs /\ sock'[On(i)] = sock[On(i)]
    BY <1>3, BindSpares
  <2> QED BY <2>1, <2>2 DEF Living, On
<1>4. CASE StartServer
  <2>1. PICK new, f : StartsOn(new, f)
    BY <1>4, StartEffect
  <2>2. SUFFICES ASSUME ~restarted' PROVE InTurn'
    OBVIOUS
  <2>3. /\ ~m_isStop' /\ UNCHANGED <<m_socks, sock, stopJobs, job, aborted>>
        /\ ~restarted /\ ~(stopJobs > 0) /\ job = NoJob /\ \A i \in LoopIds : ~Living(i)
    BY <1>4, <2>2 DEF StartServer
  <2>4. stopJobs = 0
    BY <2>3 DEF ServerTyped
  <2>5. \A i \in LoopIds : Living(i)' => i \in new /\ On(i)' = f[i] /\ f[i] \in m_socks
    BY <2>1, <2>3 DEF StartsOn, Living, On
  <2>6. \A i \in LoopIds : Living(i)' => sock'[On(i)'] = "listening"
    BY <2>3, <2>5 DEF SocketsOpen
  <2>7. \A i, k \in LoopIds : Living(i)' /\ Living(k)' /\ On(i)' = On(k)' => i = k
    BY <2>1, <2>5 DEF StartsOn
  <2> QED BY <2>3, <2>4, <2>6, <2>7
<1>5. CASE StopServer
  <2>1. UNCHANGED <<aborted, restarted, loop>> /\ m_isStop' /\ stopJobs' = stopJobs + 1
    BY <1>5 DEF StopServer
  <2>2. stopJobs' # 0
    BY <2>1 DEF ServerTyped
  <2> QED BY <1>2, <2>1, <2>2 DEF Living, On
<1>6. CASE StopBegins
  <2>1. UNCHANGED <<m_isStop, aborted, restarted, loop>> /\ stopJobs > 0
    BY <1>6 DEF StopBegins
  <2>2. job' # NoJob
    BY <1>6 DEF StopBegins, NoJob
  <2>3. ~restarted => m_isStop'
    BY <2>1 DEF ServerTyped
  <2> QED BY <1>2, <2>1, <2>2, <2>3 DEF Living, On
<1>7. ASSUME NEW l \in Listeners, StopWakes(l)
      PROVE  InTurn'
  <2>1. UNCHANGED <<m_isStop, aborted, restarted>> /\ job # NoJob
    BY <1>7 DEF StopWakes
  <2>2. job'.at = "close"
    BY <1>7 DEF StopWakes, ServerTyped
  <2>3. \A i \in LoopIds : (Living(i)' => Living(i)) /\ On(i)' = On(i)
    BY <1>7 DEF StopWakes, ServerTyped, LoopAt, Living, On
  <2>4. job' # NoJob
    BY <2>2
  <2> QED BY <1>2, <2>1, <2>3, <2>4
<1>8. CASE StopCloses
  <2>1. UNCHANGED <<m_isStop, aborted, restarted, loop>> /\ job # NoJob
    BY <1>8 DEF StopCloses
  <2>2. job'.at = "wake"
    BY <1>8 DEF StopCloses, ServerTyped
  <2>3. job' # NoJob
    BY <2>2
  <2> QED BY <1>2, <2>1, <2>3 DEF Living, On
<1>9. CASE StopClears
  <2>1. UNCHANGED <<m_isStop, aborted, restarted, loop>> /\ job # NoJob /\ m_socks' = {}
    BY <1>9 DEF StopClears
  <2> QED BY <2>1 DEF Living, On
<1>10. ASSUME NEW i \in LoopIds, LoopSteps(i)
       PROVE  InTurn'
  <2>1. UNCHANGED <<m_isStop, m_socks, stopJobs, job, restarted>>
    BY <1>10, LoopEffect
  <2>2. \A k \in LoopIds : (Living(k)' => Living(k)) /\ On(k)' = On(k)
    BY <1>10, LoopEffect DEF Living, On
  <2>3. aborted' => aborted \/ \E k \in LoopIds \ {i} : Living(k) /\ On(k) = On(i)
    BY <1>10, LoopEffect
  <2>4. Living(i) /\ (~m_isStop => sock' = sock)
    BY <1>10, LoopEffect
  <2>5. ~restarted => ~aborted'
    BY <2>3, <2>4
  <2> QED BY <2>1, <2>2, <2>4, <2>5
<1>11. CASE (\E l \in Listeners : ClientArrives(l)) \/ UNCHANGED serverVars
  <2>1. UNCHANGED <<m_isStop, m_socks, stopJobs, job, aborted, restarted, loop, sock>>
    BY <1>11 DEF ClientArrives, serverVars
  <2> QED BY <1>1, <2>1 DEF Living, On
<1> QED BY <1>3, <1>4, <1>5, <1>6, <1>7, <1>8, <1>9, <1>10, <1>11 DEF ServerNext, LoopSteps

\* The invariant of TcpServer::bind(), start(), stop() and the accept loops.
THEOREM ServerInvariant == ServerSpec => []ServerInv
<1>1. ServerInv /\ [ServerNext]_serverVars => ServerInv'
  BY ServerTypesKept, SocketsKept, LoopSocketsKept, WaitsKept, InTurnKept DEF ServerInv
<1> QED BY ServerStart, <1>1, PTL DEF ServerSpec

\* No accept loop waits on a closed socket, and once the jobs of stop() have run none waits at
\* all: the wake-up reaches every loop that registered before it, and addEvent refuses after.
THEOREM StoppedServerEnds == ServerSpec => []StoppedLoopsEnd
<1>1. ServerInv => StoppedLoopsEnd
  <2> SUFFICES ASSUME ServerInv, NEW i \in LoopIds \ slipped, LoopAt(i, "wait")
               PROVE  /\ sock[On(i)] = "listening"
                      /\ (m_isStop /\ stopJobs = 0 /\ job = NoJob /\ ~restarted) => On(i) \in dropped
    BY DEF StoppedLoopsEnd
  <2>1. sock[On(i)] = "listening"
    BY DEF ServerInv, WaitsOpen
  <2>2. Living(i)
    BY DEF Living, LoopAt
  <2>3. On(i) \in m_socks \/ On(i) \in dropped
    BY <2>1, <2>2 DEF ServerInv, LoopSockets
  <2> QED BY <2>1, <2>2, <2>3 DEF ServerInv, InTurn
<1> QED BY <1>1, ServerInvariant, PTL

\* If start() waits until the last stop() is through, a socket has at most one accept loop,
\* addEvent's assertion holds and no loop spins on a closed socket.
THEOREM OneAcceptLoop == ServerSpec => []OneLoopPerSocket
<1>1. ServerInv => OneLoopPerSocket
  <2> SUFFICES ASSUME ServerInv, ~restarted, NEW l \in Listeners
               PROVE  Cardinality(LoopsOn(l)) <= 1
    BY DEF OneLoopPerSocket, ServerInv, InTurn
  <2>1. CASE LoopsOn(l) = {}
    <3>1. Cardinality(LoopsOn(l)) = 0
      BY <2>1, FS_EmptySet
    <3> QED BY <3>1
  <2>2. CASE LoopsOn(l) # {}
    <3>1. PICK i \in LoopIds : Living(i) /\ On(i) = l
      BY <2>2 DEF LoopsOn
    <3>2. LoopsOn(l) = {i}
      BY <3>1 DEF LoopsOn, ServerInv, InTurn
    <3>3. Cardinality(LoopsOn(l)) = 1
      BY <3>2, FS_Singleton
    <3> QED BY <3>3
  <2> QED BY <2>1, <2>2
<1> QED BY <1>1, ServerInvariant, PTL
-----------------------------------------------------------------------------
(* The loggers.                                                            *)

\* what a definition of the configuration can be, and what it can say
Casts == {Cast(node) : node \in UNION {LogTexts[n] : n \in LogNames}}
Kinds == {"stdout"} \cup {c.appenders[i].type : c \in Casts, i \in Nat}
LoggerPatterns == {c.formatter : c \in Casts}
AppenderPatterns == {c.appenders[i].formatter : c \in Casts, i \in Nat}
Patterns == {"", Defaults, "set"} \cup LoggerPatterns \cup AppenderPatterns
Levels == {INFO} \cup {c.level : c \in Casts}
Appenders ==
    [type : Kinds, m_hasFormatter : BOOLEAN, m_formatter : Patterns, m_reopenTime : Nat, open : BOOLEAN]
Loggers == [m_level : Levels, m_formatter : Patterns, m_appenders : Seq(Appenders)]
ReloadSteps == {"idle", "next", "format", "clear", "add"}

\* the types of Logging
LogTyped ==
    /\ logs \in [LogNames -> Casts \cup {NoDefine}] /\ logger \in [LogNames -> Loggers]
    /\ reload \in [at : ReloadSteps, name : LogNames, todo : SUBSET LogNames, gone : SUBSET LogNames,
                   old : [LogNames -> Casts \cup {NoDefine}]]
    /\ writer \in [Writers -> [at : {"idle", "lock", "write", "root"}, name : LogNames, level : Nat]]
    /\ time \in Nat /\ lines \in Seq(Nat) /\ file \in [LogNames -> SUBSET (1 .. Len(lines))]

\* an appender without a formatter of its own has its logger's
Follow(l) == \A i \in DOMAIN l.m_appenders :
    ~l.m_appenders[i].m_hasFormatter => l.m_appenders[i].m_formatter = l.m_formatter

FormatsFollow == \A n \in LogNames : Follow(logger[n])

\* the i-th appender of the logger l is the i-th of the definition d
Matches(l, d, i) ==
    LET own == d.appenders[i].formatter
    IN  /\ l.m_appenders[i].type = d.appenders[i].type
        /\ l.m_appenders[i].m_hasFormatter = (own \notin BadPatterns \cup {""})
        /\ l.m_appenders[i].m_hasFormatter => l.m_appenders[i].m_formatter = own

\* the logger l, named n, is as its definition d says
AsDefined(n, l, d) ==
    IF d = NoDefine
       THEN l.m_appenders = <<>> \/ (n = "root" /\ \A i \in DOMAIN l.m_appenders : ~IsFile(l.m_appenders[i]))
       ELSE /\ l.m_level = d.level
            /\ Len(l.m_appenders) = Len(d.appenders)
            /\ \A i \in DOMAIN l.m_appenders : Matches(l, d, i)

\* how far the listener has come
Reloading ==
    LET r == reload.name
        left == reload.todo \cup reload.gone
    IN  /\ \A n \in LogNames \ left : AsDefined(n, logger[n], logs[n]) \/ (n = r /\ reload.at \notin {"idle", "next"})
        /\ reload.at = "idle" => left = {}
        /\ \A n \in reload.todo : logs[n] # NoDefine
        /\ \A n \in reload.gone : logs[n] = NoDefine
        /\ reload.at \in {"format", "clear", "add"} =>
              r \notin left /\ logs[r] # NoDefine /\ logger[r].m_level = logs[r].level
        /\ reload.at = "add" => \A i \in DOMAIN logger[r].m_appenders : Matches(logger[r], logs[r], i)

\* only a logger's first file appender is ever opened, and an open one was reopened in the
\* second of whatever line its file has of this second
FilesFresh ==
    /\ \A i \in 1 .. Len(lines) : lines[i] <= time
    /\ \A n \in LogNames : \A k \in DOMAIN logger[n].m_appenders :
          LET as == logger[n].m_appenders IN as[k].open =>
             /\ IsFile(as[k]) /\ \A j \in 1 .. k - 1 : ~IsFile(as[j])
             /\ \A i \in file[n] : lines[i] = time => as[k].m_reopenTime = time

LogInv == LogTyped /\ FormatsFollow /\ (died = "no" => Reloading) /\ FilesFresh

\* The file appender that writes is the first there is.
LEMMA FirstFileIs ==
    ASSUME NEW s \in Seq(Appenders)
    PROVE  \/ FirstFile(s) = 0
           \/ /\ FirstFile(s) \in 1 .. Len(s) /\ IsFile(s[FirstFile(s)])
              /\ \A j \in 1 .. FirstFile(s) - 1 : ~IsFile(s[j])
<1> DEFINE S == {i \in 1 .. Len(s) : IsFile(s[i])}
           R == {p \in Nat \X Nat : p[1] < p[2]}
<1>1. FirstFile(s) = IF S # {} THEN Min(S) ELSE 0
  BY DEF FirstFile, SelectInSeq
<1>2. Len(s) \in Nat /\ S \in SUBSET Nat /\ S \subseteq 1 .. Len(s)
  OBVIOUS
<1>3. ASSUME S # {}
      PROVE  \E i \in S : Min(S) = i /\ \A n \in S : i <= n
  <2>1. IsWellFoundedOn(R, Nat)
    BY NatLessThanWellFounded DEF OpToRel
  <2>2. \E i \in S : \A n \in S : <<n, i>> \notin R
    <3> HIDE DEF R, S
    <3> QED BY <1>2, <1>3, <2>1, WFMin
  <2>3. PICK i \in S : \A n \in S : <<n, i>> \notin R
    BY <2>2
  <2>4. \A n \in S : i \in Nat /\ n \in Nat
    BY <1>2
  <2>5. ASSUME NEW n \in S PROVE i <= n
    <3>1. n < i => <<n, i>> \in R
      BY <2>4
    <3> HIDE DEF R
    <3> QED BY <2>3, <2>4, <3>1
  <2>6. \E x \in S : \A y \in S : x =< y
    BY <2>3, <2>5
  <2>7. Min(S) \in S /\ \A y \in S : Min(S) =< y
    <3> HIDE DEF S
    <3> QED BY <2>6 DEF Min
  <2> QED BY <2>7
<1>4. CASE S = {}
  BY <1>1, <1>4
<1>5. ASSUME S # {}
      PROVE  /\ FirstFile(s) \in 1 .. Len(s) /\ IsFile(s[FirstFile(s)])
             /\ \A j \in 1 .. FirstFile(s) - 1 : ~IsFile(s[j])
  <2>1. PICK f \in S : f = FirstFile(s) /\ \A n \in S : f <= n
    BY <1>1, <1>3, <1>5
  <2>2. f \in 1 .. Len(s) /\ IsFile(s[f])
    BY <2>1
  <2>3. \A j \in 1 .. f - 1 : j \in 1 .. Len(s) /\ ~(f <= j)
    BY <2>2
  <2> QED BY <2>1, <2>2, <2>3
<1> QED BY <1>4, <1>5

\* What a definition says of its appenders.
LEMMA CastSays ==
    ASSUME LogTyped, NEW n \in LogNames, logs[n] # NoDefine, NEW i \in Nat
    PROVE  /\ logs[n].level \in Levels /\ logs[n].formatter \in Patterns
           /\ logs[n].appenders[i].type \in Kinds /\ logs[n].appenders[i].formatter \in Patterns
<1>1. logs[n] \in Casts
  BY DEF LogTyped
<1>2. logs[n].level \in Levels
  BY <1>1 DEF Levels
<1>3. logs[n].formatter \in Patterns
  <2>1. logs[n].formatter \in LoggerPatterns
    BY <1>1 DEF LoggerPatterns
  <2> QED BY <2>1 DEF Patterns
<1>5. logs[n].appenders[i].formatter \in Patterns
  <2>1. logs[n].appenders[i].formatter \in AppenderPatterns
    BY <1>1 DEF AppenderPatterns
  <2> QED BY <2>1 DEF Patterns
<1>4. logs[n].appenders[i].type \in Kinds
  BY <1>1 DEF Kinds
<1> QED BY <1>2, <1>3, <1>4, <1>5

\* setFormatter() reaches the logger and its appenders without a formatter of their own, and
\* nothing else of them.
LEMMA FormatterSet ==
    ASSUME NEW l \in Loggers, NEW p \in Patterns
    PROVE  LET s == WithFormatter(l, p).m_appenders IN
           /\ WithFormatter(l, p) \in Loggers
           /\ WithFormatter(l, p).m_level = l.m_level /\ WithFormatter(l, p).m_formatter = p
           /\ Len(s) = Len(l.m_appenders) /\ DOMAIN s = DOMAIN l.m_appenders
           /\ \A i \in DOMAIN s :
                 /\ s[i].type = l.m_appenders[i].type /\ s[i].open = l.m_appenders[i].open
                 /\ s[i].m_hasFormatter = l.m_appenders[i].m_hasFormatter
                 /\ s[i].m_reopenTime = l.m_appenders[i].m_reopenTime
                 /\ s[i].m_formatter = IF s[i].m_hasFormatter THEN l.m_appenders[i].m_formatter ELSE p
<1>1. PICK lv \in Levels, fm \in Patterns, as \in Seq(Appenders) :
         l = [m_level |-> lv, m_formatter |-> fm, m_appenders |-> as]
  BY DEF Loggers
<1>2. PICK t : t = [i \in DOMAIN as |-> IF as[i].m_hasFormatter THEN as[i] ELSE [as[i] EXCEPT !.m_formatter = p]]
  OBVIOUS
<1>3. WithFormatter(l, p) = [m_level |-> lv, m_formatter |-> p, m_appenders |-> t]
  <2>1. WithFormatter(l, p) = [[l EXCEPT !.m_formatter = p] EXCEPT !.m_appenders = t]
    BY <1>1, <1>2 DEF WithFormatter
  <2> QED BY <1>1, <2>1
<1>4. ASSUME NEW a \in Appenders
      PROVE  /\ [a EXCEPT !.m_formatter = p] \in Appenders
             /\ [a EXCEPT !.m_formatter = p].type = a.type
             /\ [a EXCEPT !.m_formatter = p].open = a.open
             /\ [a EXCEPT !.m_formatter = p].m_hasFormatter = a.m_hasFormatter
             /\ [a EXCEPT !.m_formatter = p].m_reopenTime = a.m_reopenTime
             /\ [a EXCEPT !.m_formatter = p].m_formatter = p
  BY DEF Appenders
<1>s. ASSUME NEW s \in Seq(Appenders)
      PROVE  DOMAIN s = 1 .. Len(s) /\ Len(s) \in Nat /\ \A i \in 1 .. Len(s) : s[i] \in Appenders
  OBVIOUS
<1>5. DOMAIN as = 1 .. Len(as) /\ Len(as) \in Nat /\ \A i \in 1 .. Len(as) : as[i] \in Appenders
  BY <1>1, <1>s
<1>6. DOMAIN t = 1 .. Len(as) /\ \A i \in 1 .. Len(as) : t[i] \in Appenders
  BY <1>2, <1>4, <1>5
<1>7. t \in Seq(Appenders) /\ Len(t) = Len(as)
  <2>1. ASSUME NEW m \in Nat, NEW s \in [1 .. m -> Appenders]
        PROVE  s \in Seq(Appenders) /\ Len(s) = m
    OBVIOUS
  <2>2. t \in [1 .. Len(as) -> Appenders]
    BY <1>2, <1>5, <1>6
  <2> QED BY <1>5, <2>1, <2>2
<1>8. \A i \in 1 .. Len(as) :
         /\ t[i].type = as[i].type /\ t[i].open = as[i].open /\ t[i].m_hasFormatter = as[i].m_hasFormatter
         /\ t[i].m_reopenTime = as[i].m_reopenTime
         /\ t[i].m_formatter = IF t[i].m_hasFormatter THEN as[i].m_formatter ELSE p
  BY <1>2, <1>4, <1>5
<1>9. WithFormatter(l, p) \in Loggers
  BY <1>1, <1>3, <1>7 DEF Loggers
<1>10. /\ WithFormatter(l, p).m_level = l.m_level /\ WithFormatter(l, p).m_formatter = p
       /\ WithFormatter(l, p).m_appenders = t /\ l.m_appenders = as
  BY <1>1, <1>3
<1> QED BY <1>5, <1>6, <1>7, <1>8, <1>9, <1>10

\* A step that gives one logger a new record.
LoggerTo(n, l) == logger' = [logger EXCEPT ![n] = l]

\* the logger n, with other appenders
WithAppenders(n, as) ==
    [m_level |-> logger[n].m_level, m_formatter |-> logger[n].m_formatter, m_appenders |-> as]

\* The fields of a logger that a step sets, one by one.
LEMMA FieldsSet ==
    ASSUME LogTyped, NEW n \in LogNames
    PROVE  /\ \A v \in Levels : logger' = [logger EXCEPT ![n].m_level = v] =>
                  LoggerTo(n, [m_level |-> v, m_formatter |-> logger[n].m_formatter,
                               m_appenders |-> logger[n].m_appenders])
           /\ \A as : logger' = [logger EXCEPT ![n].m_appenders = as] => LoggerTo(n, WithAppenders(n, as))
           /\ \A as \in Seq(Appenders) : WithAppenders(n, as) \in Loggers
           /\ \A v \in Levels : [m_level |-> v, m_formatter |-> logger[n].m_formatter,
                                 m_appenders |-> logger[n].m_appenders] \in Loggers
           /\ logger[n].m_appenders \in Seq(Appenders) /\ logger[n].m_formatter \in Patterns
<1>1. logger \in [LogNames -> Loggers] /\ logger[n] \in Loggers
  BY DEF LogTyped
<1>2. PICK lv \in Levels, fm \in Patterns, as \in Seq(Appenders) :
         logger[n] = [m_level |-> lv, m_formatter |-> fm, m_appenders |-> as]
  BY <1>1 DEF Loggers
<1>3. ASSUME NEW v \in Levels
      PROVE  [logger[n] EXCEPT !.m_level = v] = [m_level |-> v, m_formatter |-> fm, m_appenders |-> as]
  <2>1. ASSUME NEW l \in Loggers
        PROVE  [l EXCEPT !.m_level = v]
                 = [m_level |-> v, m_formatter |-> l.m_formatter, m_appenders |-> l.m_appenders]
    BY DEF Loggers
  <2>2. logger[n].m_formatter = fm /\ logger[n].m_appenders = as
    BY <1>2
  <2> QED BY <1>1, <2>1, <2>2
<1>4. ASSUME NEW s
      PROVE  [logger[n] EXCEPT !.m_appenders = s] = [m_level |-> lv, m_formatter |-> fm, m_appenders |-> s]
  BY <1>2
<1>5. logger[n].m_level = lv /\ logger[n].m_formatter = fm /\ logger[n].m_appenders = as
  BY <1>2
<1>6. \A s \in Seq(Appenders) : WithAppenders(n, s) \in Loggers
  BY <1>2, <1>5 DEF WithAppenders, Loggers
<1>7. \A v \in Levels : [m_level |-> v, m_formatter |-> fm, m_appenders |-> as] \in Loggers
  BY <1>2 DEF Loggers
<1>8. \A v \in Levels : logger' = [logger EXCEPT ![n].m_level = v] =>
          LoggerTo(n, [m_level |-> v, m_formatter |-> fm, m_appenders |-> as])
  BY <1>3 DEF LoggerTo
<1>9. \A s : logger' = [logger EXCEPT ![n].m_appenders = s] => LoggerTo(n, WithAppenders(n, s))
  BY <1>4, <1>5 DEF LoggerTo, WithAppenders
<1> QED BY <1>2, <1>5, <1>6, <1>7, <1>8, <1>9

\* What FileLogAppender::log() does to the appender.
LEMMA FileLogged ==
    ASSUME NEW a \in Appenders, NEW held, NEW line \in Nat, time \in Nat, NEW x, x = FileLog(a, held, line).appender
    PROVE  /\ x \in Appenders
           /\ x.type = a.type /\ x.m_hasFormatter = a.m_hasFormatter /\ x.m_formatter = a.m_formatter
           /\ x.m_reopenTime = time
<1>1. PICK ty \in Kinds, has \in BOOLEAN, fm \in Patterns, re \in Nat, op \in BOOLEAN :
         a = [type |-> ty, m_hasFormatter |-> has, m_formatter |-> fm, m_reopenTime |-> re, open |-> op]
  BY DEF Appenders
<1>2. FileLog(a, held, line).appender
        = [type |-> ty, m_hasFormatter |-> has, m_formatter |-> fm, m_reopenTime |-> time,
           open |-> op \/ re # time]
  BY <1>1 DEF FileLog
<1>3. ASSUME NEW b \in BOOLEAN
      PROVE  [type |-> ty, m_hasFormatter |-> has, m_formatter |-> fm, m_reopenTime |-> time, open |-> b]
                \in Appenders
  BY DEF Appenders
<1>4. PICK b \in BOOLEAN : b = (op \/ re # time)
  OBVIOUS
<1>5. FileLog(a, held, line).appender
        = [type |-> ty, m_hasFormatter |-> has, m_formatter |-> fm, m_reopenTime |-> time, open |-> b]
  BY <1>2, <1>4
<1> QED BY <1>1, <1>3, <1>5

\* What a writing thread does to the logger's appenders and file.
LEMMA Written ==
    ASSUME LogTyped, NEW n \in LogNames, NEW line \in Nat, WriteAll(n, line)
    PROVE  \/ UNCHANGED <<logger, file>>
           \/ \E f \in 1 .. Len(logger[n].m_appenders) :
                 LET as == logger[n].m_appenders
                     x  == FileLog(as[f], file[n], line).appender
                 IN  /\ IsFile(as[f]) /\ \A j \in 1 .. f - 1 : ~IsFile(as[j])
                     /\ as[f] \in Appenders
                     /\ LoggerTo(n, WithAppenders(n, [as EXCEPT ![f] = x]))
                     /\ file' = [file EXCEPT ![n] = FileLog(as[f], file[n], line).holds]
<1>1. PICK as \in Seq(Appenders) : as = logger[n].m_appenders
  BY FieldsSet
<1>2. CASE FirstFile(as) = 0
  BY <1>1, <1>2 DEF WriteAll
<1>3. CASE FirstFile(as) # 0
  <2>1. PICK f \in 1 .. Len(as) : f = FirstFile(as) /\ IsFile(as[f]) /\ \A j \in 1 .. f - 1 : ~IsFile(as[j])
    BY <1>3, FirstFileIs
  <2>2. PICK x : x = FileLog(as[f], file[n], line).appender
    OBVIOUS
  <2>3. /\ logger' = [logger EXCEPT ![n].m_appenders[f] = x]
        /\ file' = [file EXCEPT ![n] = FileLog(as[f], file[n], line).holds]
    BY <1>1, <1>3, <2>1, <2>2 DEF WriteAll
  <2>4. logger' = [logger EXCEPT ![n].m_appenders = [as EXCEPT ![f] = x]]
    BY <1>1, <2>3
  <2>5. LoggerTo(n, WithAppenders(n, [as EXCEPT ![f] = x]))
    BY <2>4, FieldsSet
  <2>6. as[f] \in Appenders
    BY <1>1
  <2> QED BY <1>1, <2>1, <2>2, <2>3, <2>5, <2>6
<1> QED BY <1>2, <1>3

\* A logger whose open appenders were open, after the same others.
NoneOpened(l, x) ==
    \A k \in DOMAIN x.m_appenders : x.m_appenders[k].open =>
       /\ k \in DOMAIN l.m_appenders /\ l.m_appenders[k].open
       /\ x.m_appenders[k].m_reopenTime = l.m_appenders[k].m_reopenTime
       /\ \A j \in 1 .. k : x.m_appenders[j].type = l.m_appenders[j].type

\* A logger with the same level, and appenders of the same types with the same formatters of
\* their own.
Alike(l, x) ==
    /\ x.m_level = l.m_level /\ Len(x.m_appenders) = Len(l.m_appenders)
    /\ DOMAIN x.m_appenders = DOMAIN l.m_appenders
    /\ \A i \in DOMAIN l.m_appenders :
          /\ x.m_appenders[i].type = l.m_appenders[i].type
          /\ x.m_appenders[i].m_hasFormatter = l.m_appenders[i].m_hasFormatter
          /\ l.m_appenders[i].m_hasFormatter =>
                x.m_appenders[i].m_formatter = l.m_appenders[i].m_formatter

\* What a definition asks of a logger it asks of any logger like it.
LEMMA AlikeDefined ==
    ASSUME NEW l \in Loggers, NEW x \in Loggers, Alike(l, x), NEW n \in LogNames, NEW d
    PROVE  /\ AsDefined(n, l, d) => AsDefined(n, x, d)
           /\ (\A i \in DOMAIN l.m_appenders : Matches(l, d, i))
                  => \A i \in DOMAIN x.m_appenders : Matches(x, d, i)
<1>1. ASSUME \A i \in DOMAIN l.m_appenders : Matches(l, d, i)
      PROVE  \A i \in DOMAIN x.m_appenders : Matches(x, d, i)
  BY <1>1 DEF Alike, Matches
<1>2. ASSUME AsDefined(n, l, d), d # NoDefine
      PROVE  AsDefined(n, x, d)
  BY <1>1, <1>2 DEF Alike, AsDefined
<1>3. ASSUME AsDefined(n, l, d), d = NoDefine
      PROVE  AsDefined(n, x, d)
  <2>1. l.m_appenders \in Seq(Appenders) /\ x.m_appenders \in Seq(Appenders)
    BY DEF Loggers
  <2>2. ASSUME l.m_appenders = <<>> PROVE x.m_appenders = <<>>
    <3>1. Len(x.m_appenders) = 0
      BY <2>2 DEF Alike
    <3> QED BY <2>1, <3>1
  <2>3. ASSUME \A i \in DOMAIN l.m_appenders : ~IsFile(l.m_appenders[i])
        PROVE  \A i \in DOMAIN x.m_appenders : ~IsFile(x.m_appenders[i])
    BY <2>3 DEF Alike, IsFile
  <2> QED BY <1>3, <2>2, <2>3 DEF AsDefined
<1> QED BY <1>1, <1>2, <1>3

\* A new formatter.
LEMMA FormatterAlike ==
    ASSUME NEW l \in Loggers, NEW p \in Patterns
    PROVE  /\ WithFormatter(l, p) \in Loggers /\ Alike(l, WithFormatter(l, p))
           /\ NoneOpened(l, WithFormatter(l, p)) /\ (Follow(l) => Follow(WithFormatter(l, p)))
<1>1. PICK x \in Loggers : x = WithFormatter(l, p)
  BY FormatterSet
<1>2. /\ x.m_level = l.m_level /\ x.m_formatter = p
      /\ Len(x.m_appenders) = Len(l.m_appenders) /\ DOMAIN x.m_appenders = DOMAIN l.m_appenders
      /\ \A i \in DOMAIN x.m_appenders :
            /\ x.m_appenders[i].type = l.m_appenders[i].type /\ x.m_appenders[i].open = l.m_appenders[i].open
            /\ x.m_appenders[i].m_hasFormatter = l.m_appenders[i].m_hasFormatter
            /\ x.m_appenders[i].m_reopenTime = l.m_appenders[i].m_reopenTime
            /\ x.m_appenders[i].m_formatter
                  = IF x.m_appenders[i].m_hasFormatter THEN l.m_appenders[i].m_formatter ELSE p
  BY <1>1, FormatterSet
<1>3. Alike(l, x)
  BY <1>2 DEF Alike
<1>4. Follow(x)
  BY <1>2 DEF Follow
<1>5. NoneOpened(l, x)
  <2>1. DOMAIN x.m_appenders = 1 .. Len(x.m_appenders) /\ Len(x.m_appenders) \in Nat
    BY DEF Loggers
  <2>2. \A k \in DOMAIN x.m_appenders : 1 .. k \subseteq DOMAIN x.m_appenders
    BY <2>1
  <2> QED BY <1>2, <2>2 DEF NoneOpened
<1> QED BY <1>1, <1>3, <1>4, <1>5
\* One logger is given a new record, and the others keep theirs.
LEMMA OneLogger ==
    ASSUME LogTyped, NEW n \in LogNames, NEW l \in Loggers, LoggerTo(n, l)
    PROVE  /\ logger' \in [LogNames -> Loggers] /\ logger'[n] = l
           /\ \A m \in LogNames : m # n => logger'[m] = logger[m]
  BY DEF LogTyped, LoggerTo

\* A logger that opens no appender and whose appenders follow keeps the files and formatters
\* right.
LEMMA OneLoggerKept ==
    ASSUME LogTyped, FormatsFollow, FilesFresh, NEW n \in LogNames, NEW l \in Loggers, LoggerTo(n, l),
           NoneOpened(logger[n], l), Follow(logger[n]) => Follow(l), UNCHANGED <<file, lines, time>>
    PROVE  FormatsFollow' /\ FilesFresh'
<1>1. /\ logger' \in [LogNames -> Loggers] /\ logger'[n] = l
      /\ \A m \in LogNames : m # n => logger'[m] = logger[m]
  BY OneLogger
<1>2. FormatsFollow'
  <2>1. \A m \in LogNames : Follow(logger'[m])
    BY <1>1 DEF FormatsFollow
  <2> QED BY <2>1 DEF FormatsFollow, Follow
<1>3. ASSUME NEW k \in DOMAIN l.m_appenders, l.m_appenders[k].open
      PROVE  /\ IsFile(l.m_appenders[k]) /\ \A j \in 1 .. k - 1 : ~IsFile(l.m_appenders[j])
             /\ \A i \in file[n] : lines[i] = time => l.m_appenders[k].m_reopenTime = time
  <2>1. /\ k \in DOMAIN logger[n].m_appenders /\ logger[n].m_appenders[k].open
        /\ l.m_appenders[k].m_reopenTime = logger[n].m_appenders[k].m_reopenTime
        /\ \A j \in 1 .. k : l.m_appenders[j].type = logger[n].m_appenders[j].type
    BY <1>3 DEF NoneOpened
  <2>2. k \in Nat \ {0}
    BY DEF Loggers
  <2>3. /\ IsFile(logger[n].m_appenders[k]) /\ \A j \in 1 .. k - 1 : ~IsFile(logger[n].m_appenders[j])
        /\ \A i \in file[n] : lines[i] = time => logger[n].m_appenders[k].m_reopenTime = time
    BY <2>1 DEF FilesFresh
  <2>4. k \in 1 .. k /\ \A j \in 1 .. k - 1 : j \in 1 .. k
    BY <2>2
  <2> QED BY <2>1, <2>3, <2>4 DEF IsFile
<1>4. FilesFresh'
  <2>1. ASSUME NEW m \in LogNames, NEW k \in DOMAIN logger'[m].m_appenders, logger'[m].m_appenders[k].open
        PROVE  /\ IsFile(logger'[m].m_appenders[k]) /\ \A j \in 1 .. k - 1 : ~IsFile(logger'[m].m_appenders[j])
               /\ \A i \in file[m] : lines[i] = time => logger'[m].m_appenders[k].m_reopenTime = time
    <3>1. CASE m = n
      BY <1>1, <1>3, <2>1, <3>1
    <3>2. CASE m # n
      BY <1>1, <2>1, <3>2 DEF FilesFresh
    <3> QED BY <3>1, <3>2
  <2> QED BY <2>1 DEF FilesFresh, IsFile
<1> QED BY <1>2, <1>4

\* setLevel().
LEMMA LevelSet ==
    ASSUME LogTyped, NEW n \in LogNames, NEW v \in Levels, logger' = [logger EXCEPT ![n].m_level = v]
    PROVE  \E l \in Loggers :
              /\ LoggerTo(n, l) /\ NoneOpened(logger[n], l) /\ (Follow(logger[n]) => Follow(l))
              /\ l.m_level = v /\ l.m_appenders = logger[n].m_appenders
<1>1. PICK l : l = [m_level |-> v, m_formatter |-> logger[n].m_formatter,
                    m_appenders |-> logger[n].m_appenders]
  OBVIOUS
<1>2. LoggerTo(n, l) /\ l \in Loggers
  BY <1>1, FieldsSet
<1>3. l.m_level = v /\ l.m_formatter = logger[n].m_formatter /\ l.m_appenders = logger[n].m_appenders
  BY <1>1
<1>4. Follow(logger[n]) => Follow(l)
  BY <1>3 DEF Follow
<1>5. NoneOpened(logger[n], l)
  BY <1>3 DEF NoneOpened
<1> QED BY <1>2, <1>3, <1>4, <1>5

\* clearAppenders().
LEMMA Cleared ==
    ASSUME LogTyped, NEW n \in LogNames, ClearAppenders(n)
    PROVE  \E l \in Loggers :
              /\ LoggerTo(n, l) /\ NoneOpened(logger[n], l) /\ Follow(l)
              /\ l.m_level = logger[n].m_level /\ l.m_appenders = <<>>
<1>1. PICK l : l = WithAppenders(n, <<>>)
  OBVIOUS
<1>2. LoggerTo(n, l) /\ l \in Loggers
  <2>1. logger' = [logger EXCEPT ![n].m_appenders = <<>>]
    BY DEF ClearAppenders
  <2>2. <<>> \in Seq(Appenders)
    OBVIOUS
  <2> QED BY <1>1, <2>1, <2>2, FieldsSet
<1>3. l.m_level = logger[n].m_level /\ l.m_appenders = <<>>
  BY <1>1 DEF WithAppenders
<1>4. Follow(l) /\ NoneOpened(logger[n], l)
  BY <1>3 DEF Follow, NoneOpened
<1> QED BY <1>2, <1>3, <1>4

\* addAppender() of an appender that is not open.
LEMMA Added ==
    ASSUME LogTyped, NEW n \in LogNames, NEW a \in Appenders, ~a.open,
           ~a.m_hasFormatter => a.m_formatter = logger[n].m_formatter,
           logger' = [logger EXCEPT ![n].m_appenders = Append(logger[n].m_appenders, a)]
    PROVE  \E l \in Loggers :
              /\ LoggerTo(n, l) /\ NoneOpened(logger[n], l) /\ (Follow(logger[n]) => Follow(l))
              /\ l.m_level = logger[n].m_level
              /\ DOMAIN l.m_appenders = 1 .. Len(logger[n].m_appenders) + 1
              /\ l.m_appenders[Len(logger[n].m_appenders) + 1] = a
              /\ \A i \in DOMAIN logger[n].m_appenders : l.m_appenders[i] = logger[n].m_appenders[i]
<1>1. PICK as \in Seq(Appenders) : as = logger[n].m_appenders
  BY FieldsSet
<1>2. PICK l : l = WithAppenders(n, Append(as, a))
  OBVIOUS
<1>3. /\ Append(as, a) \in Seq(Appenders) /\ Len(as) \in Nat /\ DOMAIN as = 1 .. Len(as)
      /\ DOMAIN Append(as, a) = 1 .. Len(as) + 1 /\ Append(as, a)[Len(as) + 1] = a
      /\ \A i \in 1 .. Len(as) : Append(as, a)[i] = as[i]
  <2>1. ASSUME NEW s \in Seq(Appenders), NEW x \in Appenders
        PROVE  /\ Append(s, x) \in Seq(Appenders) /\ Len(s) \in Nat /\ DOMAIN s = 1 .. Len(s)
               /\ DOMAIN Append(s, x) = 1 .. Len(s) + 1 /\ Append(s, x)[Len(s) + 1] = x
               /\ \A i \in 1 .. Len(s) : Append(s, x)[i] = s[i]
    OBVIOUS
  <2> QED BY <2>1
<1>4. LoggerTo(n, l) /\ l \in Loggers
  BY <1>1, <1>2, <1>3, FieldsSet
<1>5. /\ l.m_level = logger[n].m_level /\ l.m_formatter = logger[n].m_formatter
      /\ l.m_appenders = Append(as, a)
  BY <1>2 DEF WithAppenders
<1>6. \A k \in 1 .. Len(as) + 1 : k \in 1 .. Len(as) \/ k = Len(as) + 1
  <2>1. ASSUME NEW c \in Nat, NEW k \in 1 .. c + 1 PROVE k \in 1 .. c \/ k = c + 1
    OBVIOUS
  <2> QED BY <1>3, <2>1
<1>7. ASSUME Follow(logger[n]) PROVE Follow(l)
  BY <1>1, <1>3, <1>5, <1>6, <1>7 DEF Follow
<1>8. NoneOpened(logger[n], l)
  <2>1. ASSUME NEW k \in 1 .. Len(as) + 1, l.m_appenders[k].open
        PROVE  k \in 1 .. Len(as)
    BY <1>3, <1>5, <1>6, <2>1
  <2>2. \A k \in 1 .. Len(as) : \A j \in 1 .. k : j \in 1 .. Len(as)
    <3>1. ASSUME NEW c \in Nat, NEW k \in 1 .. c, NEW j \in 1 .. k PROVE j \in 1 .. c
      OBVIOUS
    <3> QED BY <1>3, <3>1
  <2> QED BY <1>1, <1>3, <1>5, <2>1, <2>2 DEF NoneOpened
<1> QED BY <1>1, <1>3, <1>4, <1>5, <1>7, <1>8
\* The fields of the listener that a step sets.
LEMMA ReloadSays ==
    ASSUME LogTyped
    PROVE  /\ reload.at \in ReloadSteps /\ reload.name \in LogNames /\ reload.todo \subseteq LogNames
           /\ reload.gone \subseteq LogNames
           /\ \A s : LET x == [reload EXCEPT !.at = s] IN
                 x.at = s /\ x.name = reload.name /\ x.todo = reload.todo /\ x.gone = reload.gone
  BY DEF LogTyped

\* A logger's writing, or its new formatter, is nothing to the definitions.
LEMMA AlikeKept ==
    ASSUME LogTyped, Reloading, NEW n \in LogNames, NEW l \in Loggers, LoggerTo(n, l), Alike(logger[n], l),
           logs' = logs, reload'.name = reload.name, reload'.todo = reload.todo, reload'.gone = reload.gone,
           reload'.at = reload.at \/ (reload.at = "format" /\ reload'.at = "clear")
    PROVE  Reloading'
<1>1. /\ logger' \in [LogNames -> Loggers] /\ logger'[n] = l
      /\ \A m \in LogNames : m # n => logger'[m] = logger[m]
  BY OneLogger
<1>2. logger[n] \in Loggers
  BY DEF LogTyped
<1>3. ASSUME NEW m \in LogNames
      PROVE  /\ AsDefined(m, logger[m], logs[m]) => AsDefined(m, logger'[m], logs[m])
             /\ (\A i \in DOMAIN logger[m].m_appenders : Matches(logger[m], logs[m], i))
                  => \A i \in DOMAIN logger'[m].m_appenders : Matches(logger'[m], logs[m], i)
             /\ logger'[m].m_level = logger[m].m_level
  <2>1. CASE m = n
    <3>1. PICK d : d = logs[n]
      OBVIOUS
    <3>2. /\ AsDefined(n, logger[n], d) => AsDefined(n, l, d)
          /\ (\A i \in DOMAIN logger[n].m_appenders : Matches(logger[n], d, i))
                => \A i \in DOMAIN l.m_appenders : Matches(l, d, i)
      BY <1>2, AlikeDefined
    <3>3. l.m_level = logger[n].m_level
      BY DEF Alike
    <3> QED BY <1>1, <2>1, <3>1, <3>2, <3>3
  <2>2. CASE m # n
    BY <1>1, <2>2
  <2> QED BY <2>1, <2>2
<1>4. \A m \in LogNames \ (reload.todo \cup reload.gone) :
         AsDefined(m, logger'[m], logs'[m]) \/ (m = reload.name /\ reload'.at \notin {"idle", "next"})
  BY <1>3 DEF Reloading
<1>5. reload.name \in LogNames
  BY ReloadSays
<1>6. reload'.at = "add" =>
         \A i \in DOMAIN logger'[reload.name].m_appenders : Matches(logger'[reload.name], logs'[reload.name], i)
  BY <1>3, <1>5 DEF Reloading
<1>7. reload'.at \in {"format", "clear", "add"} =>
         /\ reload.name \notin reload.todo \cup reload.gone /\ logs'[reload.name] # NoDefine
         /\ logger'[reload.name].m_level = logs'[reload.name].level
  BY <1>3, <1>5 DEF Reloading
<1>8. reload'.at = "idle" => reload.todo \cup reload.gone = {}
  BY DEF Reloading
<1>9. (\A m \in reload.todo : logs[m] # NoDefine) /\ (\A m \in reload.gone : logs[m] = NoDefine)
  BY DEF Reloading
<1> QED BY <1>4, <1>6, <1>7, <1>8, <1>9 DEF Reloading
\* A thread goes on.
LEMMA WriterAt ==
    ASSUME LogTyped, NEW w \in Writers, NEW s \in {"idle", "lock", "write", "root"},
           writer' = [writer EXCEPT ![w].at = s]
    PROVE  writer' \in [Writers -> [at : {"idle", "lock", "write", "root"}, name : LogNames, level : Nat]]
<1>1. ASSUME NEW r \in [at : {"idle", "lock", "write", "root"}, name : LogNames, level : Nat]
      PROVE  [r EXCEPT !.at = s] \in [at : {"idle", "lock", "write", "root"}, name : LogNames, level : Nat]
  OBVIOUS
<1>2. writer' = [writer EXCEPT ![w] = [writer[w] EXCEPT !.at = s]]
  OBVIOUS
<1> QED BY <1>1, <1>2 DEF LogTyped

\* The steps that leave the loggers alone.
LEMMA QuietKept ==
    ASSUME LogTyped, FormatsFollow, Reloading, FilesFresh,
           \/ LogTick
           \/ \E w \in Writers : LogLock(w) \/ \E n \in LogNames, level \in DEBUG .. INFO : LogTest(w, n, level)
    PROVE  LogInv'
<1>1. UNCHANGED <<logs, logger, reload, lines, file>> /\ (time' = time \/ time' = time + 1)
  BY DEF LogTick, LogLock, LogTest
<1>2. writer' \in [Writers -> [at : {"idle", "lock", "write", "root"}, name : LogNames, level : Nat]]
  <2>1. CASE LogTick
    BY <2>1 DEF LogTick, LogTyped
  <2>2. ASSUME NEW w \in Writers, LogLock(w)
        PROVE  writer' \in [Writers -> [at : {"idle", "lock", "write", "root"}, name : LogNames, level : Nat]]
    <3>1. PICK s \in {"idle", "root", "write"} : writer' = [writer EXCEPT ![w].at = s]
      BY <2>2 DEF LogLock
    <3>2. s \in {"idle", "lock", "write", "root"}
      OBVIOUS
    <3> QED BY <3>1, <3>2, WriterAt
  <2>3. ASSUME NEW w \in Writers, NEW n \in LogNames, NEW level \in DEBUG .. INFO, LogTest(w, n, level)
        PROVE  writer' \in [Writers -> [at : {"idle", "lock", "write", "root"}, name : LogNames, level : Nat]]
    <3>1. level \in Nat
      BY DEF DEBUG, INFO
    <3>2. writer' = [writer EXCEPT ![w] = [at |-> "lock", name |-> n, level |-> level]]
      BY <2>3 DEF LogTest
    <3> QED BY <3>1, <3>2 DEF LogTyped
  <2> QED BY <2>1, <2>2, <2>3
<1>3. LogTyped'
  <2>1. time' \in Nat
    BY <1>1 DEF LogTyped
  <2> QED BY <1>1, <1>2, <2>1 DEF LogTyped
<1>4. FormatsFollow'
  BY <1>1 DEF FormatsFollow
<1>5. Reloading'
  BY <1>1 DEF Reloading
<1>6. FilesFresh'
  <2>1. time \in Nat /\ \A i \in 1 .. Len(lines) : lines[i] \in Nat /\ lines[i] <= time
    <3>1. ASSUME NEW s \in Seq(Nat) PROVE \A i \in 1 .. Len(s) : s[i] \in Nat
      OBVIOUS
    <3>2. time \in Nat /\ lines \in Seq(Nat)
      BY DEF LogTyped
    <3>3. \A i \in 1 .. Len(lines) : lines[i] \in Nat
      BY <3>1, <3>2
    <3> QED BY <3>2, <3>3 DEF FilesFresh
  <2>2. /\ \A i \in 1 .. Len(lines) : lines[i] <= time'
        /\ \A i \in 1 .. Len(lines) : lines[i] = time' => time' = time
    BY <1>1, <2>1
  <2>3. \A n \in LogNames : \A i \in file[n] : lines[i] = time' => time' = time
    BY <2>2 DEF LogTyped
  <2> QED BY <1>1, <2>2, <2>3 DEF FilesFresh
<1> QED BY <1>3, <1>4, <1>5, <1>6 DEF LogInv

\* A new formatter, by the program or by the listener.
LEMMA RestyleKept ==
    ASSUME LogTyped, FormatsFollow, Reloading, FilesFresh, NEW n \in LogNames, NEW p \in Patterns,
           logger' = [logger EXCEPT ![n] = WithFormatter(logger[n], p)],
           UNCHANGED <<logs, writer, time, lines, file>>,
           reload' = reload \/ (reload.at = "format" /\ reload' = [reload EXCEPT !.at = "clear"])
    PROVE  LogInv'
<1>1. PICK l \in Loggers : LoggerTo(n, l) /\ Alike(logger[n], l) /\ NoneOpened(logger[n], l)
                              /\ (Follow(logger[n]) => Follow(l))
  <2>1. logger[n] \in Loggers
    BY DEF LogTyped
  <2> QED BY <2>1, FormatterAlike DEF LoggerTo
<1>2. FormatsFollow' /\ FilesFresh'
  BY <1>1, OneLoggerKept
<1>3. /\ reload'.name = reload.name /\ reload'.todo = reload.todo /\ reload'.gone = reload.gone
      /\ reload'.at = reload.at \/ (reload.at = "format" /\ reload'.at = "clear")
  <2>1. CASE reload' = reload
    BY <2>1
  <2>2. CASE reload.at = "format" /\ reload' = [reload EXCEPT !.at = "clear"]
    BY <2>2, ReloadSays
  <2> QED BY <2>1, <2>2
<1>4. Reloading'
  BY <1>1, <1>3, AlikeKept
<1>5. LogTyped'
  <2>1. reload' \in [at : ReloadSteps, name : LogNames, todo : SUBSET LogNames, gone : SUBSET LogNames,
                     old : [LogNames -> Casts \cup {NoDefine}]]
    <3>1. "clear" \in ReloadSteps
      BY DEF ReloadSteps
    <3> QED BY <3>1 DEF LogTyped
  <2>2. logger' \in [LogNames -> Loggers]
    BY <1>1, OneLogger
  <2> QED BY <2>1, <2>2 DEF LogTyped
<1> QED BY <1>2, <1>4, <1>5 DEF LogInv

\* A logging thread's writing.
LEMMA WriteKept ==
    ASSUME LogTyped, FormatsFollow, Reloading, FilesFresh, NEW w \in Writers, LogWrite(w)
    PROVE  LogInv'
<1>1. PICK n \in LogNames : WriteAll(n, Len(lines'))
  BY LogAssumption DEF LogWrite, LogTyped
<1>2. /\ lines' \in Seq(Nat) /\ Len(lines) \in Nat /\ Len(lines') = Len(lines) + 1
      /\ lines'[Len(lines')] = time /\ \A i \in 1 .. Len(lines) : lines'[i] = lines[i]
  <2>1. ASSUME NEW s \in Seq(Nat), NEW x \in Nat
        PROVE  /\ Append(s, x) \in Seq(Nat) /\ Len(s) \in Nat /\ Len(Append(s, x)) = Len(s) + 1
               /\ Append(s, x)[Len(s) + 1] = x /\ \A i \in 1 .. Len(s) : Append(s, x)[i] = s[i]
    OBVIOUS
  <2> QED BY <2>1 DEF LogWrite, LogTyped
<1>3. UNCHANGED <<logs, reload, time, died>> /\ time \in Nat
  BY DEF LogWrite, LogTyped
<1>4. writer' \in [Writers -> [at : {"idle", "lock", "write", "root"}, name : LogNames, level : Nat]]
  BY WriterAt DEF LogWrite
<1>5. /\ \A i \in 1 .. Len(lines') : lines'[i] <= time
      /\ \A i \in 1 .. Len(lines') : i \in 1 .. Len(lines) \/ i = Len(lines')
      /\ 1 .. Len(lines) \subseteq 1 .. Len(lines') /\ Len(lines') \in 1 .. Len(lines')
  <2>1. ASSUME NEW c \in Nat, NEW i \in 1 .. c + 1 PROVE i \in 1 .. c \/ i = c + 1
    OBVIOUS
  <2>2. \A i \in 1 .. Len(lines') : i \in 1 .. Len(lines) \/ i = Len(lines')
    BY <1>2, <2>1
  <2>3. \A i \in 1 .. Len(lines') : lines'[i] <= time
    BY <1>2, <1>3, <2>2 DEF FilesFresh
  <2>4. 1 .. Len(lines) \subseteq 1 .. Len(lines') /\ Len(lines') \in 1 .. Len(lines')
    BY <1>2
  <2> QED BY <2>2, <2>3, <2>4
<1>6. \A m \in LogNames : file[m] \subseteq 1 .. Len(lines)
  BY DEF LogTyped
<1>7. \A m \in LogNames : \A i \in file[m] : i \in 1 .. Len(lines') /\ lines'[i] = lines[i]
  BY <1>2, <1>5, <1>6
<1>8. CASE UNCHANGED <<logger, file>>
  <2>1. LogTyped'
    <3>1. file' \in [LogNames -> SUBSET (1 .. Len(lines'))]
      BY <1>5, <1>8 DEF LogTyped
    <3> QED BY <1>2, <1>3, <1>4, <1>8, <3>1 DEF LogTyped
  <2>2. FormatsFollow' /\ Reloading'
    BY <1>3, <1>8 DEF FormatsFollow, Reloading
  <2>3. FilesFresh'
    BY <1>3, <1>5, <1>7, <1>8 DEF FilesFresh
  <2> QED BY <2>1, <2>2, <2>3 DEF LogInv
<1>9. ASSUME ~UNCHANGED <<logger, file>> PROVE LogInv'
  <2>1. PICK as \in Seq(Appenders) : as = logger[n].m_appenders
    BY FieldsSet
  <2>2. PICK f \in 1 .. Len(as) :
           LET x == FileLog(as[f], file[n], Len(lines')).appender
           IN  /\ IsFile(as[f]) /\ \A j \in 1 .. f - 1 : ~IsFile(as[j])
               /\ as[f] \in Appenders
               /\ LoggerTo(n, WithAppenders(n, [as EXCEPT ![f] = x]))
               /\ file' = [file EXCEPT ![n] = FileLog(as[f], file[n], Len(lines')).holds]
    <3>1. \E g \in 1 .. Len(logger[n].m_appenders) :
             LET y == FileLog(logger[n].m_appenders[g], file[n], Len(lines')).appender
             IN  /\ IsFile(logger[n].m_appenders[g]) /\ \A j \in 1 .. g - 1 : ~IsFile(logger[n].m_appenders[j])
                 /\ logger[n].m_appenders[g] \in Appenders
                 /\ LoggerTo(n, WithAppenders(n, [logger[n].m_appenders EXCEPT ![g] = y]))
                 /\ file' = [file EXCEPT ![n] = FileLog(logger[n].m_appenders[g], file[n], Len(lines')).holds]
      <4>1. Len(lines') \in Nat
        BY <1>2
      <4> QED BY <1>1, <1>9, <4>1, Written
    <3> QED BY <2>1, <3>1
  <2>3. PICK x \in Appenders :
           /\ x = FileLog(as[f], file[n], Len(lines')).appender
           /\ x.type = as[f].type /\ x.m_hasFormatter = as[f].m_hasFormatter /\ x.m_formatter = as[f].m_formatter
           /\ x.m_reopenTime = time
    <3>1. as[f] \in Appenders
      BY <2>2
    <3>2. Len(lines') \in Nat
      BY <1>2
    <3>3. PICK c \in Nat : c = Len(lines')
      BY <3>2
    <3>4. PICK y : y = FileLog(as[f], file[n], c).appender
      OBVIOUS
    <3>5. /\ y \in Appenders
          /\ y.type = as[f].type /\ y.m_hasFormatter = as[f].m_hasFormatter /\ y.m_formatter = as[f].m_formatter
          /\ y.m_reopenTime = time
      <4>1. PICK a \in Appenders : a = as[f]
        BY <3>1
      <4>2. y = FileLog(a, file[n], c).appender /\ time \in Nat
        BY <1>3, <3>4, <4>1
      <4>3. /\ y \in Appenders
            /\ y.type = a.type /\ y.m_hasFormatter = a.m_hasFormatter /\ y.m_formatter = a.m_formatter
            /\ y.m_reopenTime = time
        BY <4>2, FileLogged
      <4> QED BY <4>1, <4>3
    <3>6. y = FileLog(as[f], file[n], Len(lines')).appender
      BY <3>3, <3>4
    <3> QED BY <3>5, <3>6
  <2>4. PICK ys \in Seq(Appenders) : ys = [as EXCEPT ![f] = x]
    <3>1. ASSUME NEW s \in Seq(Appenders), NEW i \in 1 .. Len(s), NEW y \in Appenders
          PROVE  [s EXCEPT ![i] = y] \in Seq(Appenders)
      OBVIOUS
    <3> QED BY <3>1
  <2>5. /\ Len(ys) = Len(as) /\ DOMAIN ys = 1 .. Len(as) /\ DOMAIN as = 1 .. Len(as) /\ ys[f] = x
        /\ Len(as) \in Nat /\ \A i \in 1 .. Len(as) : i # f => ys[i] = as[i]
    <3>1. ASSUME NEW s \in Seq(Appenders), NEW i \in 1 .. Len(s), NEW y \in Appenders
          PROVE  /\ Len([s EXCEPT ![i] = y]) = Len(s) /\ DOMAIN [s EXCEPT ![i] = y] = 1 .. Len(s)
                 /\ DOMAIN s = 1 .. Len(s) /\ [s EXCEPT ![i] = y][i] = y /\ Len(s) \in Nat
                 /\ \A j \in 1 .. Len(s) : j # i => [s EXCEPT ![i] = y][j] = s[j]
      OBVIOUS
    <3>2. /\ Len([as EXCEPT ![f] = x]) = Len(as) /\ DOMAIN [as EXCEPT ![f] = x] = 1 .. Len(as)
          /\ DOMAIN as = 1 .. Len(as) /\ [as EXCEPT ![f] = x][f] = x /\ Len(as) \in Nat
          /\ \A j \in 1 .. Len(as) : j # f => [as EXCEPT ![f] = x][j] = as[j]
      BY <3>1
    <3> QED BY <2>4, <3>2
  <2>6. PICK l \in Loggers : l = WithAppenders(n, ys) /\ LoggerTo(n, l)
    BY <2>2, <2>3, <2>4, FieldsSet
  <2>7. l.m_level = logger[n].m_level /\ l.m_formatter = logger[n].m_formatter /\ l.m_appenders = ys
    BY <2>6 DEF WithAppenders
  <2>8. Alike(logger[n], l)
    BY <2>1, <2>3, <2>5, <2>7 DEF Alike
  <2>9. Reloading'
    BY <1>3, <2>6, <2>8, AlikeKept
  <2>10. /\ logger' \in [LogNames -> Loggers] /\ logger'[n] = l
         /\ \A m \in LogNames : m # n => logger'[m] = logger[m]
    BY <2>6, OneLogger
  <2>11. FormatsFollow'
    <3>1. Follow(logger[n]) => Follow(l)
      BY <2>1, <2>3, <2>5, <2>7 DEF Follow
    <3> QED BY <2>10, <3>1 DEF FormatsFollow
  <2>12. file' = [file EXCEPT ![n] = file'[n]] /\ file'[n] \subseteq 1 .. Len(lines')
    <3>1. file'[n] \in {{Len(lines')}, file[n] \cup {Len(lines')}, file[n]}
      BY <2>2 DEF FileLog, LogTyped
    <3>2. file[n] \subseteq 1 .. Len(lines')
      BY <1>5, <1>6
    <3>3. file' = [file EXCEPT ![n] = file'[n]]
      BY <2>2 DEF LogTyped
    <3> QED BY <1>5, <3>1, <3>2, <3>3
  <2>13. LogTyped'
    <3>1. file' \in [LogNames -> SUBSET (1 .. Len(lines'))]
      BY <1>5, <1>6, <2>12 DEF LogTyped
    <3> QED BY <1>2, <1>3, <1>4, <2>10, <3>1 DEF LogTyped
  <2>14. ASSUME NEW k \in 1 .. Len(as), ys[k].open
         PROVE  k = f
    <3>1. SUFFICES ASSUME k # f PROVE FALSE
      OBVIOUS
    <3>2. as[k].open
      BY <2>5, <2>14, <3>1
    <3>3. IsFile(as[k]) /\ \A j \in 1 .. k - 1 : ~IsFile(as[j])
      BY <2>1, <2>5, <3>2 DEF FilesFresh
    <3>4. k \in 1 .. f - 1 \/ f \in 1 .. k - 1
      BY <2>5, <3>1
    <3> QED BY <2>2, <3>3, <3>4
  <2>15. IsFile(ys[f]) /\ (\A j \in 1 .. f - 1 : ~IsFile(ys[j])) /\ ys[f].m_reopenTime = time
    <3>1. IsFile(ys[f]) /\ ys[f].m_reopenTime = time
      BY <2>2, <2>3, <2>5 DEF IsFile
    <3>2. ASSUME NEW j \in 1 .. f - 1 PROVE ~IsFile(ys[j])
      <4>1. j \in 1 .. Len(as) /\ j # f
        <5>1. ASSUME NEW c \in Nat, NEW g \in 1 .. c, NEW h \in 1 .. g - 1 PROVE h \in 1 .. c /\ h # g
          OBVIOUS
        <5> QED BY <2>5, <5>1
      <4> QED BY <2>2, <2>5, <4>1
    <3> QED BY <3>1, <3>2
  <2>16. ASSUME NEW m \in LogNames, NEW k \in DOMAIN logger'[m].m_appenders, logger'[m].m_appenders[k].open
         PROVE  /\ IsFile(logger'[m].m_appenders[k]) /\ \A j \in 1 .. k - 1 : ~IsFile(logger'[m].m_appenders[j])
                /\ \A i \in file'[m] : lines'[i] = time => logger'[m].m_appenders[k].m_reopenTime = time
    <3>1. CASE m = n
      <4>1. k = f
        BY <2>5, <2>7, <2>10, <2>14, <2>16, <3>1
      <4> QED BY <2>7, <2>10, <2>15, <3>1, <4>1
    <3>2. CASE m # n
      <4>1. logger'[m] = logger[m] /\ file'[m] = file[m]
        BY <2>10, <2>12, <3>2 DEF LogTyped
      <4> QED BY <1>7, <2>16, <4>1 DEF FilesFresh
    <3> QED BY <3>1, <3>2
  <2>17. FilesFresh'
    BY <1>3, <1>5, <2>16 DEF FilesFresh
  <2> QED BY <2>9, <2>11, <2>13, <2>17 DEF LogInv
<1> QED BY <1>8, <1>9
\* The fields of a reload record.
LEMMA ReloadTyped ==
    ASSUME LogTyped, NEW s \in ReloadSteps
    PROVE  [reload EXCEPT !.at = s] \in [at : ReloadSteps, name : LogNames, todo : SUBSET LogNames,
                                         gone : SUBSET LogNames, old : [LogNames -> Casts \cup {NoDefine}]]
  BY DEF LogTyped

\* The listener takes up a definition.
LEMMA ReloadSetKept ==
    ASSUME LogTyped, FormatsFollow, Reloading, FilesFresh, NEW n \in LogNames, ReloadSet(n)
    PROVE  LogTyped' /\ FormatsFollow' /\ FilesFresh' /\ (died' = "no" => Reloading')
<1>1. CASE logs[n] = reload.old[n]
  <2>1. UNCHANGED <<logs, logger, reload, writer, time, lines, file>> /\ died' = "null"
    BY <1>1 DEF ReloadSet
  <2> QED BY <2>1 DEF LogTyped, FormatsFollow, FilesFresh
<1>2. CASE logs[n] # reload.old[n]
  <2>1. /\ reload.at = "next" /\ n \in reload.todo /\ logger' = [logger EXCEPT ![n].m_level = logs[n].level]
        /\ reload' = [reload EXCEPT !.at = "format", !.name = n, !.todo = reload.todo \ {n}]
        /\ UNCHANGED <<logs, writer, time, lines, file>>
    BY <1>2 DEF ReloadSet
  <2>2. logs[n] # NoDefine
    BY <2>1 DEF Reloading
  <2>3. logs[n].level \in Levels
    <3>1. logs[n] \in Casts
      BY <2>2 DEF LogTyped
    <3> QED BY <3>1 DEF Levels
  <2>4. PICK l \in Loggers :
           /\ LoggerTo(n, l) /\ NoneOpened(logger[n], l) /\ (Follow(logger[n]) => Follow(l))
           /\ l.m_level = logs[n].level /\ l.m_appenders = logger[n].m_appenders
    BY <2>1, <2>3, LevelSet
  <2>5. FormatsFollow' /\ FilesFresh'
    BY <2>1, <2>4, OneLoggerKept
  <2>6. /\ logger' \in [LogNames -> Loggers] /\ logger'[n] = l
        /\ \A m \in LogNames : m # n => logger'[m] = logger[m]
    BY <2>4, OneLogger
  <2>7. /\ reload' \in [at : ReloadSteps, name : LogNames, todo : SUBSET LogNames,
                        gone : SUBSET LogNames, old : [LogNames -> Casts \cup {NoDefine}]]
        /\ reload'.at = "format" /\ reload'.name = n /\ reload'.todo = reload.todo \ {n}
        /\ reload'.gone = reload.gone
    <3>1. PICK old \in [LogNames -> Casts \cup {NoDefine}] : old = reload.old
      BY DEF LogTyped
    <3>2. reload' = [at |-> "format", name |-> n, todo |-> reload.todo \ {n}, gone |-> reload.gone, old |-> old]
      BY <2>1, <3>1 DEF LogTyped
    <3>3. "format" \in ReloadSteps
      BY DEF ReloadSteps
    <3> QED BY <3>1, <3>2, <3>3, ReloadSays
  <2>8. LogTyped'
    BY <2>1, <2>6, <2>7 DEF LogTyped
  <2>9. n \notin reload.gone
    BY <2>2 DEF Reloading
  <2>10. Reloading'
    <3>1. \A m \in LogNames \ (reload'.todo \cup reload'.gone) :
             AsDefined(m, logger'[m], logs'[m]) \/ (m = reload'.name /\ reload'.at \notin {"idle", "next"})
      <4>1. ASSUME NEW m \in LogNames \ (reload'.todo \cup reload'.gone), m # n
            PROVE  AsDefined(m, logger'[m], logs'[m])
        <5>1. AsDefined(m, logger[m], logs[m])
          BY <2>1, <2>7, <4>1 DEF Reloading
        <5> QED BY <2>1, <2>6, <4>1, <5>1
      <4> QED BY <2>7, <4>1
    <3>2. \A m \in reload'.todo : logs'[m] # NoDefine
      BY <2>1, <2>7 DEF Reloading
    <3>3. \A m \in reload'.gone : logs'[m] = NoDefine
      BY <2>1, <2>7 DEF Reloading
    <3>4. n \notin reload'.todo \cup reload'.gone /\ logs'[n] # NoDefine /\ logger'[n].m_level = logs'[n].level
      BY <2>1, <2>2, <2>4, <2>6, <2>7, <2>9
    <3> QED BY <2>7, <3>1, <3>2, <3>3, <3>4 DEF Reloading
  <2> QED BY <2>5, <2>8, <2>10
<1> QED BY <1>1, <1>2

\* The listener clears a defined logger's appenders, or those of one that is not defined.
LEMMA ReloadClearKept ==
    ASSUME LogTyped, FormatsFollow, Reloading, FilesFresh,
           ReloadClear \/ \E n \in LogNames : ReloadRemove(n)
    PROVE  LogInv'
<1>1. PICK n \in LogNames :
         /\ ClearAppenders(n) /\ UNCHANGED <<logs, writer, time, lines, file>>
         /\ \/ reload.at = "clear" /\ n = reload.name /\ reload' = [reload EXCEPT !.at = "add"]
            \/ reload.at = "next" /\ reload.todo = {} /\ n \in reload.gone
               /\ reload' = [reload EXCEPT !.gone = reload.gone \ {n}]
  BY ReloadSays DEF ReloadClear, ReloadRemove
<1>2. PICK l \in Loggers :
         /\ LoggerTo(n, l) /\ NoneOpened(logger[n], l) /\ Follow(l)
         /\ l.m_level = logger[n].m_level /\ l.m_appenders = <<>>
  BY <1>1, Cleared
<1>3. FormatsFollow' /\ FilesFresh'
  BY <1>1, <1>2, OneLoggerKept
<1>4. /\ logger' \in [LogNames -> Loggers] /\ logger'[n] = l
      /\ \A m \in LogNames : m # n => logger'[m] = logger[m]
  BY <1>2, OneLogger
<1>5. CASE reload.at = "clear" /\ n = reload.name /\ reload' = [reload EXCEPT !.at = "add"]
  <2>1. reload'.at = "add" /\ reload'.name = n /\ reload'.todo = reload.todo /\ reload'.gone = reload.gone
    BY <1>5, ReloadSays
  <2>2. LogTyped'
    <3>1. "add" \in ReloadSteps
      BY DEF ReloadSteps
    <3> QED BY <1>1, <1>4, <1>5, <3>1, ReloadTyped DEF LogTyped
  <2>3. Reloading'
    <3>1. \A m \in LogNames \ (reload'.todo \cup reload'.gone) :
             AsDefined(m, logger'[m], logs'[m]) \/ (m = reload'.name /\ reload'.at \notin {"idle", "next"})
      <4>1. ASSUME NEW m \in LogNames \ (reload'.todo \cup reload'.gone), m # n
            PROVE  AsDefined(m, logger'[m], logs'[m])
        <5>1. AsDefined(m, logger[m], logs[m])
          BY <1>5, <2>1, <4>1 DEF Reloading
        <5> QED BY <1>1, <1>4, <4>1, <5>1
      <4> QED BY <2>1, <4>1
    <3>2. (\A m \in reload'.todo : logs'[m] # NoDefine) /\ (\A m \in reload'.gone : logs'[m] = NoDefine)
      BY <1>1, <2>1 DEF Reloading
    <3>3. n \notin reload'.todo \cup reload'.gone /\ logs'[n] # NoDefine /\ logger'[n].m_level = logs'[n].level
      BY <1>1, <1>2, <1>4, <1>5, <2>1 DEF Reloading
    <3>4. \A i \in DOMAIN logger'[n].m_appenders : Matches(logger'[n], logs'[n], i)
      BY <1>2, <1>4
    <3> QED BY <2>1, <3>1, <3>2, <3>3, <3>4 DEF Reloading
  <2> QED BY <1>3, <2>2, <2>3 DEF LogInv
<1>6. CASE /\ reload.at = "next" /\ reload.todo = {} /\ n \in reload.gone
           /\ reload' = [reload EXCEPT !.gone = reload.gone \ {n}]
  <2>1. /\ reload' \in [at : ReloadSteps, name : LogNames, todo : SUBSET LogNames,
                        gone : SUBSET LogNames, old : [LogNames -> Casts \cup {NoDefine}]]
        /\ reload'.at = "next" /\ reload'.name = reload.name /\ reload'.todo = {}
        /\ reload'.gone = reload.gone \ {n}
    BY <1>6 DEF LogTyped
  <2>2. LogTyped'
    BY <1>1, <1>4, <2>1 DEF LogTyped
  <2>3. Reloading'
    <3>1. logs[n] = NoDefine
      BY <1>6 DEF Reloading
    <3>2. \A m \in LogNames \ (reload'.todo \cup reload'.gone) : AsDefined(m, logger'[m], logs'[m])
      <4>1. ASSUME NEW m \in LogNames \ (reload'.todo \cup reload'.gone), m # n
            PROVE  AsDefined(m, logger'[m], logs'[m])
        <5>1. AsDefined(m, logger[m], logs[m])
          BY <1>6, <2>1, <4>1 DEF Reloading
        <5> QED BY <1>1, <1>4, <4>1, <5>1
      <4>2. AsDefined(n, logger'[n], logs'[n])
        BY <1>1, <1>2, <1>4, <3>1 DEF AsDefined
      <4> QED BY <4>1, <4>2
    <3>3. \A m \in reload'.gone : logs'[m] = NoDefine
      BY <1>1, <2>1 DEF Reloading
    <3> QED BY <2>1, <3>2, <3>3 DEF Reloading
  <2> QED BY <1>3, <2>2, <2>3 DEF LogInv
<1> QED BY <1>1, <1>5, <1>6

\* The listener adds an appender of the definition.
LEMMA ReloadAddKept ==
    ASSUME LogTyped, FormatsFollow, Reloading, FilesFresh, NEW garbage \in Nat, ReloadAdd(garbage)
    PROVE  LogInv'
<1>1. PICK n \in LogNames : n = reload.name
  BY ReloadSays
<1>2. PICK have \in Nat : have = Len(logger[n].m_appenders)
  BY FieldsSet
<1>3. PICK a : a = NewAppender(logs[n].appenders[have + 1], logger[n], garbage)
  OBVIOUS
<1>4. /\ reload.at = "add" /\ UNCHANGED <<logs, reload, writer, time, lines, file>>
      /\ logger' = [logger EXCEPT ![n].m_appenders = Append(logger[n].m_appenders, a)]
  BY <1>1, <1>2, <1>3 DEF ReloadAdd
<1>5. logs[n] # NoDefine /\ n \notin reload.todo \cup reload.gone
  BY <1>1, <1>4 DEF Reloading
<1>6. PICK own : own = logs[n].appenders[have + 1].formatter
  OBVIOUS
<1>7. /\ a \in Appenders /\ ~a.open /\ a.type = logs[n].appenders[have + 1].type
      /\ a.m_hasFormatter = (own \notin BadPatterns \cup {""})
      /\ a.m_hasFormatter => a.m_formatter = own
      /\ ~a.m_hasFormatter => a.m_formatter = logger[n].m_formatter
  <2>1. PICK ty \in Kinds : ty = logs[n].appenders[have + 1].type
    BY <1>5, CastSays
  <2>2. own \in Patterns /\ logger[n].m_formatter \in Patterns
    BY <1>5, <1>6, CastSays, FieldsSet
  <2>3. PICK b \in BOOLEAN : b = (own \notin BadPatterns \cup {""})
    OBVIOUS
  <2>4. PICK fm \in Patterns : fm = IF b THEN own ELSE logger[n].m_formatter
    BY <2>2
  <2>5. PICK re \in Nat : re = IF IsFile(logs[n].appenders[have + 1]) THEN garbage ELSE 0
    OBVIOUS
  <2>6. a = [type |-> ty, m_hasFormatter |-> b, m_formatter |-> fm, m_reopenTime |-> re, open |-> FALSE]
    BY <1>3, <1>6, <2>1, <2>3, <2>4, <2>5 DEF NewAppender
  <2>7. a \in Appenders
    BY <2>6 DEF Appenders
  <2>8. ~a.open /\ a.type = ty /\ a.m_formatter = fm
    BY <2>6
  <2>9. a.m_hasFormatter = b
    BY <2>6
  <2> QED BY <2>1, <2>3, <2>4, <2>7, <2>8, <2>9
<1>8. PICK l \in Loggers :
         /\ LoggerTo(n, l) /\ NoneOpened(logger[n], l) /\ (Follow(logger[n]) => Follow(l))
         /\ l.m_level = logger[n].m_level
         /\ DOMAIN l.m_appenders = 1 .. have + 1 /\ l.m_appenders[have + 1] = a
         /\ \A i \in DOMAIN logger[n].m_appenders : l.m_appenders[i] = logger[n].m_appenders[i]
  <2>1. \E l \in Loggers :
           /\ LoggerTo(n, l) /\ NoneOpened(logger[n], l) /\ (Follow(logger[n]) => Follow(l))
           /\ l.m_level = logger[n].m_level
           /\ DOMAIN l.m_appenders = 1 .. Len(logger[n].m_appenders) + 1
           /\ l.m_appenders[Len(logger[n].m_appenders) + 1] = a
           /\ \A i \in DOMAIN logger[n].m_appenders : l.m_appenders[i] = logger[n].m_appenders[i]
    BY <1>4, <1>7, Added
  <2> QED BY <1>2, <2>1
<1>9. FormatsFollow' /\ FilesFresh'
  BY <1>4, <1>8, OneLoggerKept
<1>10. /\ logger' \in [LogNames -> Loggers] /\ logger'[n] = l
       /\ \A m \in LogNames : m # n => logger'[m] = logger[m]
  BY <1>8, OneLogger
<1>11. LogTyped'
  BY <1>4, <1>10 DEF LogTyped
<1>12. \A i \in DOMAIN l.m_appenders : Matches(l, logs[n], i)
  <2>1. DOMAIN logger[n].m_appenders = 1 .. have
    <3>1. ASSUME NEW s \in Seq(Appenders) PROVE DOMAIN s = 1 .. Len(s)
      OBVIOUS
    <3> QED BY <1>2, <3>1, FieldsSet
  <2>2. ASSUME NEW i \in 1 .. have PROVE Matches(l, logs[n], i)
    <3>1. Matches(logger[n], logs[n], i)
      BY <1>1, <1>4, <2>1 DEF Reloading
    <3>2. l.m_appenders[i] = logger[n].m_appenders[i]
      BY <1>8, <2>1
    <3> QED BY <3>1, <3>2 DEF Matches
  <2>3. Matches(l, logs[n], have + 1)
    BY <1>6, <1>7, <1>8 DEF Matches
  <2>4. \A i \in 1 .. have + 1 : i \in 1 .. have \/ i = have + 1
    OBVIOUS
  <2> QED BY <1>8, <2>2, <2>3, <2>4
<1>13. Reloading'
  <2>1. \A m \in LogNames \ (reload.todo \cup reload.gone) : m # n => AsDefined(m, logger'[m], logs'[m])
    BY <1>1, <1>4, <1>10 DEF Reloading
  <2>2. (\A m \in reload.todo : logs'[m] # NoDefine) /\ (\A m \in reload.gone : logs'[m] = NoDefine)
    BY <1>4 DEF Reloading
  <2>3. logger'[n].m_level = logs'[n].level
    BY <1>1, <1>4, <1>8, <1>10 DEF Reloading
  <2> QED BY <1>1, <1>4, <1>5, <1>10, <1>12, <2>1, <2>2, <2>3 DEF Reloading
<1> QED BY <1>9, <1>11, <1>13 DEF LogInv
\* The listener is called, goes on to the next definition, or is through.
LEMMA ReloadMovesKept ==
    ASSUME LogTyped, FormatsFollow, Reloading, FilesFresh,
           \/ ReloadNext \/ ReloadEnd
           \/ \E new \in [LogNames -> UNION {LogDefines(n) : n \in LogNames}] :
                 (\A n \in LogNames : new[n] \in LogDefines(n)) /\ ReloadBegin(new)
    PROVE  LogInv'
<1>1. UNCHANGED <<logger, writer, time, lines, file>>
  BY DEF ReloadNext, ReloadEnd, ReloadBegin
<1>2. FormatsFollow' /\ FilesFresh'
  BY <1>1 DEF FormatsFollow, FilesFresh
<1>3. CASE ReloadNext
  <2>1. /\ reload.at = "add" /\ reload' = [reload EXCEPT !.at = "next"] /\ UNCHANGED logs
        /\ Len(logger[reload.name].m_appenders) = Len(logs[reload.name].appenders)
    BY <1>3 DEF ReloadNext
  <2>2. reload'.at = "next" /\ reload'.name = reload.name /\ reload'.todo = reload.todo /\ reload'.gone = reload.gone
    BY <2>1, ReloadSays
  <2>3. LogTyped'
    <3>1. "next" \in ReloadSteps
      BY DEF ReloadSteps
    <3> QED BY <1>1, <2>1, <3>1, ReloadTyped DEF LogTyped
  <2>4. AsDefined(reload.name, logger[reload.name], logs[reload.name])
    BY <2>1 DEF Reloading, AsDefined
  <2>5. Reloading'
    <3>1. \A m \in LogNames \ (reload'.todo \cup reload'.gone) : AsDefined(m, logger'[m], logs'[m])
      BY <1>1, <2>1, <2>2, <2>4 DEF Reloading
    <3>2. (\A m \in reload'.todo : logs'[m] # NoDefine) /\ (\A m \in reload'.gone : logs'[m] = NoDefine)
      BY <2>1, <2>2 DEF Reloading
    <3> QED BY <2>2, <3>1, <3>2 DEF Reloading
  <2> QED BY <1>2, <2>3, <2>5 DEF LogInv
<1>4. CASE ReloadEnd
  <2>1. /\ reload.at = "next" /\ reload.todo = {} /\ reload.gone = {}
        /\ reload' = [reload EXCEPT !.at = "idle", !.old = logs] /\ UNCHANGED logs
    BY <1>4 DEF ReloadEnd
  <2>2. /\ reload' \in [at : ReloadSteps, name : LogNames, todo : SUBSET LogNames,
                        gone : SUBSET LogNames, old : [LogNames -> Casts \cup {NoDefine}]]
        /\ reload'.at = "idle" /\ reload'.todo = {} /\ reload'.gone = {}
    <3>1. PICK r \in LogNames, ds \in [LogNames -> Casts \cup {NoDefine}] : r = reload.name /\ ds = logs
      BY DEF LogTyped
    <3>2. reload' = [at |-> "idle", name |-> r, todo |-> {}, gone |-> {}, old |-> ds]
      BY <2>1, <3>1 DEF LogTyped
    <3>3. "idle" \in ReloadSteps
      BY DEF ReloadSteps
    <3> QED BY <3>1, <3>2, <3>3
  <2>3. LogTyped'
    BY <1>1, <2>1, <2>2 DEF LogTyped
  <2>4. Reloading'
    <3>1. \A m \in LogNames : AsDefined(m, logger'[m], logs'[m])
      BY <1>1, <2>1 DEF Reloading
    <3> QED BY <2>2, <3>1 DEF Reloading
  <2> QED BY <1>2, <2>3, <2>4 DEF LogInv
<1>5. ASSUME NEW new \in [LogNames -> UNION {LogDefines(n) : n \in LogNames}],
             \A n \in LogNames : new[n] \in LogDefines(n), ReloadBegin(new)
      PROVE  LogInv'
  <2>1. PICK todo \in SUBSET LogNames, gone \in SUBSET LogNames :
           /\ todo = {n \in LogNames : new[n] # NoDefine}
           /\ gone = {n \in LogNames : new[n] = NoDefine /\ logs[n] # NoDefine}
    OBVIOUS
  <2>2. /\ reload.at = "idle" /\ logs' = new
        /\ reload' = [at |-> "next", name |-> "root", todo |-> todo, gone |-> gone, old |-> logs]
    BY <1>5, <2>1 DEF ReloadBegin
  <2>3. reload'.at = "next" /\ reload'.name = "root" /\ reload'.todo = todo /\ reload'.gone = gone
    BY <2>2
  <2>4. new \in [LogNames -> Casts \cup {NoDefine}]
    <3>1. ASSUME NEW n \in LogNames PROVE new[n] \in Casts \cup {NoDefine}
      <4>1. new[n] \in {Cast(node) : node \in LogTexts[n]} \cup {NoDefine}
        BY <1>5 DEF LogDefines
      <4> QED BY <4>1 DEF Casts
    <3> QED BY <3>1
  <2>5. LogTyped'
    <3>1. "next" \in ReloadSteps
      BY DEF ReloadSteps
    <3>2. reload' \in [at : ReloadSteps, name : LogNames, todo : SUBSET LogNames, gone : SUBSET LogNames,
                       old : [LogNames -> Casts \cup {NoDefine}]]
      BY <2>1, <2>2, <3>1, LogAssumption DEF LogTyped
    <3> QED BY <1>1, <2>2, <2>4, <3>2 DEF LogTyped
  <2>6. Reloading'
    <3>1. ASSUME NEW m \in LogNames \ (todo \cup gone) PROVE AsDefined(m, logger'[m], logs'[m])
      <4>1. new[m] = NoDefine /\ logs[m] = NoDefine
        BY <2>1
      <4>2. AsDefined(m, logger[m], logs[m])
        BY <2>2 DEF Reloading
      <4> QED BY <1>1, <2>2, <4>1, <4>2
    <3>2. (\A m \in todo : logs'[m] # NoDefine) /\ (\A m \in gone : logs'[m] = NoDefine)
      BY <2>1, <2>2
    <3> QED BY <2>3, <3>1, <3>2 DEF Reloading
  <2> QED BY <1>2, <2>5, <2>6 DEF LogInv
<1> QED BY <1>3, <1>4, <1>5

\* The listener gives a logger its definition's formatter.
LEMMA ReloadFormatKept ==
    ASSUME LogTyped, FormatsFollow, Reloading, FilesFresh, ReloadFormat
    PROVE  LogInv'
<1>1. PICK n \in LogNames : n = reload.name
  BY ReloadSays
<1>2. /\ reload.at = "format" /\ reload' = [reload EXCEPT !.at = "clear"]
      /\ UNCHANGED <<logs, writer, time, lines, file>>
  BY DEF ReloadFormat
<1>3. logs[n] # NoDefine
  BY <1>1, <1>2 DEF Reloading
<1>4. PICK p \in Patterns : p = logs[n].formatter
  <2>1. logs[n].formatter \in Patterns
    <3>1. 0 \in Nat
      OBVIOUS
    <3> QED BY <1>3, <3>1, CastSays
  <2> QED BY <2>1
<1>5. CASE logger' = [logger EXCEPT ![n] = WithFormatter(logger[n], p)]
  BY <1>2, <1>5, RestyleKept
<1>6. CASE UNCHANGED logger
  <2>1. reload'.at = "clear" /\ reload'.name = reload.name /\ reload'.todo = reload.todo /\ reload'.gone = reload.gone
    BY <1>2, ReloadSays
  <2>2. LogTyped'
    <3>1. "clear" \in ReloadSteps
      BY DEF ReloadSteps
    <3> QED BY <1>2, <1>6, <3>1, ReloadTyped DEF LogTyped
  <2>3. FormatsFollow' /\ FilesFresh'
    BY <1>2, <1>6 DEF FormatsFollow, FilesFresh
  <2>4. Reloading'
    BY <1>2, <1>6, <2>1 DEF Reloading
  <2> QED BY <2>2, <2>3, <2>4 DEF LogInv
<1> QED BY <1>1, <1>4, <1>5, <1>6 DEF ReloadFormat

\* The loggers of a new LoggerManager.
LEMMA LogInitInv == LogInit => LogInv
<1> SUFFICES ASSUME LogInit PROVE LogInv
  OBVIOUS
<1>1. PICK r : r = [NewStdout EXCEPT !.m_formatter = Defaults]
  OBVIOUS
<1>2. r = [type |-> "stdout", m_hasFormatter |-> FALSE, m_formatter |-> Defaults,
           m_reopenTime |-> 0, open |-> FALSE]
  BY <1>1 DEF NewStdout
<1>3. r \in Appenders
  BY <1>2 DEF Appenders, Kinds, Patterns
<1>4. logger = [n \in LogNames |-> [m_level |-> INFO, m_formatter |-> Defaults,
                                   m_appenders |-> IF n = "root" THEN <<r>> ELSE <<>>]]
  BY <1>1 DEF LogInit
<1>5. ASSUME NEW n \in LogNames
      PROVE  /\ logger[n] \in Loggers /\ logger[n].m_formatter = Defaults
             /\ logger[n].m_appenders = <<>> \/ (n = "root" /\ logger[n].m_appenders = <<r>>)
  <2>1. PICK as : as = IF n = "root" THEN <<r>> ELSE <<>>
    OBVIOUS
  <2>2. logger[n] = [m_level |-> INFO, m_formatter |-> Defaults, m_appenders |-> as]
    BY <1>4, <2>1
  <2>3. as \in Seq(Appenders)
    BY <1>3, <2>1
  <2>4. INFO \in Levels /\ Defaults \in Patterns
    BY DEF Levels, Patterns
  <2> QED BY <2>1, <2>2, <2>3, <2>4 DEF Loggers
<1>6. ASSUME NEW n \in LogNames, NEW i \in DOMAIN logger[n].m_appenders
      PROVE  n = "root" /\ logger[n].m_appenders[i] = r
  BY <1>5
<1>7. FormatsFollow
  BY <1>2, <1>5, <1>6 DEF FormatsFollow, Follow
<1>8. FilesFresh
  BY <1>2, <1>6 DEF FilesFresh, LogInit
<1>9. \A n \in LogNames : logs[n] = NoDefine /\ AsDefined(n, logger[n], logs[n])
  <2>1. \A n \in LogNames : logs[n] = NoDefine
    BY DEF LogInit
  <2>2. ~IsFile(r)
    BY <1>2 DEF IsFile
  <2> QED BY <1>5, <1>6, <2>1, <2>2 DEF AsDefined
<1>10. reload.at = "idle" /\ reload.todo = {} /\ reload.gone = {}
  BY DEF LogInit
<1>11. Reloading
  BY <1>9, <1>10 DEF Reloading
<1>12. LogTyped
  <2>1. logger \in [LogNames -> Loggers]
    BY <1>4, <1>5
  <2>2. logs \in [LogNames -> Casts \cup {NoDefine}]
    BY DEF LogInit
  <2>3. reload \in [at : ReloadSteps, name : LogNames, todo : SUBSET LogNames, gone : SUBSET LogNames,
                    old : [LogNames -> Casts \cup {NoDefine}]]
    BY <2>2, LogAssumption DEF LogInit, ReloadSteps
  <2>4. writer \in [Writers -> [at : {"idle", "lock", "write", "root"}, name : LogNames, level : Nat]]
    BY LogAssumption DEF LogInit, DEBUG
  <2>5. time \in Nat /\ lines \in Seq(Nat) /\ file \in [LogNames -> SUBSET (1 .. Len(lines))]
    BY DEF LogInit
  <2> QED BY <2>1, <2>2, <2>3, <2>4, <2>5 DEF LogTyped
<1> QED BY <1>7, <1>8, <1>11, <1>12 DEF LogInv

\* Every step of the program, of the threads that log and of the listener.
LEMMA LogNextInv == LogInv /\ [LogNext]_logVars => LogInv'
<1>1. ASSUME LogInv, UNCHANGED logVars
      PROVE  LogInv'
  BY <1>1 DEF LogInv, LogTyped, FormatsFollow, Reloading, FilesFresh, logVars
<1>2. ASSUME LogInv, LogNext
      PROVE  LogInv'
  <2>1. died = "no" /\ LogTyped /\ FormatsFollow /\ Reloading /\ FilesFresh
    BY <1>2 DEF LogInv, LogNext
  <2>2. CASE \/ LogTick
             \/ \E w \in Writers : LogLock(w) \/ \E n \in LogNames, level \in DEBUG .. INFO : LogTest(w, n, level)
    BY <2>1, <2>2, QuietKept
  <2>3. ASSUME NEW w \in Writers, LogWrite(w) PROVE LogInv'
    BY <2>1, <2>3, WriteKept
  <2>4. ASSUME NEW n \in Restyled, SetFormatter(n, "set") PROVE LogInv'
    <3>1. "set" \in Patterns
      BY DEF Patterns
    <3>2. /\ logger' = [logger EXCEPT ![n] = WithFormatter(logger[n], "set")]
          /\ UNCHANGED <<logs, reload, writer, time, lines, file>>
      BY <2>4 DEF SetFormatter
    <3>3. CASE n \in LogNames
      BY <2>1, <3>1, <3>2, <3>3, RestyleKept
    <3>4. CASE n \notin LogNames
      <4>1. UNCHANGED logger
        BY <2>1, <3>2, <3>4 DEF LogTyped
      <4>2. LogTyped'
        BY <2>1, <3>2, <4>1 DEF LogTyped
      <4>3. FormatsFollow' /\ Reloading' /\ FilesFresh'
        BY <2>1, <3>2, <4>1 DEF FormatsFollow, Reloading, FilesFresh
      <4> QED BY <4>2, <4>3 DEF LogInv
    <3> QED BY <3>3, <3>4
  <2>5. ASSUME NEW n \in LogNames, ReloadSet(n) PROVE LogInv'
    BY <2>1, <2>5, ReloadSetKept DEF LogInv
  <2>6. CASE ReloadClear \/ \E n \in LogNames : ReloadRemove(n)
    BY <2>1, <2>6, ReloadClearKept
  <2>7. CASE \/ ReloadNext \/ ReloadEnd
             \/ \E new \in [LogNames -> UNION {LogDefines(n) : n \in LogNames}] :
                   (\A n \in LogNames : new[n] \in LogDefines(n)) /\ ReloadBegin(new)
    BY <2>1, <2>7, ReloadMovesKept
  <2>8. CASE ReloadFormat
    BY <2>1, <2>8, ReloadFormatKept
  <2>9. ASSUME NEW garbage \in 0 .. MaxTime, ReloadAdd(garbage) PROVE LogInv'
    <3>1. garbage \in Nat
      BY LogAssumption
    <3> QED BY <2>1, <2>9, <3>1, ReloadAddKept
  <2> QED BY <1>2, <2>2, <2>3, <2>4, <2>5, <2>6, <2>7, <2>8, <2>9 DEF LogNext
<1> QED BY <1>1, <1>2

\* A line that a step takes out of its file is of an earlier second, while every appender of
\* the logger is open.
LEMMA LinesStayStep ==
    ASSUME LogInv, [LogNext]_logVars
    PROVE  LinesStay
<1>0. LogTyped /\ FilesFresh
  BY DEF LogInv
<1>1. ASSUME NEW n \in LogNames, NEW i \in file[n] \ file'[n],
             \A k \in DOMAIN logger[n].m_appenders : logger[n].m_appenders[k].open
      PROVE  lines[i] # time
  <2>1. PICK w \in Writers : LogWrite(w)
    <3>1. file' # file
      BY <1>1
    <3> QED BY <3>1 DEF LogNext, logVars, LogTick, LogTest, LogLock, SetFormatter, ReloadSet, ReloadRemove,
                        ReloadBegin, ReloadFormat, ReloadClear, ReloadNext, ReloadEnd, ReloadAdd
  <2>2. PICK m \in LogNames : WriteAll(m, Len(lines'))
    BY <1>0, <2>1, LogAssumption DEF LogWrite, LogTyped
  <2>3. Len(lines') \in Nat
    <3>1. lines' \in Seq(Nat)
      BY <1>0, <2>1 DEF LogWrite, LogTyped
    <3> QED BY <3>1
  <2>4. PICK f \in 1 .. Len(logger[m].m_appenders) :
           file' = [file EXCEPT ![m] = FileLog(logger[m].m_appenders[f], file[m], Len(lines')).holds]
    <3>1. file' # file
      BY <1>1
    <3> QED BY <1>0, <2>2, <2>3, <3>1, Written
  <2>5. m = n
    BY <1>0, <1>1, <2>4 DEF LogTyped
  <2>6. PICK a : a = logger[n].m_appenders[f]
    OBVIOUS
  <2>7. f \in DOMAIN logger[n].m_appenders
    <3>1. logger[n].m_appenders \in Seq(Appenders)
      BY <1>0, FieldsSet
    <3> QED BY <2>4, <2>5, <3>1
  <2>8. a.open /\ \A j \in file[n] : lines[j] = time => a.m_reopenTime = time
    BY <1>0, <1>1, <2>6, <2>7 DEF FilesFresh
  <2>9. PICK c : file'[n] = FileLog(a, file[n], c).holds
    BY <1>0, <2>4, <2>5, <2>6 DEF LogTyped
  <2>10. a.m_reopenTime # time
    <3>1. SUFFICES ASSUME a.m_reopenTime = time PROVE i \in file'[n]
      BY <1>1
    <3>2. FileLog(a, file[n], c).holds = file[n] \cup {c}
      BY <2>8, <3>1 DEF FileLog
    <3> QED BY <1>1, <2>9, <3>2
  <2>11. lines[i] = time => a.m_reopenTime = time
    BY <2>8
  <2> QED BY <2>10, <2>11
<1> QED BY <1>1 DEF LinesStay

\* Between reloads the loggers are as defined, by the invariant.
LEMMA LogInvDefined == LogInv => LoggersAsDefined
<1> SUFFICES ASSUME LogInv PROVE LoggersAsDefined
  OBVIOUS
<1>1. \A n \in LogNames : \A i \in DOMAIN logger[n].m_appenders :
         ~logger[n].m_appenders[i].m_hasFormatter =>
            logger[n].m_appenders[i].m_formatter = logger[n].m_formatter
  BY DEF LogInv, FormatsFollow, Follow
<1>2. ASSUME died = "no", reload.at = "idle", NEW n \in LogNames
      PROVE  AsDefined(n, logger[n], logs[n])
  BY <1>2 DEF LogInv, Reloading
<1> QED BY <1>1, <1>2 DEF LoggersAsDefined, AsDefined, Matches

\* With other threads logging all along, each step of a reload leaves appenders formatting as
\* their logger where they have no formatter of their own, the reload ends with the loggers
\* as defined, and no line is lost from a file within its second but to a new appender.
THEOREM LoggersKept == LogSpec => LoggingKept
<1>1. LogInv /\ [LogNext]_logVars => [LoggersAsDefined' /\ LinesStay]_logVars
  <2> SUFFICES ASSUME LogInv, [LogNext]_logVars PROVE LoggersAsDefined' /\ LinesStay
    OBVIOUS
  <2>1. LoggersAsDefined'
    <3>1. LogInv'
      BY LogNextInv
    <3> QED BY <3>1, LogInvDefined, PTL
  <2> QED BY <2>1, LinesStayStep
<1> QED BY <1>1, LogInitInv, LogNextInv, PTL DEF LogSpec, LoggingKept
=============================================================================
