----------------------------- MODULE TcpServer -----------------------------
(***************************************************************************)
(* TcpServer (src/stream/tcpserver.cpp) with the Socket operations it uses *)
(* (src/socket/async_socket.cpp): bind and listen, the accept loop that    *)
(* runs as a fiber per listening socket, start() and stop().               *)
(*                                                                         *)
(* stop() raises m_isStop at once and leaves closing the sockets to a job  *)
(* of the accept worker, so a loop may be anywhere when its socket goes.   *)
(* The job wakes who waits on a socket and then closes it, in two steps.   *)
(* A loop holds the socket's number in the hooked accept() from the time   *)
(* it reads m_sock; accept() tries, registers the event and waits.         *)
(***************************************************************************)
EXTENDS Naturals, FiniteSets

CONSTANTS
    Listeners,   \* sockets the server may bind, one per address
    LoopIds,     \* identities of accept fibers; bounds how many are ever started
    MaxClients,  \* bound: connections that ever arrive
    MaxStops     \* bound: calls of stop()

ASSUME ServerAssumption ==
    /\ Listeners # {} /\ IsFiniteSet(LoopIds)
    /\ MaxClients \in Nat /\ MaxStops \in Nat

VARIABLES
    m_isStop,   \* as in TcpServer
    m_socks,    \* the server's listening sockets
    sock,       \* each socket: "new", "listening", or "closed" (m_sock = -1)
    loop,       \* the accept fibers: where they are, and on which socket
    stopJobs,   \* jobs of stop() not yet run
    job,        \* the job of stop() that runs: its step, the sockets it has left, the one it is at
    slipped,    \* loops that registered between the wake-up and the close() of their socket
    stops,      \* calls of stop() so far
    backlog,    \* external: connections the kernel holds for each socket
    arrived,    \* external: connections that have arrived
    handled,    \* clients handed to handleClient
    dropped,    \* sockets with a loop that a failed bind() took from m_socks
    restarted,  \* start() came before the last stop() was through: a loop alive, a job to run
    aborted     \* an ASSERT of addEvent has failed

serverVars == <<m_isStop, m_socks, sock, loop, stopJobs, job, slipped, stops, backlog,
                arrived, handled, dropped, restarted, aborted>>

\* jobs run one after the other, and bind() is not called meanwhile: m_socks has no lock
NoJob == [at |-> "none", todo |-> {}, on |-> CHOOSE l \in Listeners : TRUE]

ServerInit ==
    /\ m_isStop = TRUE /\ m_socks = {}
    /\ sock = [l \in Listeners |-> "new"]
    /\ loop = [i \in LoopIds |-> [at |-> "none", on |-> CHOOSE l \in Listeners : TRUE]]
    /\ stopJobs = 0 /\ job = NoJob /\ slipped = {} /\ stops = 0
    /\ backlog = [l \in Listeners |-> 0] /\ arrived = 0 /\ handled = 0
    /\ dropped = {} /\ restarted = FALSE /\ aborted = FALSE

LoopAt(i, at) == loop[i].at = at
Living(i) == loop[i].at \notin {"none", "ended"}
On(i) == loop[i].on          \* the loop's socket
LoopsOn(l) == {i \in LoopIds : Living(i) /\ On(i) = l}
Move(i, at) == loop' = [loop EXCEPT ![i].at = at]

\* bind() of some addresses: Socket::bind and listen() may each fail, and one failure
\* clears m_socks of everything bound before; a socket no fiber holds is then destroyed
Bind(addrs, failed) ==
    /\ addrs # {} /\ failed \subseteq addrs /\ job = NoJob
    /\ \A l \in addrs : sock[l] = "new"
    /\ m_socks' = IF failed = {} THEN m_socks \cup addrs ELSE {}
    /\ sock' = [l \in Listeners |->
           CASE l \in addrs -> IF failed = {} THEN "listening" ELSE "closed"
             [] l \in m_socks /\ failed # {} /\ LoopsOn(l) = {} -> "closed"
             [] OTHER -> sock[l]]
    /\ dropped' = IF failed = {} THEN dropped ELSE dropped \cup {l \in m_socks : LoopsOn(l) # {}}
    /\ UNCHANGED <<m_isStop, loop, stopJobs, job, slipped, stops, backlog, arrived, handled,
                   restarted, aborted>>

\* start(): nothing while the server runs; else one accept fiber per socket
StartServer ==
    /\ m_isStop
    /\ m_isStop' = FALSE
    /\ restarted' = (restarted \/ stopJobs > 0 \/ job # NoJob \/ \E i \in LoopIds : Living(i))
    /\ \E new \in SUBSET {i \in LoopIds : LoopAt(i, "none")} :
          \E f \in [new -> m_socks] :
             /\ {f[i] : i \in new} = m_socks /\ Cardinality(new) = Cardinality(m_socks)
             /\ loop' = [i \in LoopIds |->
                    IF i \in new THEN [at |-> "test", on |-> f[i]] ELSE loop[i]]
    /\ UNCHANGED <<m_socks, sock, stopJobs, job, slipped, stops, backlog, arrived, handled,
                   dropped, aborted>>

\* stop(): raise the flag and schedule the job
StopServer ==
    /\ stops < MaxStops /\ stops' = stops + 1
    /\ m_isStop' = TRUE
    /\ stopJobs' = stopJobs + 1
    /\ UNCHANGED <<m_socks, sock, loop, job, slipped, backlog, arrived, handled, dropped,
                   restarted, aborted>>

\* the job begins with the sockets there are
StopBegins ==
    /\ stopJobs > 0 /\ job = NoJob
    /\ stopJobs' = stopJobs - 1
    /\ job' = [NoJob EXCEPT !.at = "wake", !.todo = m_socks]
    /\ UNCHANGED <<m_isStop, m_socks, sock, loop, slipped, stops, backlog, arrived, handled,
                   dropped, restarted, aborted>>

StopWakesNobody(l) ==   \* mutant of StopWakes: cancelAll() is not called
    /\ job.at = "wake" /\ l \in job.todo
    /\ job' = [job EXCEPT !.at = "close", !.on = l]
    /\ UNCHANGED <<m_isStop, m_socks, sock, loop, stopJobs, slipped, stops, backlog, arrived,
                   handled, dropped, restarted, aborted>>

\* cancelAll(), and cancelAll() again in the hooked close(), wake who waits ...
StopWakes(l) ==
    /\ job.at = "wake" /\ l \in job.todo
    /\ job' = [job EXCEPT !.at = "close", !.on = l]
    /\ loop' = [i \in LoopIds |->
           IF LoopAt(i, "wait") /\ On(i) = l THEN [loop[i] EXCEPT !.at = "try"] ELSE loop[i]]
    /\ UNCHANGED <<m_isStop, m_socks, sock, stopJobs, slipped, stops, backlog, arrived, handled,
                   dropped, restarted, aborted>>

\* ... and the socket is closed, with m_sock = -1
StopCloses ==
    /\ job.at = "close"
    /\ job' = [job EXCEPT !.at = "wake", !.todo = @ \ {job.on}]
    /\ sock' = [sock EXCEPT ![job.on] = "closed"]
    /\ UNCHANGED <<m_isStop, m_socks, loop, stopJobs, slipped, stops, backlog, arrived, handled,
                   dropped, restarted, aborted>>

StopKeepsSocks ==   \* mutant of StopClears: m_socks is not cleared
    /\ job.at = "wake" /\ job.todo = {} /\ job' = NoJob
    /\ UNCHANGED <<m_isStop, m_socks, sock, loop, stopJobs, slipped, stops, backlog, arrived, handled,
                   dropped, restarted, aborted>>

\* the job: m_socks.clear(), which destroys what nobody else holds
StopClears ==
    /\ job.at = "wake" /\ job.todo = {} /\ job' = NoJob
    /\ m_socks' = {}
    /\ sock' = [l \in Listeners |-> IF l \in m_socks /\ LoopsOn(l) = {} THEN "closed" ELSE sock[l]]
    /\ UNCHANGED <<m_isStop, loop, stopJobs, slipped, stops, backlog, arrived, handled, dropped,
                   restarted, aborted>>

\* external: a client connects
ClientArrives(l) ==
    /\ sock[l] = "listening" /\ arrived < MaxClients
    /\ arrived' = arrived + 1
    /\ backlog' = [backlog EXCEPT ![l] = @ + 1]
    /\ UNCHANGED <<m_isStop, m_socks, sock, loop, stopJobs, job, slipped, stops, handled, dropped,
                   restarted, aborted>>

loopOnly == <<m_isStop, m_socks, sock, stopJobs, job, stops, arrived, dropped, restarted>>

\* startAccept(): while (!m_isStop); a loop that ends drops the socket, and destroys a
\* socket nobody else holds
LoopTest(i) ==
    /\ LoopAt(i, "test")
    /\ Move(i, IF m_isStop THEN "ended" ELSE "accept")
    /\ sock' = IF m_isStop /\ On(i) \notin m_socks /\ LoopsOn(On(i)) = {i}
                  THEN [sock EXCEPT ![On(i)] = "closed"] ELSE sock
    /\ UNCHANGED <<m_isStop, m_socks, stopJobs, job, slipped, stops, backlog, arrived, handled,
                   dropped, restarted, aborted>>

\* Socket::accept(): a closed socket has m_sock = -1, and the call fails at once
LoopAccept(i) ==
    /\ LoopAt(i, "accept")
    /\ Move(i, IF sock[On(i)] = "closed" THEN "test" ELSE "try")
    /\ UNCHANGED <<loopOnly, slipped, backlog, handled, aborted>>

\* accept() on the number read before: it fails when that is closed, takes a connection
\* and schedules handleClient, or would block
LoopTry(i) ==
    /\ LoopAt(i, "try")
    /\ \/ sock[On(i)] = "closed" /\ Move(i, "test") /\ UNCHANGED <<backlog, handled>>
       \/ /\ sock[On(i)] = "listening" /\ backlog[On(i)] > 0
          /\ backlog' = [backlog EXCEPT ![On(i)] = @ - 1]
          /\ handled' = handled + 1
          /\ Move(i, "test")
       \/ /\ sock[On(i)] = "listening" /\ backlog[On(i)] = 0
          /\ Move(i, "register") /\ UNCHANGED <<backlog, handled>>
    /\ UNCHANGED <<loopOnly, slipped, aborted>>

\* addEvent(READ) and the yield: it fails on a closed number, and asserts that nobody
\* else waits for the same event
LoopRegister(i) ==
    /\ LoopAt(i, "register")
    /\ aborted' = (aborted \/ \E j \in LoopIds : LoopAt(j, "wait") /\ On(j) = On(i))
    /\ Move(i, IF sock[On(i)] = "closed" THEN "test" ELSE "wait")
    /\ slipped' = IF job.at = "close" /\ job.on = On(i) THEN slipped \cup {i} ELSE slipped
    /\ UNCHANGED <<loopOnly, backlog, handled>>

\* the event fires
LoopWoken(i) ==
    /\ LoopAt(i, "wait") /\ sock[On(i)] = "listening" /\ backlog[On(i)] > 0
    /\ Move(i, "try")
    /\ UNCHANGED <<loopOnly, slipped, backlog, handled, aborted>>

ServerNext ==
    /\ ~aborted
    /\ \/ \E addrs \in SUBSET Listeners : \E failed \in SUBSET addrs : Bind(addrs, failed)
       \/ StartServer \/ StopServer \/ StopBegins \/ StopCloses \/ StopClears
       \/ \E l \in Listeners : ClientArrives(l) \/ StopWakes(l)
       \/ \E i \in LoopIds : LoopTest(i) \/ LoopAccept(i) \/ LoopTry(i) \/ LoopRegister(i) \/ LoopWoken(i)

ServerSpec == ServerInit /\ [][ServerNext]_serverVars
-----------------------------------------------------------------------------
\* A stopped server leaves no accept loop behind: no fiber waits on a socket that has been
\* closed, wherever it was in accept() when that happened; and once the jobs of stop() have
\* run none waits at all.  But for a socket that a failed bind() had taken from m_socks, for
\* start() before an earlier stop() was through, and for a loop that slips in between the
\* wake-up and close(): nobody will wake that one.
StoppedLoopsEnd ==
    \A i \in LoopIds \ slipped : LoopAt(i, "wait") =>
       /\ sock[On(i)] = "listening"
       /\ (m_isStop /\ stopJobs = 0 /\ job = NoJob /\ ~restarted) => On(i) \in dropped

\* As long as start() waits until the last stop() is through (its loops ended, its job run)
\* a socket has one accept loop, addEvent's ASSERT holds, and no loop spins on a closed
\* socket with m_isStop lowered.
OneLoopPerSocket ==
    ~restarted =>
       /\ ~aborted
       /\ \A l \in Listeners : Cardinality(LoopsOn(l)) <= 1
       /\ \A i \in LoopIds : Living(i) /\ ~m_isStop => sock[On(i)] = "listening"
=============================================================================
