--------------------------- MODULE ConnectionPool ---------------------------
(***************************************************************************)
(* HttpConnectionPool (src/HTTP/http_connection.cpp): getConnection(), one *)
(* request on the connection it returns, and ReleasePtr(), the deleter     *)
(* that runs when the caller drops its pointer.                            *)
(*                                                                         *)
(* Only m_conns is under m_mutex.  The clock is read before the lock, the  *)
(* invalid connections are deleted after it, and m_total is an atomic that *)
(* each caller adjusts in a step of its own.                               *)
(***************************************************************************)
EXTENDS Integers, Sequences, FiniteSets, SequencesExt

CONSTANTS
    PoolUsers,     \* threads that use the pool
    Conns,         \* identities of HttpConnection objects
    NoConn,        \* the null pointer
    MaxAliveTime,  \* m_maxAliveTime
    MaxRequest,    \* m_maxRequest
    MaxClock       \* bound: the last value of the clock

\* a pool that serves a connection at all; at 0 the first request would still be sent
ASSUME PoolAssumption ==
    /\ IsFiniteSet(PoolUsers) /\ IsFiniteSet(Conns) /\ NoConn \notin Conns
    /\ MaxRequest \in Nat \ {0}

\* the HttpResult::Error values of a request for which there is a connection
Outcomes == {"OK", "SEND_CLOSE", "SEND_ERROR", "RECV_TIMEOUT"}

VARIABLES
    clock,       \* GetCurrentMS()
    m_conns,     \* the idle connections, oldest first
    m_total,     \* the pool's counter
    connection,  \* the objects: alive, isConnected(), m_createTime, m_request
    user         \* where each thread is, and its locals

poolVars == <<clock, m_conns, m_total, connection, user>>

Alive == {c \in Conns : connection[c].alive}

Freed == [alive |-> FALSE, connected |-> FALSE, createTime |-> 0, requests |-> 0]

PoolInit ==
    /\ clock = 0 /\ m_conns = <<>> /\ m_total = 0
    /\ connection = [c \in Conns |-> Freed]
    /\ user = [u \in PoolUsers |->
           [pc |-> "idle", now |-> 0, ptr |-> NoConn, invalid |-> <<>>]]

\* external: GetCurrentMS()
PoolTick == clock < MaxClock /\ clock' = clock + 1 /\ UNCHANGED <<m_conns, m_total, connection, user>>

PoolAt(u, pc) == user[u].pc = pc

\* thread u goes on at pc with these locals
Becomes(u, pc, now, ptr, invalid) ==
    user' = [user EXCEPT ![u] = [pc |-> pc, now |-> now, ptr |-> ptr, invalid |-> invalid]]

Delete(S) == connection' = [c \in Conns |-> IF c \in S THEN Freed ELSE connection[c]]

\* getConnection(): now_ms is read before the lock is taken
ReadClock(u) ==
    /\ PoolAt(u, "idle")
    /\ Becomes(u, "lock", clock, NoConn, <<>>)
    /\ UNCHANGED <<clock, m_conns, m_total, connection>>

Outlived(c, now) == connection[c].createTime + MaxAliveTime < now

Invalid(c, now) == ~connection[c].connected \/ Outlived(c, now)

\* the place in the list of the first connection that is valid at now, 0 when there is none
FirstValid(now) == SelectInSeq(m_conns, LAMBDA c : ~Invalid(c, now))

TakeUnpopped(u) ==   \* mutant of TakeConnection: the connection is left in the list
    /\ PoolAt(u, "lock")
    /\ LET first == FirstValid(user[u].now)
           last  == IF first = 0 THEN Len(m_conns) ELSE first - 1
       IN  /\ m_conns' = SubSeq(m_conns, last + 1, Len(m_conns))
           /\ Becomes(u, "clean", user[u].now, IF first = 0 THEN NoConn ELSE m_conns[first],
                      SubSeq(m_conns, 1, last))
    /\ UNCHANGED <<clock, m_total, connection>>

\* getConnection() under m_mutex: pop until a valid connection turns up
TakeConnection(u) ==
    /\ PoolAt(u, "lock")
    /\ LET first == FirstValid(user[u].now)
           last  == IF first = 0 THEN Len(m_conns) ELSE first
       IN  /\ m_conns' = SubSeq(m_conns, last + 1, Len(m_conns))
           /\ Becomes(u, "clean", user[u].now, IF first = 0 THEN NoConn ELSE m_conns[first],
                      SubSeq(m_conns, 1, IF first = 0 THEN last ELSE last - 1))
    /\ UNCHANGED <<clock, m_total, connection>>

\* after the unlock: delete what was invalid ...
DeleteInvalid(u) ==
    /\ PoolAt(u, "clean")
    /\ Delete(ToSet(user[u].invalid))
    /\ user' = [user EXCEPT ![u].pc = "subtract"]
    /\ UNCHANGED <<clock, m_conns, m_total>>

\* ... and m_total -= invalid_conns.size()
SubtractInvalid(u) ==
    /\ PoolAt(u, "subtract")
    /\ m_total' = m_total - Len(user[u].invalid)
    /\ Becomes(u, IF user[u].ptr = NoConn THEN "connect" ELSE "request", user[u].now, user[u].ptr, <<>>)
    /\ UNCHANGED <<clock, m_conns, connection>>

\* no connection left: look up, create and connect a socket, each of which may fail
ConnectFails(u) ==
    /\ PoolAt(u, "connect")
    /\ user' = [user EXCEPT ![u].pc = "idle"]
    /\ UNCHANGED <<clock, m_conns, m_total, connection>>

Connect(u) ==
    /\ PoolAt(u, "connect")
    /\ \E c \in Conns \ Alive :
          /\ connection' = [connection EXCEPT ![c] =
                 [alive |-> TRUE, connected |-> TRUE, createTime |-> clock, requests |-> 0]]
          /\ Becomes(u, "add", user[u].now, c, <<>>)
    /\ UNCHANGED <<clock, m_conns, m_total>>

AddTotal(u) ==
    /\ PoolAt(u, "add")
    /\ m_total' = m_total + 1
    /\ user' = [user EXCEPT ![u].pc = "request"]
    /\ UNCHANGED <<clock, m_conns, connection>>

\* DoRequest(): a response that does not come closes the connection (recvResponse),
\* a request that cannot be sent does not
PoolRequest(u, outcome) ==
    /\ PoolAt(u, "request")
    /\ user' = [user EXCEPT ![u].pc = "release"]
    /\ connection' = [connection EXCEPT ![user[u].ptr].connected = @ /\ outcome # "RECV_TIMEOUT"]
    /\ UNCHANGED <<clock, m_conns, m_total>>

\* the test of ReleasePtr(), with the comparison the code makes
Discards(c, requests) ==
    \/ ~connection[c].connected
    \/ connection[c].createTime + MaxAliveTime >= clock
    \/ requests >= MaxRequest

\* ReleasePtr(): count the request, then delete the connection or keep it
ReleasePtr(u) ==
    /\ PoolAt(u, "release")
    /\ LET c == user[u].ptr
           n == connection[c].requests + 1
       IN  /\ connection' = [connection EXCEPT ![c] =
                  IF Discards(c, n) THEN Freed ELSE [@ EXCEPT !.requests = n]]
           /\ IF Discards(c, n) THEN Becomes(u, "decrement", user[u].now, NoConn, <<>>)
                                ELSE Becomes(u, "push", user[u].now, c, <<>>)
    /\ UNCHANGED <<clock, m_conns, m_total>>

Decrement(u) ==
    /\ PoolAt(u, "decrement")
    /\ m_total' = m_total - 1
    /\ user' = [user EXCEPT ![u].pc = "idle"]
    /\ UNCHANGED <<clock, m_conns, connection>>

PushBack(u) ==
    /\ PoolAt(u, "push")
    /\ m_conns' = Append(m_conns, user[u].ptr)
    /\ Becomes(u, "idle", user[u].now, NoConn, <<>>)
    /\ UNCHANGED <<clock, m_total, connection>>

PoolNext ==
    \/ PoolTick
    \/ \E u \in PoolUsers :
          \/ ReadClock(u) \/ TakeConnection(u) \/ DeleteInvalid(u) \/ SubtractInvalid(u)
          \/ ConnectFails(u) \/ Connect(u) \/ AddTotal(u)
          \/ \E outcome \in Outcomes : PoolRequest(u, outcome)
          \/ ReleasePtr(u) \/ Decrement(u) \/ PushBack(u)

PoolSpec == PoolInit /\ [][PoolNext]_poolVars
-----------------------------------------------------------------------------
\* the connections thread u holds: the one in use and those it is to delete
Held(u) == (IF PoolAt(u, "clean") THEN ToSet(user[u].invalid) ELSE {})
               \cup ({user[u].ptr} \ {NoConn})

\* the deletions that thread u has still to subtract from m_total
Unsubtracted(u) == CASE PoolAt(u, "subtract")  -> Len(user[u].invalid)
                     [] PoolAt(u, "decrement") -> 1
                     [] OTHER                  -> 0

\* all of those, each a pair of its thread and a number; and the threads with one to add
Owed == UNION {{u} \X (1 .. Unsubtracted(u)) : u \in PoolUsers}
Unadded == {u \in PoolUsers : PoolAt(u, "add")}

\* Every connection has one owner: no thread reaches a deleted object, an object that is
\* alive is idle once or held by exactly one thread, never both and never lost; and one
\* that is handed out has served fewer than m_maxRequest requests.
PoolOneOwner ==
    /\ IsInjective(m_conns)
    /\ \A u \in PoolUsers : Held(u) \cap ToSet(m_conns) = {}
    /\ \A u, v \in PoolUsers : u # v => Held(u) \cap Held(v) = {}
    /\ Alive = ToSet(m_conns) \cup UNION {Held(u) : u \in PoolUsers}
    /\ \A u \in PoolUsers : PoolAt(u, "request") => connection[user[u].ptr].requests < MaxRequest

\* m_total counts the connections that are alive, up to the adjustments that threads
\* between a deletion or a creation and its counting still owe; so it is never negative
\* and is exact whenever nobody is inside the pool.
PoolTotalExact ==
    /\ m_total = Cardinality(Alive) + Cardinality(Owed) - Cardinality(Unadded)
    /\ m_total >= 0

\* The pool owns what it counts: connections with one owner each, and their exact number,
\* although deletions and m_total are outside the lock.
PoolOwned == PoolOneOwner /\ PoolTotalExact
=============================================================================
