----------------------------- MODULE ConfigVars -----------------------------
(***************************************************************************)
(* Configuration variables (src/config/config.h, config.cpp): Lookup of a  *)
(* name, which creates what it does not find; setValue with its listeners; *)
(* LoadFromYaml.                                                           *)
(*                                                                         *)
(* setValue compares and calls the listeners under the variable's read     *)
(* lock and stores under a write lock taken afterwards; Lookup looks under *)
(* the registry's read lock and creates under a later write lock, without  *)
(* looking again.  A listener here is the usual one: it copies the new     *)
(* value to a static, which was initialised from getValue().               *)
(***************************************************************************)
EXTENDS Naturals, Sequences, FiniteSets

CONSTANTS
    Names,       \* names of variables
    Types,       \* value types: a variable is found only under its own
    Values,      \* values; 0 is the default
    Setters,     \* threads
    Watchers,    \* listeners, each with the copy it keeps
    Malformed,   \* a text that FromStr cannot convert
    MaxVars      \* bound: ConfigVar objects ever created

ASSUME ConfigAssumption == MaxVars \in Nat

VarIds == 1 .. MaxVars

VARIABLES
    s_datas,   \* the registry: the variable under each name, 0 when there is none
    vars_made, \* ConfigVar objects created so far, the type each was created with
    m_val,     \* the value of each variable
    m_cbs,     \* the listeners of each variable
    copy,      \* the value each listener last copied
    held,      \* the variable each thread's last Lookup returned, 0 for a null pointer
    op,        \* the operation each thread is in
    raced,     \* variables on which two operations have overlapped
    doubled    \* names that two threads have been creating at once

configVars == <<s_datas, vars_made, m_val, m_cbs, copy, held, op, raced, doubled>>

Idle == [at |-> "idle"]

ConfigInit ==
    /\ s_datas = [n \in Names |-> 0] /\ vars_made = <<>>
    /\ m_val = [v \in VarIds |-> 0] /\ m_cbs = [v \in VarIds |-> {}]
    /\ copy = [w \in Watchers |-> 0]
    /\ held = [t \in Setters |-> 0]
    /\ op = [t \in Setters |-> Idle]
    /\ raced = {} /\ doubled = {}

OpAt(t, at) == op[t].at = at
Within(t, v) == op[t].at \in {"tell", "store", "listen"} /\ op[t].var = v
Enter(t, v) == raced' = IF \E u \in Setters \ {t} : Within(u, v) THEN raced \cup {v} ELSE raced

\* nobody holds the variable's read lock, as callbacks do while they run
Unlocked(v) == \A t \in Setters : OpAt(t, "tell") => op[t].var # v

\* Lookup<T>(name): NOT_FOUND, FOUND, or TYPE_WRONG, which returns a null pointer
Lookup(t, n, type) ==
    /\ OpAt(t, "idle")
    /\ IF s_datas[n] = 0
          THEN /\ op' = [op EXCEPT ![t] = [at |-> "create", name |-> n, type |-> type]]
               /\ doubled' = IF \E u \in Setters : OpAt(u, "create") /\ op[u].name = n
                                THEN doubled \cup {n} ELSE doubled
               /\ UNCHANGED held
          ELSE /\ held' = [held EXCEPT ![t] =
                      IF vars_made[s_datas[n]] = type THEN s_datas[n] ELSE 0]
               /\ UNCHANGED <<op, doubled>>
    /\ UNCHANGED <<s_datas, vars_made, m_val, m_cbs, copy, raced>>

\* Lookup(name, default): create under the write lock
LookupCreate(t) ==
    /\ OpAt(t, "create") /\ Len(vars_made) < MaxVars
    /\ vars_made' = Append(vars_made, op[t].type)
    /\ s_datas' = [s_datas EXCEPT ![op[t].name] = Len(vars_made')]
    /\ held' = [held EXCEPT ![t] = Len(vars_made')]
    /\ op' = [op EXCEPT ![t] = Idle]
    /\ UNCHANGED <<m_val, m_cbs, copy, raced, doubled>>

\* setValue(): compare, and begin to call the listeners; todo is what LoadFromYaml has left
SetBegin(t, v, x, todo) ==
    /\ Enter(t, v)
    /\ op' = [op EXCEPT ![t] =
           IF x = m_val[v] THEN [at |-> "yaml", todo |-> todo]
                           ELSE [at |-> "tell", var |-> v, new |-> x, tell |-> m_cbs[v], todo |-> todo]]

SetValue(t, x) ==
    /\ OpAt(t, "idle") /\ held[t] # 0
    /\ SetBegin(t, held[t], x, {})
    /\ UNCHANGED <<s_datas, vars_made, m_val, m_cbs, copy, held, doubled>>

TellOld(t, w) ==   \* mutant of Tell: old and new value are swapped
    /\ OpAt(t, "tell") /\ w \in op[t].tell
    /\ copy' = [copy EXCEPT ![w] = m_val[op[t].var]]
    /\ op' = [op EXCEPT ![t].tell = @ \ {w}]
    /\ UNCHANGED <<s_datas, vars_made, m_val, m_cbs, held, raced, doubled>>

\* a listener is called with the new value
Tell(t, w) ==
    /\ OpAt(t, "tell") /\ w \in op[t].tell
    /\ copy' = [copy EXCEPT ![w] = op[t].new]
    /\ op' = [op EXCEPT ![t].tell = @ \ {w}]
    /\ UNCHANGED <<s_datas, vars_made, m_val, m_cbs, held, raced, doubled>>

\* the read lock is released
Told(t) ==
    /\ OpAt(t, "tell") /\ op[t].tell = {}
    /\ op' = [op EXCEPT ![t].at = "store"]
    /\ UNCHANGED <<s_datas, vars_made, m_val, m_cbs, copy, held, raced, doubled>>

\* the value is stored under the write lock
Store(t) ==
    /\ OpAt(t, "store") /\ Unlocked(op[t].var)
    /\ m_val' = [m_val EXCEPT ![op[t].var] = op[t].new]
    /\ op' = [op EXCEPT ![t] = [at |-> "yaml", todo |-> op[t].todo]]
    /\ UNCHANGED <<s_datas, vars_made, m_cbs, copy, held, raced, doubled>>

\* a listener's copy is initialised with getValue() ...
ListenRead(t, w) ==
    /\ OpAt(t, "idle") /\ held[t] # 0
    /\ \A v \in VarIds : w \notin m_cbs[v]
    /\ \A u \in Setters : OpAt(u, "listen") => op[u].who # w
    /\ Enter(t, held[t])
    /\ copy' = [copy EXCEPT ![w] = m_val[held[t]]]
    /\ op' = [op EXCEPT ![t] = [at |-> "listen", var |-> held[t], who |-> w]]
    /\ UNCHANGED <<s_datas, vars_made, m_val, m_cbs, held, doubled>>

\* ... and it is added under the write lock
AddListener(t) ==
    /\ OpAt(t, "listen") /\ Unlocked(op[t].var)
    /\ m_cbs' = [m_cbs EXCEPT ![op[t].var] = @ \cup {op[t].who}]
    /\ op' = [op EXCEPT ![t] = Idle]
    /\ UNCHANGED <<s_datas, vars_made, m_val, copy, held, raced, doubled>>

\* delListener() of one, clearListener() of all
DelListeners(t, gone) ==
    /\ OpAt(t, "idle") /\ held[t] # 0 /\ gone # {} /\ gone \subseteq m_cbs[held[t]]
    /\ Unlocked(held[t])
    /\ m_cbs' = [m_cbs EXCEPT ![held[t]] = @ \ gone]
    /\ UNCHANGED <<s_datas, vars_made, m_val, copy, held, op, raced, doubled>>

\* LoadFromYaml(): a text for some of the names, a node at a time
LoadFromYaml(t, todo) ==
    /\ OpAt(t, "idle") /\ todo # {}
    /\ op' = [op EXCEPT ![t] = [at |-> "yaml", todo |-> todo]]
    /\ UNCHANGED <<s_datas, vars_made, m_val, m_cbs, copy, held, raced, doubled>>

\* LookupBase() and fromString(), which drops what it cannot convert
YamlNode(t) ==
    /\ OpAt(t, "yaml")
    /\ \/ op[t].todo = {} /\ op' = [op EXCEPT ![t] = Idle] /\ UNCHANGED raced
       \/ \E node \in op[t].todo :
             LET v == s_datas[node[1]]
                 rest == op[t].todo \ {node}
             IN  IF v # 0 /\ node[2] # Malformed
                    THEN SetBegin(t, v, node[2], rest)
                    ELSE op' = [op EXCEPT ![t].todo = rest] /\ UNCHANGED raced
    /\ UNCHANGED <<s_datas, vars_made, m_val, m_cbs, copy, held, doubled>>

ConfigNext ==
    \E t \in Setters :
       \/ \E n \in Names, type \in Types : Lookup(t, n, type)
       \/ LookupCreate(t) \/ Told(t) \/ Store(t) \/ AddListener(t) \/ YamlNode(t)
       \/ \E x \in Values : SetValue(t, x)
       \/ \E w \in Watchers : Tell(t, w) \/ ListenRead(t, w)
       \/ \E gone \in SUBSET Watchers : DelListeners(t, gone)
       \/ \E n \in Names, x \in Values \cup {Malformed} : LoadFromYaml(t, {<<n, x>>})

ConfigSpec == ConfigInit /\ [][ConfigNext]_configVars
-----------------------------------------------------------------------------
\* Every listener's copy is the variable's value whenever no operation on the variable is
\* under way, as long as no two operations on it have overlapped; and two threads that look
\* up a name with the same type hold the same variable, the registered one, unless both
\* were creating it at once.
ListenersInStep ==
    /\ \A v \in VarIds \ raced :
          (\A t \in Setters : ~Within(t, v)) => \A w \in m_cbs[v] : copy[w] = m_val[v]
    /\ doubled = {} => \A t \in Setters : held[t] # 0 => \E n \in Names : held[t] = s_datas[n]
=============================================================================
