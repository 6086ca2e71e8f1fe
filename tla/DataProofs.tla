----------------------------- MODULE DataProofs -----------------------------
(***************************************************************************)
(* Proofs about the parts that keep data: the configuration variables, the *)
(* HTTP connection pool and the byte array.                                *)
(***************************************************************************)
EXTENDS ConfigVars, ConnectionPool, ByteArray, FiniteSetTheorems, WellFoundedInduction, TLAPS

-----------------------------------------------------------------------------
(* ConfigVars: the listeners' copies and the registry.                     *)

\* what a thread may be doing: an operation and what it has left of it
ConfigOps ==
    LET YamlTexts == SUBSET (Names \X (Values \cup {Malformed})) IN
    [at : {"idle"}] \cup [at : {"create"}, name : Names, type : Types]
       \cup [at : {"tell", "store"}, var : VarIds, new : Values, tell : SUBSET Watchers, todo : YamlTexts]
       \cup [at : {"yaml"}, todo : YamlTexts] \cup [at : {"listen"}, var : VarIds, who : Watchers]

\* the types of ConfigVars
ConfigTyped ==
    /\ s_datas \in [Names -> 0 .. MaxVars] /\ held \in [Setters -> 0 .. MaxVars]
    /\ Len(vars_made) \in 0 .. MaxVars
    /\ m_val \in [VarIds -> Values \cup {0}] /\ m_cbs \in [VarIds -> SUBSET Watchers]
    /\ copy \in [Watchers -> Values \cup {0}]
    /\ op \in [Setters -> ConfigOps]

\* a listener listens to one variable, and is told only by operations on it
CallbacksApart ==
    /\ \A v, x \in VarIds : \A w \in m_cbs[v] : w \in m_cbs[x] => v = x
    /\ \A t \in Setters : OpAt(t, "listen") =>
          /\ \A v \in VarIds : op[t].who \notin m_cbs[v]
          /\ \A u \in Setters \ {t} : OpAt(u, "listen") => op[u].who # op[t].who
    /\ \A t \in Setters : OpAt(t, "tell") => op[t].tell \subseteq m_cbs[op[t].var]

\* how far the one operation on a variable has brought the listeners' copies
CopiesOf(v) ==
    /\ \A t, u \in Setters : Within(t, v) /\ Within(u, v) => t = u
    /\ (\A t \in Setters : ~Within(t, v)) => \A w \in m_cbs[v] : copy[w] = m_val[v]
    /\ \A t \in Setters : Within(t, v) =>
          /\ OpAt(t, "tell") => \A w \in m_cbs[v] \ op[t].tell : copy[w] = op[t].new
          /\ OpAt(t, "store") => \A w \in m_cbs[v] : copy[w] = op[t].new
          /\ OpAt(t, "listen") => /\ copy[op[t].who] = m_val[v]
                                  /\ \A w \in m_cbs[v] : copy[w] = m_val[v]

CopiesKept == \A v \in VarIds \ raced : CopiesOf(v)

\* who creates a name is alone at it, and every variable in use is registered
NamesKept ==
    doubled = {} =>
       /\ \A t \in Setters : OpAt(t, "create") =>
             /\ s_datas[op[t].name] = 0
             /\ \A u \in Setters \ {t} : OpAt(u, "create") => op[u].name # op[t].name
       /\ \A t \in Setters : held[t] # 0 => \E n \in Names : held[t] = s_datas[n]

ConfigInv == ConfigTyped /\ CallbacksApart /\ CopiesKept /\ NamesKept

\* What the record of an operation holds.
LEMMA OpShapes ==
    ASSUME ConfigTyped, NEW t \in Setters
    PROVE  /\ OpAt(t, "create") => op[t] \in [at : {"create"}, name : Names, type : Types]
           /\ OpAt(t, "tell") \/ OpAt(t, "store") =>
                 op[t] \in [at : {"tell", "store"}, var : VarIds, new : Values, tell : SUBSET Watchers,
                            todo : SUBSET (Names \X (Values \cup {Malformed}))]
           /\ OpAt(t, "yaml") => op[t] \in [at : {"yaml"}, todo : SUBSET (Names \X (Values \cup {Malformed}))]
           /\ OpAt(t, "listen") => op[t] \in [at : {"listen"}, var : VarIds, who : Watchers]
<1>1. op[t] \in ConfigOps
  BY DEF ConfigTyped
<1> QED BY <1>1 DEF ConfigOps, OpAt

\* Nothing is registered and no thread is at work.
LEMMA ConfigStart == ConfigInit => ConfigInv
<1> SUFFICES ASSUME ConfigInit PROVE ConfigInv
  OBVIOUS
<1>1. Idle \in ConfigOps /\ Idle.at = "idle"
  BY DEF Idle, ConfigOps
<1>2. ConfigTyped
  BY <1>1, ConfigAssumption DEF ConfigInit, ConfigTyped
<1>3. CallbacksApart /\ CopiesKept /\ NamesKept
  BY <1>1 DEF ConfigInit, CallbacksApart, CopiesKept, CopiesOf, NamesKept, OpAt, Within
<1> QED BY <1>2, <1>3 DEF ConfigInv

\* The operation that setValue() leaves behind: nothing to tell, or a thread about to tell.
LEMMA SetEffect ==
    ASSUME ConfigTyped, NEW t \in Setters, NEW v \in VarIds, NEW x \in Values,
           NEW todo \in SUBSET (Names \X (Values \cup {Malformed})), SetBegin(t, v, x, todo)
    PROVE  /\ op' \in [Setters -> ConfigOps] /\ \A u \in Setters \ {t} : op'[u] = op[u]
           /\ raced \subseteq raced'
           /\ v \notin raced' => \A u \in Setters \ {t} : ~Within(u, v)
           /\ \/ op'[t] = [at |-> "yaml", todo |-> todo]
              \/ op'[t] = [at |-> "tell", var |-> v, new |-> x, tell |-> m_cbs[v], todo |-> todo]
<1> USE DEF ConfigTyped
<1>1. [at |-> "yaml", todo |-> todo] \in ConfigOps
  BY DEF ConfigOps
<1>2. [at |-> "tell", var |-> v, new |-> x, tell |-> m_cbs[v], todo |-> todo] \in ConfigOps
  BY DEF ConfigOps
<1>3. /\ raced \subseteq raced'
      /\ v \notin raced' => \A u \in Setters \ {t} : ~Within(u, v)
  BY DEF SetBegin, Enter
<1>4. CASE x = m_val[v]
  <2>1. op' = [op EXCEPT ![t] = [at |-> "yaml", todo |-> todo]]
    BY <1>4 DEF SetBegin
  <2> QED BY <1>1, <1>3, <2>1
<1>5. CASE x # m_val[v]
  <2>1. op' = [op EXCEPT ![t] = [at |-> "tell", var |-> v, new |-> x, tell |-> m_cbs[v], todo |-> todo]]
    BY <1>5 DEF SetBegin
  <2> QED BY <1>2, <1>3, <2>1
<1> QED BY <1>4, <1>5

\* the thread begins to tell the listeners of v of the value x, alone with v unless v has raced
Begins(t, v, x) ==
    /\ v \notin raced' => \A u \in Setters \ {t} : ~Within(u, v)
    /\ \E todo : op'[t] = [at |-> "tell", var |-> v, new |-> x, tell |-> m_cbs[v], todo |-> todo]

\* A step of setValue(), or of LoadFromYaml(), touches nothing but the thread's own operation.
LEMMA SetSteps ==
    ASSUME ConfigTyped, NEW t \in Setters, (\E x \in Values : SetValue(t, x)) \/ YamlNode(t)
    PROVE  /\ UNCHANGED <<s_datas, vars_made, m_val, m_cbs, copy, held, doubled>>
           /\ op' \in [Setters -> ConfigOps] /\ \A u \in Setters \ {t} : op'[u] = op[u]
           /\ raced \subseteq raced' /\ op[t].at \in {"idle", "yaml"}
           /\ op'[t].at \in {"idle", "yaml"} \/ \E v \in VarIds, x \in Values : Begins(t, v, x)
<1> USE DEF ConfigTyped
<1>1. ASSUME NEW v \in VarIds, NEW x \in Values,
             NEW todo \in SUBSET (Names \X (Values \cup {Malformed})), SetBegin(t, v, x, todo)
      PROVE  /\ op' \in [Setters -> ConfigOps] /\ \A u \in Setters \ {t} : op'[u] = op[u]
             /\ raced \subseteq raced'
             /\ op'[t].at \in {"idle", "yaml"} \/ Begins(t, v, x)
  <2>1. CASE op'[t] = [at |-> "yaml", todo |-> todo]
    <3>1. op'[t].at = "yaml"
      BY <2>1
    <3> QED BY <1>1, <3>1, SetEffect
  <2>2. CASE op'[t] # [at |-> "yaml", todo |-> todo]
    <3>1. op'[t] = [at |-> "tell", var |-> v, new |-> x, tell |-> m_cbs[v], todo |-> todo]
      BY <1>1, <2>2, SetEffect
    <3>2. v \notin raced' => \A u \in Setters \ {t} : ~Within(u, v)
      BY <1>1, SetEffect
    <3>3. Begins(t, v, x)
      BY <3>1, <3>2 DEF Begins
    <3> QED BY <1>1, <3>3, SetEffect
  <2> QED BY <2>1, <2>2
<1>2. ASSUME NEW x \in Values, SetValue(t, x)
      PROVE  /\ op' \in [Setters -> ConfigOps] /\ \A u \in Setters \ {t} : op'[u] = op[u]
             /\ raced \subseteq raced'
             /\ op'[t].at \in {"idle", "yaml"} \/ \E v \in VarIds : Begins(t, v, x)
  <2>1. held[t] \in VarIds
    BY <1>2, ConfigAssumption DEF SetValue, VarIds
  <2>2. SetBegin(t, held[t], x, {})
    BY <1>2 DEF SetValue
  <2> QED BY <1>1, <2>1, <2>2
<1>3. ASSUME YamlNode(t)
      PROVE  /\ op' \in [Setters -> ConfigOps] /\ \A u \in Setters \ {t} : op'[u] = op[u]
             /\ raced \subseteq raced'
             /\ op'[t].at \in {"idle", "yaml"} \/ \E v \in VarIds, x \in Values : Begins(t, v, x)
  <2>1. op[t] \in [at : {"yaml"}, todo : SUBSET (Names \X (Values \cup {Malformed}))]
    BY <1>3, OpShapes DEF YamlNode
  <2>2. ASSUME NEW todo \in SUBSET (Names \X (Values \cup {Malformed}))
        PROVE  [op[t] EXCEPT !.todo = todo] = [at |-> "yaml", todo |-> todo]
    BY <2>1
  <2>3. CASE op[t].todo = {} /\ op' = [op EXCEPT ![t] = Idle] /\ UNCHANGED raced
    <3>1. Idle \in ConfigOps /\ Idle.at = "idle"
      BY DEF Idle, ConfigOps
    <3> QED BY <1>3, <2>3, <3>1 DEF YamlNode, OpAt
  <2>4. ASSUME NEW node \in op[t].todo,
               IF s_datas[node[1]] # 0 /\ node[2] # Malformed
                  THEN SetBegin(t, s_datas[node[1]], node[2], op[t].todo \ {node})
                  ELSE op' = [op EXCEPT ![t].todo = op[t].todo \ {node}] /\ UNCHANGED raced
        PROVE  /\ op' \in [Setters -> ConfigOps] /\ \A u \in Setters \ {t} : op'[u] = op[u]
               /\ raced \subseteq raced'
               /\ op'[t].at \in {"idle", "yaml"} \/ \E v \in VarIds, x \in Values : Begins(t, v, x)
    <3>1. node[1] \in Names /\ node[2] \in Values \cup {Malformed}
      BY <2>1
    <3>2. op[t].todo \ {node} \in SUBSET (Names \X (Values \cup {Malformed}))
      BY <2>1
    <3>3. CASE s_datas[node[1]] # 0 /\ node[2] # Malformed
      <4>1. s_datas[node[1]] \in VarIds /\ node[2] \in Values
        BY <3>1, <3>3, ConfigAssumption DEF VarIds
      <4>2. SetBegin(t, s_datas[node[1]], node[2], op[t].todo \ {node})
        BY <2>4, <3>3
      <4> QED BY <1>1, <3>2, <4>1, <4>2
    <3>4. CASE ~(s_datas[node[1]] # 0 /\ node[2] # Malformed)
      <4>1. op' = [op EXCEPT ![t] = [at |-> "yaml", todo |-> op[t].todo \ {node}]] /\ UNCHANGED raced
        BY <2>2, <2>4, <3>2, <3>4
      <4>2. [at |-> "yaml", todo |-> op[t].todo \ {node}] \in ConfigOps
        BY <3>2 DEF ConfigOps
      <4> QED BY <4>1, <4>2
    <3> QED BY <3>3, <3>4
  <2>5. \/ op[t].todo = {} /\ op' = [op EXCEPT ![t] = Idle] /\ UNCHANGED raced
        \/ \E node \in op[t].todo :
              IF s_datas[node[1]] # 0 /\ node[2] # Malformed
                 THEN SetBegin(t, s_datas[node[1]], node[2], op[t].todo \ {node})
                 ELSE op' = [op EXCEPT ![t].todo = op[t].todo \ {node}] /\ UNCHANGED raced
    BY <1>3 DEF YamlNode
  <2> QED BY <2>3, <2>4, <2>5
<1>4. /\ UNCHANGED <<s_datas, vars_made, m_val, m_cbs, copy, held, doubled>>
      /\ op[t].at \in {"idle", "yaml"}
  BY DEF SetValue, YamlNode, OpAt
<1> QED BY <1>2, <1>3, <1>4

\* The steps of an operation that tells the listeners change nothing else of it.
LEMMA TellSteps ==
    ASSUME ConfigTyped, NEW t \in Setters
    PROVE  /\ \A w \in Watchers : Tell(t, w) =>
                 op' = [op EXCEPT ![t] = [at |-> "tell", var |-> op[t].var, new |-> op[t].new,
                                          tell |-> op[t].tell \ {w}, todo |-> op[t].todo]]
           /\ Told(t) => op' = [op EXCEPT ![t] = [at |-> "store", var |-> op[t].var, new |-> op[t].new,
                                                  tell |-> {}, todo |-> op[t].todo]]
<1>1. ASSUME NEW w \in Watchers, Tell(t, w)
      PROVE  op' = [op EXCEPT ![t] = [at |-> "tell", var |-> op[t].var, new |-> op[t].new,
                                      tell |-> op[t].tell \ {w}, todo |-> op[t].todo]]
  <2>1. op[t] \in [at : {"tell", "store"}, var : VarIds, new : Values, tell : SUBSET Watchers,
                   todo : SUBSET (Names \X (Values \cup {Malformed}))] /\ op[t].at = "tell"
    BY <1>1, OpShapes DEF Tell, OpAt
  <2>2. [op[t] EXCEPT !.tell = op[t].tell \ {w}]
           = [at |-> "tell", var |-> op[t].var, new |-> op[t].new, tell |-> op[t].tell \ {w},
              todo |-> op[t].todo]
    BY <2>1
  <2> QED BY <1>1, <2>2 DEF Tell
<1>2. ASSUME Told(t)
      PROVE  op' = [op EXCEPT ![t] = [at |-> "store", var |-> op[t].var, new |-> op[t].new,
                                      tell |-> {}, todo |-> op[t].todo]]
  <2>1. op[t] \in [at : {"tell", "store"}, var : VarIds, new : Values, tell : SUBSET Watchers,
                   todo : SUBSET (Names \X (Values \cup {Malformed}))]
        /\ op[t].at = "tell" /\ op[t].tell = {}
    BY <1>2, OpShapes DEF Told, OpAt
  <2>2. [op[t] EXCEPT !.at = "store"]
           = [at |-> "store", var |-> op[t].var, new |-> op[t].new, tell |-> op[t].tell, todo |-> op[t].todo]
    <3>1. PICK var, new, tell, todo :
             op[t] = [at |-> "tell", var |-> var, new |-> new, tell |-> tell, todo |-> todo]
      BY <2>1
    <3> QED BY <3>1
  <2> QED BY <1>2, <2>1, <2>2 DEF Told
<1> QED BY <1>1, <1>2

\* the steps of thread t
ConfigSteps(t) ==
    \/ \E n \in Names, type \in Types : Lookup(t, n, type)
    \/ LookupCreate(t) \/ Told(t) \/ Store(t) \/ AddListener(t) \/ YamlNode(t)
    \/ \E x \in Values : SetValue(t, x)
    \/ \E w \in Watchers : Tell(t, w) \/ ListenRead(t, w)
    \/ \E gone \in SUBSET Watchers : DelListeners(t, gone)
    \/ \E n \in Names, x \in Values \cup {Malformed} : LoadFromYaml(t, {<<n, x>>})

\* Every variable stays in its type.
LEMMA ConfigTypesKept ==
    ASSUME ConfigTyped, NEW t \in Setters, ConfigSteps(t)
    PROVE  ConfigTyped'
<1> USE DEF ConfigTyped
<1>0. Idle \in ConfigOps
  BY DEF Idle, ConfigOps
<1>1. ASSUME NEW n \in Names, NEW type \in Types, Lookup(t, n, type)
      PROVE  ConfigTyped'
  <2>1. [at |-> "create", name |-> n, type |-> type] \in ConfigOps
    BY DEF ConfigOps
  <2>2. s_datas[n] \in 0 .. MaxVars /\ 0 \in 0 .. MaxVars
    BY ConfigAssumption
  <2>3. op' \in [Setters -> ConfigOps]
    BY <1>1, <2>1 DEF Lookup
  <2>4. held' \in [Setters -> 0 .. MaxVars]
    <3>1. CASE s_datas[n] = 0
      BY <1>1, <3>1 DEF Lookup
    <3>2. CASE s_datas[n] # 0
      <4>1. PICK v \in 0 .. MaxVars : held' = [held EXCEPT ![t] = v]
        BY <1>1, <2>2, <3>2 DEF Lookup
      <4> QED BY <4>1
    <3> QED BY <3>1, <3>2
  <2> QED BY <1>1, <2>3, <2>4 DEF Lookup
<1>2. CASE LookupCreate(t)
  <2>1. Len(vars_made') \in 1 .. MaxVars
    <3>1. vars_made' = Append(vars_made, op[t].type) /\ Len(vars_made) < MaxVars
      BY <1>2 DEF LookupCreate
    <3>2. Len(vars_made') = Len(vars_made) + 1
      BY <3>1
    <3> QED BY <3>1, <3>2, ConfigAssumption
  <2>4. Len(vars_made') \in 0 .. MaxVars
    BY <2>1
  <2>2. s_datas' \in [Names -> 0 .. MaxVars] /\ held' \in [Setters -> 0 .. MaxVars]
    BY <1>2, <2>4 DEF LookupCreate
  <2>3. op' \in [Setters -> ConfigOps]
    BY <1>0, <1>2 DEF LookupCreate
  <2> QED BY <1>2, <2>2, <2>3, <2>4 DEF LookupCreate
<1>3. ASSUME NEW w \in Watchers, Tell(t, w)
      PROVE  ConfigTyped'
  <2>1. op[t] \in [at : {"tell", "store"}, var : VarIds, new : Values, tell : SUBSET Watchers,
                   todo : SUBSET (Names \X (Values \cup {Malformed}))]
    BY <1>3, OpShapes DEF Tell
  <2>2. [at |-> "tell", var |-> op[t].var, new |-> op[t].new, tell |-> op[t].tell \ {w},
         todo |-> op[t].todo] \in ConfigOps
    BY <2>1 DEF ConfigOps
  <2>3. op' \in [Setters -> ConfigOps]
    <3>1. op' = [op EXCEPT ![t] = [at |-> "tell", var |-> op[t].var, new |-> op[t].new,
                                  tell |-> op[t].tell \ {w}, todo |-> op[t].todo]]
      BY <1>3, TellSteps
    <3> QED BY <2>2, <3>1
  <2>4. copy' \in [Watchers -> Values \cup {0}]
    BY <1>3, <2>1 DEF Tell
  <2> QED BY <1>3, <2>3, <2>4 DEF Tell
<1>4. CASE Told(t)
  <2>1. op[t] \in [at : {"tell", "store"}, var : VarIds, new : Values, tell : SUBSET Watchers,
                   todo : SUBSET (Names \X (Values \cup {Malformed}))]
    BY <1>4, OpShapes DEF Told
  <2>2. [at |-> "store", var |-> op[t].var, new |-> op[t].new, tell |-> {}, todo |-> op[t].todo] \in ConfigOps
    BY <2>1 DEF ConfigOps
  <2>3. op' \in [Setters -> ConfigOps]
    BY <1>4, <2>2, TellSteps
  <2> QED BY <1>4, <2>3 DEF Told
<1>5. CASE Store(t)
  <2>1. op[t] \in [at : {"tell", "store"}, var : VarIds, new : Values, tell : SUBSET Watchers,
                   todo : SUBSET (Names \X (Values \cup {Malformed}))]
    BY <1>5, OpShapes DEF Store
  <2>2. [at |-> "yaml", todo |-> op[t].todo] \in ConfigOps
    BY <2>1 DEF ConfigOps
  <2>3. op' \in [Setters -> ConfigOps] /\ m_val' \in [VarIds -> Values \cup {0}]
    BY <1>5, <2>1, <2>2 DEF Store
  <2> QED BY <1>5, <2>3 DEF Store
<1>6. ASSUME NEW w \in Watchers, ListenRead(t, w)
      PROVE  ConfigTyped'
  <2>1. held[t] \in VarIds
    BY <1>6, ConfigAssumption DEF ListenRead, VarIds
  <2>2. [at |-> "listen", var |-> held[t], who |-> w] \in ConfigOps
    BY <2>1 DEF ConfigOps
  <2>3. op' \in [Setters -> ConfigOps] /\ copy' \in [Watchers -> Values \cup {0}]
    BY <1>6, <2>1, <2>2 DEF ListenRead
  <2> QED BY <1>6, <2>3 DEF ListenRead
<1>7. CASE AddListener(t)
  <2>1. op[t] \in [at : {"listen"}, var : VarIds, who : Watchers]
    BY <1>7, OpShapes DEF AddListener
  <2>2. op' \in [Setters -> ConfigOps] /\ m_cbs' \in [VarIds -> SUBSET Watchers]
    BY <1>0, <1>7, <2>1 DEF AddListener
  <2> QED BY <1>7, <2>2 DEF AddListener
<1>8. ASSUME NEW gone \in SUBSET Watchers, DelListeners(t, gone)
      PROVE  ConfigTyped'
  BY <1>8 DEF DelListeners
<1>9. ASSUME NEW n \in Names, NEW x \in Values \cup {Malformed}, LoadFromYaml(t, {<<n, x>>})
      PROVE  ConfigTyped'
  <2>1. [at |-> "yaml", todo |-> {<<n, x>>}] \in ConfigOps
    BY DEF ConfigOps
  <2> QED BY <1>9, <2>1 DEF LoadFromYaml
<1>10. CASE (\E x \in Values : SetValue(t, x)) \/ YamlNode(t)
  BY <1>10, SetSteps
<1> QED BY <1>1, <1>2, <1>3, <1>4, <1>5, <1>6, <1>7, <1>8, <1>9, <1>10 DEF ConfigSteps

\* What a step leaves of an operation: which of the others is where, and what this one becomes.
LEMMA OwnOperation ==
    ASSUME ConfigTyped, NEW t \in Setters, ConfigSteps(t)
    PROVE  \A u \in Setters \ {t} : op'[u] = op[u]
<1> USE DEF ConfigTyped
<1>1. CASE (\E x \in Values : SetValue(t, x)) \/ YamlNode(t)
  BY <1>1, SetSteps
<1>2. CASE ~((\E x \in Values : SetValue(t, x)) \/ YamlNode(t))
  BY <1>2 DEF ConfigSteps, Lookup, LookupCreate, Told, Store, AddListener, Tell, ListenRead,
              DelListeners, LoadFromYaml
<1> QED BY <1>1, <1>2

\* Who registers a variable overwrites none, unless another was creating the same name.
LEMMA RegistryKept ==
    ASSUME ConfigTyped, NamesKept, NEW t \in Setters, ConfigSteps(t)
    PROVE  NamesKept'
<1>0. \A u \in Setters \ {t} : op'[u] = op[u]
  BY OwnOperation
<1>a. ASSUME NEW u \in Setters \ {t}, OpAt(u, "create")'
      PROVE  OpAt(u, "create") /\ op'[u] = op[u]
  BY <1>0, <1>a DEF OpAt
<1>b. \A u \in Setters : OpAt(u, "create")' => u = t \/ (OpAt(u, "create") /\ op'[u] = op[u])
  BY <1>a
<1> USE DEF NamesKept, ConfigTyped
<1>1. ASSUME UNCHANGED <<s_datas, held, doubled>>, op'[t].at # "create"
      PROVE  NamesKept'
  <2> HIDE DEF ConfigTyped
  <2>1. \A u \in Setters : OpAt(u, "create")' => OpAt(u, "create") /\ op'[u] = op[u]
    BY <1>b, <1>1 DEF OpAt
  <2> QED BY <1>1, <2>1
<1>2. ASSUME NEW n \in Names, NEW type \in Types, Lookup(t, n, type)
      PROVE  NamesKept'
  <2>1. CASE s_datas[n] = 0
    <3>1. /\ op' = [op EXCEPT ![t] = [at |-> "create", name |-> n, type |-> type]]
          /\ doubled' = IF \E u \in Setters : OpAt(u, "create") /\ op[u].name = n
                           THEN doubled \cup {n} ELSE doubled
          /\ UNCHANGED <<s_datas, held>>
      BY <1>2, <2>1 DEF Lookup
    <3>2. op'[t].at = "create" /\ op'[t].name = n
      BY <3>1
    <3>3. doubled' = {} => doubled = {} /\ \A u \in Setters : OpAt(u, "create") => op[u].name # n
      BY <3>1
    <3> HIDE DEF ConfigTyped
    <3> QED BY <1>b, <2>1, <3>1, <3>2, <3>3
  <2>2. CASE s_datas[n] # 0
    <3>1. /\ UNCHANGED <<s_datas, op, doubled>>
          /\ held' = [held EXCEPT ![t] = IF vars_made[s_datas[n]] = type THEN s_datas[n] ELSE 0]
      BY <1>2, <2>2 DEF Lookup
    <3>2. /\ held'[t] = 0 \/ held'[t] = s_datas[n]
          /\ \A u \in Setters \ {t} : held'[u] = held[u]
      BY <3>1
    <3> QED BY <3>1, <3>2 DEF OpAt
  <2> QED BY <2>1, <2>2
<1>3. CASE LookupCreate(t)
  <2>1. op[t] \in [at : {"create"}, name : Names, type : Types]
    BY <1>3, OpShapes DEF LookupCreate
  <2>2. PICK v : /\ s_datas' = [s_datas EXCEPT ![op[t].name] = v]
                 /\ held' = [held EXCEPT ![t] = v]
    BY <1>3 DEF LookupCreate
  <2>3. doubled' = doubled /\ op'[t].at # "create"
    BY <1>3 DEF LookupCreate, Idle
  <2>4. op[t].name \in Names /\ OpAt(t, "create")
    BY <1>3, <2>1 DEF LookupCreate
  <2>5. SUFFICES ASSUME doubled = {}
                 PROVE  /\ \A u \in Setters : OpAt(u, "create")' =>
                              /\ s_datas'[op'[u].name] = 0
                              /\ \A x \in Setters \ {u} : OpAt(x, "create")' => op'[x].name # op'[u].name
                        /\ \A u \in Setters : held'[u] # 0 => \E n \in Names : held'[u] = s_datas'[n]
    BY <2>3
  <2>6. ASSUME NEW u \in Setters, OpAt(u, "create")'
        PROVE  /\ s_datas'[op'[u].name] = 0
               /\ \A x \in Setters \ {u} : OpAt(x, "create")' => op'[x].name # op'[u].name
    <3>1. u # t /\ OpAt(u, "create") /\ op'[u] = op[u]
      BY <1>0, <2>3, <2>6 DEF OpAt
    <3>2. op[u].name # op[t].name /\ op[u].name \in Names
      BY <2>4, <2>5, <3>1, OpShapes
    <3>3. s_datas'[op[u].name] = s_datas[op[u].name]
      BY <2>2, <3>2
    <3>4. \A x \in Setters \ {u} : OpAt(x, "create")' => x # t /\ OpAt(x, "create") /\ op'[x] = op[x]
      BY <1>0, <2>3 DEF OpAt
    <3> QED BY <2>5, <3>1, <3>3, <3>4
  <2>7. ASSUME NEW u \in Setters, held'[u] # 0
        PROVE  \E n \in Names : held'[u] = s_datas'[n]
    <3>1. CASE u = t
      BY <2>2, <2>4, <3>1
    <3>2. CASE u # t
      <4>1. held'[u] = held[u]
        BY <2>2, <3>2
      <4>2. PICK n \in Names : held[u] = s_datas[n]
        BY <2>5, <2>7, <4>1
      <4>3. n # op[t].name
        BY <2>4, <2>5, <2>7, <4>1, <4>2
      <4>4. s_datas'[n] = s_datas[n]
        BY <2>2, <4>3
      <4> QED BY <4>1, <4>2, <4>4
    <3> QED BY <3>1, <3>2
  <2> QED BY <2>6, <2>7
<1>4. ASSUME NEW w \in Watchers, Tell(t, w)
      PROVE  NamesKept'
  <2>1. op'[t].at = "tell"
    <3>1. op' = [op EXCEPT ![t] = [at |-> "tell", var |-> op[t].var, new |-> op[t].new,
                                  tell |-> op[t].tell \ {w}, todo |-> op[t].todo]]
      BY <1>4, TellSteps
    <3> QED BY <3>1
  <2> QED BY <1>1, <1>4, <2>1 DEF Tell
<1>5. CASE Told(t)
  BY <1>1, <1>5, TellSteps DEF Told
<1>6. CASE Store(t) \/ AddListener(t)
  BY <1>1, <1>6 DEF Store, AddListener, Idle
<1>7. ASSUME NEW w \in Watchers, ListenRead(t, w)
      PROVE  NamesKept'
  BY <1>1, <1>7 DEF ListenRead
<1>8. ASSUME NEW gone \in SUBSET Watchers, DelListeners(t, gone)
      PROVE  NamesKept'
  BY <1>1, <1>8 DEF DelListeners, OpAt
<1>9. ASSUME NEW n \in Names, NEW x \in Values \cup {Malformed}, LoadFromYaml(t, {<<n, x>>})
      PROVE  NamesKept'
  BY <1>1, <1>9 DEF LoadFromYaml
<1>10. CASE (\E x \in Values : SetValue(t, x)) \/ YamlNode(t)
  <2>1. op'[t].at # "create"
    <3>1. CASE op'[t].at \in {"idle", "yaml"}
      BY <3>1
    <3>2. CASE op'[t].at \notin {"idle", "yaml"}
      <4>1. PICK v \in VarIds, x \in Values : Begins(t, v, x)
        BY <1>10, <3>2, SetSteps
      <4> QED BY <4>1 DEF Begins
    <3> QED BY <3>1, <3>2
  <2> QED BY <1>1, <1>10, <2>1, SetSteps
<1> QED BY <1>2, <1>3, <1>4, <1>5, <1>6, <1>7, <1>8, <1>9, <1>10 DEF ConfigSteps

\* A listener is added where it was announced, and none is added or removed while it is told.
LEMMA ApartKept ==
    ASSUME ConfigTyped, CallbacksApart, NEW t \in Setters, ConfigSteps(t)
    PROVE  CallbacksApart'
<1> USE DEF ConfigTyped
<1>0. \A u \in Setters \ {t} : op'[u] = op[u]
  BY OwnOperation
<1>a. \A v, x \in VarIds : \A w \in m_cbs[v] : w \in m_cbs[x] => v = x
  BY DEF CallbacksApart
<1>b. \A u \in Setters : OpAt(u, "listen") =>
          /\ \A v \in VarIds : op[u].who \notin m_cbs[v]
          /\ \A x \in Setters \ {u} : OpAt(x, "listen") => op[x].who # op[u].who
  BY DEF CallbacksApart
<1>c. \A u \in Setters : OpAt(u, "tell") => op[u].tell \subseteq m_cbs[op[u].var]
  BY DEF CallbacksApart
<1>1. ASSUME m_cbs' = m_cbs, op'[t].at \notin {"tell", "listen"}
      PROVE  CallbacksApart'
  <2>1. ASSUME NEW u \in Setters, OpAt(u, "tell")'
        PROVE  OpAt(u, "tell") /\ op'[u] = op[u]
    BY <1>0, <1>1, <2>1 DEF OpAt
  <2>2. ASSUME NEW u \in Setters, OpAt(u, "listen")'
        PROVE  OpAt(u, "listen") /\ op'[u] = op[u]
    BY <1>0, <1>1, <2>2 DEF OpAt
  <2> QED BY <1>1, <2>1, <2>2 DEF CallbacksApart
<1>2. ASSUME NEW n \in Names, NEW type \in Types, Lookup(t, n, type)
      PROVE  CallbacksApart'
  <2>1. op'[t].at \in {"idle", "create"}
    BY <1>2 DEF Lookup, OpAt
  <2> QED BY <1>1, <1>2, <2>1 DEF Lookup
<1>3. ASSUME NEW w \in Watchers, Tell(t, w)
      PROVE  CallbacksApart'
  <2>1. op' = [op EXCEPT ![t] = [at |-> "tell", var |-> op[t].var, new |-> op[t].new,
                                tell |-> op[t].tell \ {w}, todo |-> op[t].todo]]
    BY <1>3, TellSteps
  <2>2. op'[t].at = "tell" /\ op'[t].var = op[t].var /\ op'[t].tell \subseteq op[t].tell
    BY <2>1
  <2> QED BY <1>0, <1>3, <2>2 DEF Tell, OpAt, CallbacksApart
<1>4. CASE Told(t)
  <2>1. op' = [op EXCEPT ![t] = [at |-> "store", var |-> op[t].var, new |-> op[t].new,
                                tell |-> {}, todo |-> op[t].todo]]
    BY <1>4, TellSteps
  <2>2. op'[t].at = "store"
    BY <2>1
  <2> QED BY <1>1, <1>4, <2>2 DEF Told
<1>5. CASE LookupCreate(t) \/ Store(t)
  BY <1>1, <1>5 DEF LookupCreate, Store, Idle
<1>6. ASSUME NEW w \in Watchers, ListenRead(t, w)
      PROVE  CallbacksApart'
  <2>1. op'[t].at = "listen" /\ op'[t].who = w /\ m_cbs' = m_cbs
    BY <1>6 DEF ListenRead
  <2> QED BY <1>0, <1>6, <2>1 DEF ListenRead, OpAt, CallbacksApart
<1>7. CASE AddListener(t)
  <2>1. op[t] \in [at : {"listen"}, var : VarIds, who : Watchers]
    BY <1>7, OpShapes DEF AddListener
  <2>2. OpAt(t, "listen") /\ op'[t].at = "idle"
    BY <1>7 DEF AddListener, Idle
  <2>3. \A v \in VarIds : m_cbs'[v] = IF v = op[t].var THEN m_cbs[v] \cup {op[t].who} ELSE m_cbs[v]
    BY <1>7, <2>1 DEF AddListener, ConfigTyped
  <2>7. \A v \in VarIds : op[t].who \notin m_cbs[v]
    BY <1>b, <2>2
  <2>8. \A u \in Setters \ {t} : OpAt(u, "listen") => op[u].who # op[t].who
    BY <1>b, <2>2
  <2>4. \A v, x \in VarIds : \A w \in m_cbs'[v] : w \in m_cbs'[x] => v = x
    <3> SUFFICES ASSUME NEW v \in VarIds, NEW x \in VarIds, NEW w \in m_cbs'[v], w \in m_cbs'[x]
                 PROVE  v = x
      OBVIOUS
    <3>1. CASE w = op[t].who
      <4>1. w \notin m_cbs[v] /\ w \notin m_cbs[x]
        BY <2>7, <3>1
      <4> QED BY <2>3, <4>1
    <3>2. CASE w # op[t].who
      <4>1. w \in m_cbs[v] /\ w \in m_cbs[x]
        BY <2>3, <3>2
      <4> QED BY <1>a, <4>1
    <3> QED BY <3>1, <3>2
  <2>5. ASSUME NEW u \in Setters, OpAt(u, "listen")'
        PROVE  /\ \A v \in VarIds : op'[u].who \notin m_cbs'[v]
               /\ \A x \in Setters \ {u} : OpAt(x, "listen")' => op'[x].who # op'[u].who
    <3>1. u # t /\ OpAt(u, "listen") /\ op'[u] = op[u]
      BY <1>0, <2>2, <2>5 DEF OpAt
    <3>2. \A x \in Setters \ {u} : OpAt(x, "listen")' => OpAt(x, "listen") /\ op'[x] = op[x]
      BY <1>0, <2>2 DEF OpAt
    <3>3. op[u].who # op[t].who /\ \A v \in VarIds : op[u].who \notin m_cbs[v]
      BY <1>b, <2>8, <3>1
    <3>4. \A v \in VarIds : op[u].who \notin m_cbs'[v]
      BY <2>3, <3>3
    <3>5. \A x \in Setters \ {u} : OpAt(x, "listen") => op[x].who # op[u].who
      BY <1>b, <3>1
    <3> QED BY <3>1, <3>2, <3>4, <3>5
  <2>6. ASSUME NEW u \in Setters, OpAt(u, "tell")'
        PROVE  op'[u].tell \subseteq m_cbs'[op'[u].var]
    <3>1. u # t /\ OpAt(u, "tell") /\ op'[u] = op[u]
      BY <1>0, <2>2, <2>6 DEF OpAt
    <3>2. op[u].var \in VarIds
      <4>1. op[u] \in [at : {"tell", "store"}, var : VarIds, new : Values, tell : SUBSET Watchers,
                       todo : SUBSET (Names \X (Values \cup {Malformed}))]
        BY <3>1, OpShapes
      <4> QED BY <4>1
    <3> QED BY <1>c, <2>3, <3>1, <3>2
  <2> QED BY <2>4, <2>5, <2>6 DEF CallbacksApart
<1>8. ASSUME NEW gone \in SUBSET Watchers, DelListeners(t, gone)
      PROVE  CallbacksApart'
  <2>1. op' = op /\ \A u \in Setters : OpAt(u, "tell") => op[u].var # held[t]
    BY <1>8 DEF DelListeners, Unlocked
  <2>2. \A v \in VarIds : m_cbs'[v] = IF v = held[t] THEN m_cbs[v] \ gone ELSE m_cbs[v]
    BY <1>8 DEF DelListeners, ConfigTyped
  <2>3. ASSUME NEW u \in Setters, OpAt(u, "tell")
        PROVE  op[u].var \in VarIds
    <3>1. op[u] \in [at : {"tell", "store"}, var : VarIds, new : Values, tell : SUBSET Watchers,
                     todo : SUBSET (Names \X (Values \cup {Malformed}))]
      BY <2>3, OpShapes
    <3> QED BY <3>1
  <2>4. \A v, x \in VarIds : \A w \in m_cbs'[v] : w \in m_cbs'[x] => v = x
    BY <1>a, <2>2
  <2>5. \A u \in Setters : OpAt(u, "listen") => \A v \in VarIds : op[u].who \notin m_cbs'[v]
    BY <1>b, <2>2
  <2>6. \A u \in Setters : OpAt(u, "tell") => op[u].tell \subseteq m_cbs'[op[u].var]
    BY <1>c, <2>1, <2>2, <2>3
  <2> QED BY <1>b, <2>1, <2>4, <2>5, <2>6 DEF OpAt, CallbacksApart
<1>9. ASSUME NEW n \in Names, NEW x \in Values \cup {Malformed}, LoadFromYaml(t, {<<n, x>>})
      PROVE  CallbacksApart'
  <2>1. m_cbs' = m_cbs /\ op'[t].at = "yaml"
    BY <1>9 DEF LoadFromYaml
  <2> QED BY <1>1, <2>1
<1>10. CASE (\E x \in Values : SetValue(t, x)) \/ YamlNode(t)
  <2>1. m_cbs' = m_cbs
    BY <1>10, SetSteps
  <2>2. CASE op'[t].at \in {"idle", "yaml"}
    BY <1>1, <2>1, <2>2
  <2>3. CASE op'[t].at \notin {"idle", "yaml"}
    <3>1. PICK v \in VarIds, x \in Values : Begins(t, v, x)
      BY <1>10, <2>3, SetSteps
    <3>2. op'[t].at = "tell" /\ op'[t].var = v /\ op'[t].tell = m_cbs[v]
      BY <3>1 DEF Begins
    <3>3. \A u \in Setters : OpAt(u, "tell")' => op'[u].tell \subseteq m_cbs[op'[u].var]
      BY <1>0, <1>c, <3>2 DEF OpAt
    <3>4. \A u \in Setters : OpAt(u, "listen")' => OpAt(u, "listen") /\ op'[u] = op[u]
      BY <1>0, <3>2 DEF OpAt
    <3>5. \A u \in Setters : OpAt(u, "listen")' =>
             /\ \A w \in VarIds : op'[u].who \notin m_cbs'[w]
             /\ \A w \in Setters \ {u} : OpAt(w, "listen")' => op'[w].who # op'[u].who
      BY <1>b, <2>1, <3>4
    <3> QED BY <1>a, <2>1, <3>3, <3>5 DEF CallbacksApart
  <2> QED BY <2>2, <2>3
<1> QED BY <1>2, <1>3, <1>4, <1>5, <1>6, <1>7, <1>8, <1>9, <1>10 DEF ConfigSteps

\* A step that is not about v, before or after it, leaves the copies of its listeners in step.
LEMMA CopiesUntouched ==
    ASSUME NEW t \in Setters, NEW v \in VarIds, CopiesOf(v), ~Within(t, v), ~Within(t, v)',
           \A u \in Setters \ {t} : op'[u] = op[u],
           m_val'[v] = m_val[v], m_cbs'[v] \subseteq m_cbs[v], \A w \in m_cbs[v] : copy'[w] = copy[w],
           \A u \in Setters \ {t} : OpAt(u, "listen") => copy'[op[u].who] = copy[op[u].who]
    PROVE  CopiesOf(v)'
<1>1. \A u \in Setters \ {t} : /\ Within(u, v)' <=> Within(u, v)
                               /\ \A at \in {"tell", "store", "listen"} : OpAt(u, at)' <=> OpAt(u, at)
  BY DEF Within, OpAt
<1> QED BY <1>1 DEF CopiesOf

\* An operation on v takes the copies of its listeners from the old value to the new, as long
\* as no other operation on v comes in between.
LEMMA CopiesStep ==
    ASSUME ConfigTyped, CallbacksApart, CopiesKept, NEW t \in Setters, ConfigSteps(t)
    PROVE  CopiesKept'
<1>0. \A u \in Setters \ {t} : op'[u] = op[u]
  BY OwnOperation
<1>a. raced \subseteq raced'
  <2>1. CASE (\E x \in Values : SetValue(t, x)) \/ YamlNode(t)
    BY <2>1, SetSteps
  <2>2. CASE ~((\E x \in Values : SetValue(t, x)) \/ YamlNode(t))
    BY <2>2 DEF ConfigSteps, Lookup, LookupCreate, Told, Store, AddListener, Tell, ListenRead,
                DelListeners, LoadFromYaml, Enter
  <2> QED BY <2>1, <2>2
<1> SUFFICES ASSUME NEW v \in VarIds, v \notin raced' PROVE CopiesOf(v)'
  BY DEF CopiesKept
<1>b. CopiesOf(v)
  BY <1>a DEF CopiesKept
\* the steps of a thread that is in no operation on v
<1>1. ASSUME ~Within(t, v), op'[t].at \in {"idle", "create", "yaml"}, UNCHANGED <<m_val, m_cbs, copy>>
      PROVE  CopiesOf(v)'
  BY <1>0, <1>b, <1>1, CopiesUntouched DEF Within
<1>2. ASSUME NEW n \in Names, NEW type \in Types, Lookup(t, n, type)
      PROVE  CopiesOf(v)'
  <2>1. op'[t].at \in {"idle", "create"} /\ ~Within(t, v) /\ UNCHANGED <<m_val, m_cbs, copy>>
    BY <1>2 DEF Lookup, OpAt, Within, ConfigTyped
  <2> QED BY <1>1, <2>1
<1>3. CASE LookupCreate(t)
  <2>1. op'[t].at = "idle" /\ ~Within(t, v) /\ UNCHANGED <<m_val, m_cbs, copy>>
    BY <1>3 DEF LookupCreate, Idle, OpAt, Within, ConfigTyped
  <2> QED BY <1>1, <2>1
<1>4. ASSUME NEW n \in Names, NEW x \in Values \cup {Malformed}, LoadFromYaml(t, {<<n, x>>})
      PROVE  CopiesOf(v)'
  <2>1. op'[t].at = "yaml" /\ ~Within(t, v) /\ UNCHANGED <<m_val, m_cbs, copy>>
    BY <1>4 DEF LoadFromYaml, OpAt, Within, ConfigTyped
  <2> QED BY <1>1, <2>1
<1>5. CASE (\E x \in Values : SetValue(t, x)) \/ YamlNode(t)
  <2>1. UNCHANGED <<m_val, m_cbs, copy>> /\ op[t].at \in {"idle", "yaml"}
    BY <1>5, SetSteps
  <2>2. ~Within(t, v)
    BY <2>1 DEF Within
  <2>3. CASE op'[t].at \in {"idle", "yaml"}
    BY <1>1, <2>1, <2>2, <2>3
  <2>4. CASE op'[t].at \notin {"idle", "yaml"}
    <3>1. PICK y \in VarIds, x \in Values : Begins(t, y, x)
      BY <1>5, <2>4, SetSteps
    <3>2. op'[t].at = "tell" /\ op'[t].var = y /\ op'[t].tell = m_cbs[y]
      BY <3>1 DEF Begins
    <3>3. CASE y = v
      <4>1. \A u \in Setters \ {t} : ~Within(u, v) /\ ~Within(u, v)'
        BY <1>0, <3>1, <3>3 DEF Begins, Within
      <4>2. Within(t, v)'
        BY <3>2, <3>3 DEF Within
      <4> QED BY <2>1, <3>2, <3>3, <4>1, <4>2 DEF CopiesOf, OpAt
    <3>4. CASE y # v
      <4>1. ~Within(t, v)'
        BY <3>2, <3>4 DEF Within
      <4> QED BY <1>0, <1>b, <2>1, <2>2, <4>1, CopiesUntouched
    <3> QED BY <3>3, <3>4
  <2> QED BY <2>3, <2>4
\* a listener of another variable is told; or one of v, by the only operation on v
<1>6. ASSUME NEW w \in Watchers, Tell(t, w)
      PROVE  CopiesOf(v)'
  <2>1. op' = [op EXCEPT ![t] = [at |-> "tell", var |-> op[t].var, new |-> op[t].new,
                                tell |-> op[t].tell \ {w}, todo |-> op[t].todo]]
    BY <1>6, TellSteps
  <2>2. /\ op[t].at = "tell" /\ op'[t].at = "tell" /\ op'[t].var = op[t].var
        /\ op'[t].new = op[t].new /\ op'[t].tell = op[t].tell \ {w}
    BY <1>6, <2>1 DEF Tell, OpAt, ConfigTyped
  <2>3. /\ UNCHANGED <<m_val, m_cbs>> /\ w \in op[t].tell
        /\ \A x \in Watchers : copy'[x] = IF x = w THEN op[t].new ELSE copy[x]
    BY <1>6 DEF Tell, ConfigTyped
  <2>4. op[t].var \in VarIds /\ w \in m_cbs[op[t].var]
    <3>1. op[t] \in [at : {"tell", "store"}, var : VarIds, new : Values, tell : SUBSET Watchers,
                     todo : SUBSET (Names \X (Values \cup {Malformed}))]
      BY <1>6, OpShapes DEF Tell
    <3> QED BY <2>2, <2>3, <3>1 DEF CallbacksApart, OpAt
  <2>5. CASE op[t].var = v
    <3>1. Within(t, v) /\ Within(t, v)'
      BY <2>2, <2>5 DEF Within
    <3>2. \A u \in Setters \ {t} : ~Within(u, v) /\ ~Within(u, v)'
      BY <1>0, <1>b, <3>1 DEF CopiesOf, Within
    <3>3. \A x \in m_cbs[v] \ op[t].tell : copy[x] = op[t].new
      BY <1>b, <2>2, <3>1 DEF CopiesOf, OpAt
    <3>4. \A x \in m_cbs'[v] \ op'[t].tell : copy'[x] = op'[t].new
      BY <2>2, <2>3, <3>3 DEF ConfigTyped
    <3> QED BY <2>2, <3>1, <3>2, <3>4 DEF CopiesOf, OpAt
  <2>6. CASE op[t].var # v
    <3>1. ~Within(t, v) /\ ~Within(t, v)'
      BY <2>2, <2>6 DEF Within
    <3>2. w \notin m_cbs[v] /\ \A u \in Setters : OpAt(u, "listen") => op[u].who # w
      BY <2>4, <2>6 DEF CallbacksApart
    <3>3. \A u \in Setters : OpAt(u, "listen") => op[u].who \in Watchers
      <4>1. ASSUME NEW u \in Setters, OpAt(u, "listen")
            PROVE  op[u] \in [at : {"listen"}, var : VarIds, who : Watchers]
        BY <4>1, OpShapes
      <4> QED BY <4>1
    <3>4. \A x \in m_cbs[v] : copy'[x] = copy[x]
      BY <2>3, <3>2 DEF ConfigTyped
    <3>5. \A u \in Setters \ {t} : OpAt(u, "listen") => copy'[op[u].who] = copy[op[u].who]
      BY <2>3, <3>2, <3>3
    <3> QED BY <1>0, <1>b, <2>3, <3>1, <3>4, <3>5, CopiesUntouched
  <2> QED BY <2>5, <2>6
<1>7. CASE Told(t)
  <2>1. op' = [op EXCEPT ![t] = [at |-> "store", var |-> op[t].var, new |-> op[t].new,
                                tell |-> {}, todo |-> op[t].todo]]
    BY <1>7, TellSteps
  <2>2. /\ op[t].at = "tell" /\ op[t].tell = {} /\ op'[t].at = "store" /\ op'[t].var = op[t].var
        /\ op'[t].new = op[t].new /\ UNCHANGED <<m_val, m_cbs, copy>>
    BY <1>7, <2>1 DEF Told, OpAt, ConfigTyped
  <2>3. Within(t, v)' <=> Within(t, v)
    BY <2>2 DEF Within
  <2>4. CASE Within(t, v)
    <3>1. \A u \in Setters \ {t} : ~Within(u, v) /\ ~Within(u, v)'
      BY <1>0, <1>b, <2>4 DEF CopiesOf, Within
    <3>2. \A x \in m_cbs[v] : copy[x] = op[t].new
      BY <1>b, <2>2, <2>4 DEF CopiesOf, OpAt
    <3> QED BY <2>2, <2>3, <2>4, <3>1, <3>2 DEF CopiesOf, OpAt
  <2>5. CASE ~Within(t, v)
    BY <1>0, <1>b, <2>2, <2>3, <2>5, CopiesUntouched
  <2> QED BY <2>4, <2>5
<1>8. CASE Store(t)
  <2>1. op'[t].at = "yaml" /\ op[t].at = "store" /\ UNCHANGED <<m_cbs, copy>>
    BY <1>8 DEF Store, OpAt, ConfigTyped
  <2>2. op[t].var \in VarIds
    <3>1. op[t] \in [at : {"tell", "store"}, var : VarIds, new : Values, tell : SUBSET Watchers,
                     todo : SUBSET (Names \X (Values \cup {Malformed}))]
      BY <1>8, OpShapes DEF Store
    <3> QED BY <3>1
  <2>3. m_val'[v] = IF v = op[t].var THEN op[t].new ELSE m_val[v]
    BY <1>8 DEF Store, ConfigTyped
  <2>4. ~Within(t, v)'
    BY <2>1 DEF Within
  <2>5. CASE op[t].var = v
    <3>1. Within(t, v)
      BY <2>1, <2>5 DEF Within
    <3>2. \A u \in Setters : ~Within(u, v)'
      BY <1>0, <1>b, <2>4, <3>1 DEF CopiesOf, Within
    <3>3. \A x \in m_cbs[v] : copy[x] = op[t].new
      BY <1>b, <2>1, <3>1 DEF CopiesOf, OpAt
    <3> QED BY <2>1, <2>3, <2>5, <3>2, <3>3 DEF CopiesOf
  <2>6. CASE op[t].var # v
    <3>1. ~Within(t, v)
      BY <2>6 DEF Within
    <3> QED BY <1>0, <1>b, <2>1, <2>3, <2>4, <2>6, <3>1, CopiesUntouched
  <2> QED BY <2>5, <2>6
<1>9. ASSUME NEW w \in Watchers, ListenRead(t, w)
      PROVE  CopiesOf(v)'
  <2>1. /\ op[t].at = "idle" /\ op'[t].at = "listen" /\ op'[t].var = held[t] /\ op'[t].who = w
        /\ UNCHANGED <<m_val, m_cbs>>
        /\ \A x \in Watchers : copy'[x] = IF x = w THEN m_val[held[t]] ELSE copy[x]
    BY <1>9 DEF ListenRead, OpAt, ConfigTyped
  <2>2. w \notin m_cbs[v] /\ \A u \in Setters : OpAt(u, "listen") => op[u].who # w
    BY <1>9 DEF ListenRead
  <2>3. ~Within(t, v) /\ \A x \in m_cbs[v] : copy'[x] = copy[x]
    BY <2>1, <2>2 DEF Within, ConfigTyped
  <2>4. CASE held[t] = v
    <3>1. \A u \in Setters \ {t} : ~Within(u, v) /\ ~Within(u, v)'
      BY <1>0, <1>9, <2>4 DEF ListenRead, Enter, Within
    <3>2. Within(t, v)'
      BY <2>1, <2>4 DEF Within
    <3>3. \A x \in m_cbs[v] : copy[x] = m_val[v]
      BY <1>b, <2>3, <3>1 DEF CopiesOf
    <3> QED BY <2>1, <2>3, <2>4, <3>1, <3>2, <3>3 DEF CopiesOf, OpAt
  <2>5. CASE held[t] # v
    <3>1. ~Within(t, v)'
      BY <2>1, <2>5 DEF Within
    <3>2. \A u \in Setters : OpAt(u, "listen") => op[u].who \in Watchers
      <4>1. ASSUME NEW u \in Setters, OpAt(u, "listen")
            PROVE  op[u] \in [at : {"listen"}, var : VarIds, who : Watchers]
        BY <4>1, OpShapes
      <4> QED BY <4>1
    <3>3. \A u \in Setters \ {t} : OpAt(u, "listen") => copy'[op[u].who] = copy[op[u].who]
      BY <2>1, <2>2, <3>2
    <3> QED BY <1>0, <1>b, <2>1, <2>3, <3>1, <3>3, CopiesUntouched
  <2> QED BY <2>4, <2>5
<1>10. CASE AddListener(t)
  <2>1. op'[t].at = "idle" /\ op[t].at = "listen" /\ UNCHANGED <<m_val, copy>>
    BY <1>10 DEF AddListener, Idle, OpAt, ConfigTyped
  <2>2. m_cbs'[v] = IF v = op[t].var THEN m_cbs[v] \cup {op[t].who} ELSE m_cbs[v]
    BY <1>10 DEF AddListener, ConfigTyped
  <2>3. ~Within(t, v)'
    BY <2>1 DEF Within
  <2>4. CASE op[t].var = v
    <3>1. Within(t, v)
      BY <2>1, <2>4 DEF Within
    <3>2. \A u \in Setters : ~Within(u, v)'
      BY <1>0, <1>b, <2>3, <3>1 DEF CopiesOf, Within
    <3>3. copy[op[t].who] = m_val[v] /\ \A x \in m_cbs[v] : copy[x] = m_val[v]
      BY <1>b, <2>1, <3>1 DEF CopiesOf, OpAt
    <3> QED BY <2>1, <2>2, <3>2, <3>3 DEF CopiesOf
  <2>5. CASE op[t].var # v
    <3>1. ~Within(t, v)
      BY <2>5 DEF Within
    <3> QED BY <1>0, <1>b, <2>1, <2>2, <2>3, <2>5, <3>1, CopiesUntouched
  <2> QED BY <2>4, <2>5
<1>11. ASSUME NEW gone \in SUBSET Watchers, DelListeners(t, gone)
       PROVE  CopiesOf(v)'
  <2>1. UNCHANGED <<m_val, copy, op>> /\ op[t].at = "idle"
    BY <1>11 DEF DelListeners, OpAt
  <2>2. m_cbs'[v] \subseteq m_cbs[v]
    BY <1>11 DEF DelListeners, ConfigTyped
  <2>3. ~Within(t, v) /\ ~Within(t, v)'
    BY <2>1 DEF Within
  <2> QED BY <1>0, <1>b, <2>1, <2>2, <2>3, CopiesUntouched
<1> QED BY <1>2, <1>3, <1>4, <1>5, <1>6, <1>7, <1>8, <1>9, <1>10, <1>11 DEF ConfigSteps

\* The invariant of Lookup(), setValue(), the listeners and LoadFromYaml().
THEOREM ConfigInvariant == ConfigSpec => []ConfigInv
<1>1. ConfigInv /\ [ConfigNext]_configVars => ConfigInv'
  <2> SUFFICES ASSUME ConfigInv, [ConfigNext]_configVars PROVE ConfigInv'
    OBVIOUS
  <2>1. CASE ConfigNext
    <3>1. PICK t \in Setters : ConfigSteps(t)
      BY <2>1 DEF ConfigNext, ConfigSteps
    <3> QED BY <3>1, ConfigTypesKept, ApartKept, CopiesStep, RegistryKept DEF ConfigInv
  <2>2. CASE UNCHANGED configVars
    BY <2>2 DEF configVars, ConfigInv, ConfigTyped, CallbacksApart, CopiesKept, CopiesOf, NamesKept,
                OpAt, Within
  <2> QED BY <2>1, <2>2
<1> QED BY ConfigStart, <1>1, PTL DEF ConfigSpec

\* The listeners of a variable on which no two operations have overlapped have its value when
\* none is under way, and two threads that look up a name hold the same variable.
THEOREM ListenersHaveValue == ConfigSpec => []ListenersInStep
<1>1. ConfigInv => ListenersInStep
  BY DEF ConfigInv, CopiesKept, CopiesOf, NamesKept, ListenersInStep
<1> QED BY <1>1, ConfigInvariant, PTL

-----------------------------------------------------------------------------
(* ConnectionPool: who owns a connection, and m_total.                     *)

\* where a thread may be in getConnection(), the request and ReleasePtr()
PoolPlaces ==
    {"idle", "lock", "clean", "subtract", "connect", "add", "request", "release", "decrement", "push"}

\* what the invariant needs to know of an HttpConnection and of a thread
ConnStates == [alive : BOOLEAN, connected : BOOLEAN, createTime : Nat, requests : Nat]
UserStates == [pc : PoolPlaces, now : Nat, ptr : Conns \cup {NoConn}, invalid : Seq(Conns)]

\* the types of ConnectionPool
PoolTyped ==
    /\ clock \in Nat /\ m_total \in Int /\ m_conns \in Seq(Conns)
    /\ connection \in [Conns -> ConnStates] /\ user \in [PoolUsers -> UserStates]

\* a thread has a connection in hand where it uses one, and not before or after; what it is to
\* delete is not what it was given, nor twice in its list; a connection to use has requests left
HandOf(u) ==
    /\ user[u].pc \in {"idle", "lock", "connect", "decrement"} => user[u].ptr = NoConn
    /\ user[u].pc \in {"add", "request", "release", "push"} => user[u].ptr # NoConn
    /\ user[u].pc = "clean" => IsInjective(user[u].invalid) /\ user[u].ptr \notin ToSet(user[u].invalid)
    /\ user[u].ptr # NoConn /\ user[u].pc # "release" => connection[user[u].ptr].requests < MaxRequest

InHand ==
    /\ \A u \in PoolUsers : HandOf(u)
    /\ \A c \in ToSet(m_conns) : connection[c].requests < MaxRequest

\* each connection that is alive is idle, once, or one thread's
OneOwner ==
    /\ IsInjective(m_conns)
    /\ \A u \in PoolUsers : Held(u) \cap ToSet(m_conns) = {}
    /\ \A u, v \in PoolUsers : u # v => Held(u) \cap Held(v) = {}
    /\ Alive = ToSet(m_conns) \cup UNION {Held(u) : u \in PoolUsers}

\* m_total, up to what is still to be added or subtracted
Counted ==
    /\ IsFiniteSet(Owed)
    /\ m_total = Cardinality(Alive) + Cardinality(Owed) - Cardinality(Unadded)

PoolInv == PoolTyped /\ InHand /\ OneOwner /\ Counted

\* A step that says nothing of a thread's locals leaves them.
LEMMA UserSteps ==
    ASSUME PoolTyped, NEW u \in PoolUsers
    PROVE  /\ DeleteInvalid(u) => Becomes(u, "subtract", user[u].now, user[u].ptr, user[u].invalid)
           /\ ConnectFails(u) => Becomes(u, "idle", user[u].now, user[u].ptr, user[u].invalid)
           /\ AddTotal(u) => Becomes(u, "request", user[u].now, user[u].ptr, user[u].invalid)
           /\ \A outcome \in Outcomes :
                 PoolRequest(u, outcome) => Becomes(u, "release", user[u].now, user[u].ptr, user[u].invalid)
           /\ Decrement(u) => Becomes(u, "idle", user[u].now, user[u].ptr, user[u].invalid)
<1>1. PICK pc, now, ptr, invalid : user[u] = [pc |-> pc, now |-> now, ptr |-> ptr, invalid |-> invalid]
  BY DEF PoolTyped, UserStates
<1>2. ASSUME NEW at
      PROVE  [user[u] EXCEPT !.pc = at]
                = [pc |-> at, now |-> user[u].now, ptr |-> user[u].ptr, invalid |-> user[u].invalid]
  BY <1>1
<1> QED BY <1>2 DEF DeleteInvalid, ConnectFails, AddTotal, PoolRequest, Decrement, Becomes

\* The first valid connection is in the list, when there is one.
LEMMA FirstInList ==
    ASSUME PoolTyped, NEW now
    PROVE  FirstValid(now) \in 0 .. Len(m_conns)
<1> DEFINE S == {i \in 1 .. Len(m_conns) : ~Invalid(m_conns[i], now)}
           R == {p \in Nat \X Nat : p[1] < p[2]}
<1>1. FirstValid(now) = IF S # {} THEN Min(S) ELSE 0
  BY DEF FirstValid, SelectInSeq
<1>2. Len(m_conns) \in Nat /\ S \in SUBSET Nat /\ S \subseteq 1 .. Len(m_conns)
  BY DEF PoolTyped
<1>3. ASSUME S # {}
      PROVE  Min(S) \in S
  <2>1. IsWellFoundedOn(R, Nat)
    BY NatLessThanWellFounded DEF OpToRel
  <2>2. \E i \in S : \A n \in S : <<n, i>> \notin R
    <3> HIDE DEF R, S
    <3> QED BY <1>2, <1>3, <2>1, WFMin
  <2>3. PICK i \in S : \A n \in S : <<n, i>> \notin R
    BY <2>2
  <2>4. \A n \in S : i \in Nat /\ n \in Nat
    BY <1>2
  <2>5. ASSUME NEW n \in S PROVE i <= n
    <3>1. n < i => <<n, i>> \in R
      BY <2>4
    <3> HIDE DEF R
    <3> QED BY <2>3, <2>4, <3>1
  <2> HIDE DEF S
  <2> QED BY <2>3, <2>5 DEF Min
<1> HIDE DEF S
<1>4. ASSUME S # {}
      PROVE  Min(S) \in 0 .. Len(m_conns)
  <2>1. Min(S) \in 1 .. Len(m_conns)
    BY <1>2, <1>3, <1>4
  <2> QED BY <1>2, <2>1
<1>5. 0 \in 0 .. Len(m_conns)
  BY <1>2
<1> QED BY <1>1, <1>4, <1>5

\* getConnection() under the lock: the first n connections are taken off the list; the last of
\* them is handed out, or none is, and the others are to be deleted.
LEMMA TakeEffect ==
    ASSUME PoolTyped, NEW u \in PoolUsers, TakeConnection(u)
    PROVE  \E n \in 0 .. Len(m_conns) :
              /\ m_conns' = SubSeq(m_conns, n + 1, Len(m_conns))
              /\ \/ Becomes(u, "clean", user[u].now, NoConn, SubSeq(m_conns, 1, n))
                 \/ n > 0 /\ Becomes(u, "clean", user[u].now, m_conns[n], SubSeq(m_conns, 1, n - 1))
<1> DEFINE first == FirstValid(user[u].now)
           n == IF first = 0 THEN Len(m_conns) ELSE first
<1>1. first \in 0 .. Len(m_conns) /\ Len(m_conns) \in Nat
  BY FirstInList DEF PoolTyped
<1>2. /\ m_conns' = SubSeq(m_conns, n + 1, Len(m_conns))
      /\ Becomes(u, "clean", user[u].now, IF first = 0 THEN NoConn ELSE m_conns[first],
                 SubSeq(m_conns, 1, IF first = 0 THEN n ELSE n - 1))
  BY DEF TakeConnection
<1> HIDE DEF first
<1>3. CASE first = 0
  BY <1>1, <1>2, <1>3
<1>4. CASE first # 0
  BY <1>1, <1>2, <1>4
<1> QED BY <1>3, <1>4

\* A record of a connection with another flag, or another count.
LEMMA ConnRecord ==
    ASSUME NEW r \in ConnStates, NEW b \in BOOLEAN, NEW n \in Nat
    PROVE  /\ [r EXCEPT !.connected = b] \in ConnStates /\ [r EXCEPT !.requests = n] \in ConnStates
           /\ [r EXCEPT !.connected = b].alive = r.alive /\ [r EXCEPT !.requests = n].alive = r.alive
           /\ [r EXCEPT !.connected = b].requests = r.requests /\ [r EXCEPT !.requests = n].requests = n
<1>1. PICK alive \in BOOLEAN, connected \in BOOLEAN, createTime \in Nat, requests \in Nat :
         r = [alive |-> alive, connected |-> connected, createTime |-> createTime, requests |-> requests]
  BY DEF ConnStates
<1>2. [r EXCEPT !.connected = b]
         = [alive |-> alive, connected |-> b, createTime |-> createTime, requests |-> requests]
  BY <1>1
<1>3. [r EXCEPT !.requests = n]
         = [alive |-> alive, connected |-> connected, createTime |-> createTime, requests |-> n]
  BY <1>1
<1> QED BY <1>1, <1>2, <1>3 DEF ConnStates

\* A request leaves a connection alive, and does not count itself.
LEMMA RequestEffect ==
    ASSUME PoolTyped, NEW u \in PoolUsers, NEW outcome, PoolRequest(u, outcome)
    PROVE  /\ connection' \in [Conns -> ConnStates]
           /\ \A c \in Conns : /\ connection'[c].alive = connection[c].alive
                               /\ connection'[c].requests = connection[c].requests
<1> DEFINE p == user[u].ptr
           b == connection[p].connected /\ outcome # "RECV_TIMEOUT"
<1>1. connection' = [connection EXCEPT ![p] = [connection[p] EXCEPT !.connected = b]]
  BY DEF PoolRequest
<1>2. connection \in [Conns -> ConnStates]
  BY DEF PoolTyped
<1>3. CASE p \in Conns
  <2>1. connection[p] \in ConnStates /\ b \in BOOLEAN
    BY <1>2, <1>3 DEF ConnStates
  <2> HIDE DEF b
  <2>2. /\ [connection[p] EXCEPT !.connected = b] \in ConnStates
        /\ [connection[p] EXCEPT !.connected = b].alive = connection[p].alive
        /\ [connection[p] EXCEPT !.connected = b].requests = connection[p].requests
    BY <2>1, ConnRecord
  <2> QED BY <1>1, <1>2, <1>3, <2>2
<1>4. CASE p \notin Conns
  BY <1>1, <1>2, <1>4
<1> QED BY <1>3, <1>4

\* Whoever gives a connection back deletes it, or keeps it with requests left.
LEMMA ReleaseEffect ==
    ASSUME PoolTyped, NEW u \in PoolUsers, user[u].ptr \in Conns, ReleasePtr(u)
    PROVE  /\ connection' \in [Conns -> ConnStates]
           /\ \A c \in Conns \ {user[u].ptr} : connection'[c] = connection[c]
           /\ \/ /\ Becomes(u, "decrement", user[u].now, NoConn, <<>>)
                 /\ ~connection'[user[u].ptr].alive
              \/ /\ Becomes(u, "push", user[u].now, user[u].ptr, <<>>)
                 /\ connection'[user[u].ptr].alive = connection[user[u].ptr].alive
                 /\ connection'[user[u].ptr].requests < MaxRequest
<1> DEFINE p == user[u].ptr
           n == connection[p].requests + 1
<1>1. connection \in [Conns -> ConnStates] /\ connection[p] \in ConnStates /\ n \in Nat
  BY DEF PoolTyped, ConnStates
<1>2. Freed \in ConnStates /\ ~Freed.alive
  BY DEF Freed, ConnStates
<1>3. CASE Discards(p, n)
  <2>1. connection' = [connection EXCEPT ![p] = Freed] /\ Becomes(u, "decrement", user[u].now, NoConn, <<>>)
    BY <1>3 DEF ReleasePtr
  <2> QED BY <1>1, <1>2, <2>1
<1>4. CASE ~Discards(p, n)
  <2>1. /\ connection' = [connection EXCEPT ![p] = [connection[p] EXCEPT !.requests = n]]
        /\ Becomes(u, "push", user[u].now, p, <<>>)
    BY <1>4 DEF ReleasePtr
  <2>2. n < MaxRequest
    BY <1>1, <1>4, PoolAssumption DEF Discards
  <2> HIDE DEF n
  <2>3. /\ [connection[p] EXCEPT !.requests = n] \in ConnStates
        /\ [connection[p] EXCEPT !.requests = n].alive = connection[p].alive
        /\ [connection[p] EXCEPT !.requests = n].requests = n
    BY <1>1, ConnRecord
  <2> QED BY <1>1, <2>1, <2>2, <2>3
<1> QED BY <1>3, <1>4

\* the steps of thread u
PoolMoves(u) ==
    \/ ReadClock(u) \/ TakeConnection(u) \/ DeleteInvalid(u) \/ SubtractInvalid(u)
    \/ ConnectFails(u) \/ Connect(u) \/ AddTotal(u)
    \/ \E outcome \in Outcomes : PoolRequest(u, outcome)
    \/ ReleasePtr(u) \/ Decrement(u) \/ PushBack(u)

\* What a step leaves in the thread's locals is of their types.
LEMMA BecomesTyped ==
    ASSUME PoolTyped, NEW u \in PoolUsers, NEW pc \in PoolPlaces, NEW now \in Nat,
           NEW ptr \in Conns \cup {NoConn}, NEW invalid \in Seq(Conns), Becomes(u, pc, now, ptr, invalid)
    PROVE  /\ user' \in [PoolUsers -> UserStates]
           /\ \A v \in PoolUsers \ {u} : user'[v] = user[v]
           /\ user'[u] = [pc |-> pc, now |-> now, ptr |-> ptr, invalid |-> invalid]
<1>1. [pc |-> pc, now |-> now, ptr |-> ptr, invalid |-> invalid] \in UserStates
  BY DEF UserStates
<1> QED BY <1>1 DEF PoolTyped, Becomes

\* What is taken off the list, and what stays, are sequences of connections.
LEMMA Cut ==
    ASSUME NEW s \in Seq(Conns), NEW n \in 0 .. Len(s)
    PROVE  /\ SubSeq(s, 1, n) \in Seq(Conns) /\ Len(SubSeq(s, 1, n)) = n
           /\ \A i \in 1 .. n : SubSeq(s, 1, n)[i] = s[i]
           /\ SubSeq(s, n + 1, Len(s)) \in Seq(Conns) /\ Len(SubSeq(s, n + 1, Len(s))) = Len(s) - n
           /\ \A i \in 1 .. Len(s) - n : SubSeq(s, n + 1, Len(s))[i] = s[n + i]
<1>1. Len(s) \in Nat
  OBVIOUS
<1>2. \A i \in 1 .. Len(s) : s[i] \in Conns
  OBVIOUS
<1>3. SubSeq(s, 1, n) = [i \in 1 .. n |-> s[i]]
  BY <1>1
<1>4. SubSeq(s, n + 1, Len(s)) = [i \in 1 .. Len(s) - n |-> s[n + i]]
  BY <1>1
<1>5. \A i \in 1 .. Len(s) - n : n + i \in 1 .. Len(s)
  BY <1>1
<1> QED BY <1>1, <1>2, <1>3, <1>4, <1>5

\* Every variable stays in its type.
LEMMA PoolTypesKept ==
    ASSUME PoolTyped, InHand, NEW u \in PoolUsers, PoolMoves(u)
    PROVE  PoolTyped'
<1>0. /\ clock \in Nat /\ m_total \in Int /\ m_conns \in Seq(Conns)
      /\ connection \in [Conns -> ConnStates] /\ user \in [PoolUsers -> UserStates]
      /\ user[u].now \in Nat /\ user[u].ptr \in Conns \cup {NoConn} /\ user[u].invalid \in Seq(Conns)
  BY DEF PoolTyped, UserStates
<1>1. <<>> \in Seq(Conns) /\ PoolPlaces # {}
  BY DEF PoolPlaces
<1>2. CASE ReadClock(u)
  <2>1. user' \in [PoolUsers -> UserStates]
    BY <1>0, <1>1, <1>2, BecomesTyped DEF ReadClock, PoolPlaces
  <2> QED BY <1>0, <1>2, <2>1 DEF ReadClock, PoolTyped
<1>3. CASE TakeConnection(u)
  <2>1. PICK n \in 0 .. Len(m_conns) :
           /\ m_conns' = SubSeq(m_conns, n + 1, Len(m_conns))
           /\ \/ Becomes(u, "clean", user[u].now, NoConn, SubSeq(m_conns, 1, n))
              \/ n > 0 /\ Becomes(u, "clean", user[u].now, m_conns[n], SubSeq(m_conns, 1, n - 1))
    BY <1>3, TakeEffect
  <2>2. m_conns' \in Seq(Conns) /\ SubSeq(m_conns, 1, n) \in Seq(Conns)
    BY <1>0, <2>1, Cut
  <2>3. n > 0 => n - 1 \in 0 .. Len(m_conns) /\ m_conns[n] \in Conns
    BY <1>0
  <2>4. n > 0 => SubSeq(m_conns, 1, n - 1) \in Seq(Conns)
    BY <1>0, <2>3, Cut
  <2>5. "clean" \in PoolPlaces
    BY DEF PoolPlaces
  <2>6. user' \in [PoolUsers -> UserStates]
    BY <1>0, <2>1, <2>2, <2>3, <2>4, <2>5, BecomesTyped
  <2> QED BY <1>0, <1>3, <2>2, <2>6 DEF TakeConnection, PoolTyped
<1>4. CASE DeleteInvalid(u)
  <2>1. "subtract" \in PoolPlaces /\ Freed \in ConnStates
    BY DEF PoolPlaces, Freed, ConnStates
  <2>2. user' \in [PoolUsers -> UserStates]
    BY <1>0, <1>4, <2>1, UserSteps, BecomesTyped
  <2>3. connection' \in [Conns -> ConnStates]
    BY <1>0, <1>4, <2>1 DEF DeleteInvalid, Delete
  <2> QED BY <1>0, <1>4, <2>2, <2>3 DEF DeleteInvalid, PoolTyped
<1>5. CASE SubtractInvalid(u)
  <2>1. "connect" \in PoolPlaces /\ "request" \in PoolPlaces
    BY DEF PoolPlaces
  <2>2. user' \in [PoolUsers -> UserStates]
    BY <1>0, <1>1, <1>5, <2>1, BecomesTyped DEF SubtractInvalid
  <2>3. m_total' \in Int
    <3>1. Len(user[u].invalid) \in Nat
      BY <1>0
    <3> QED BY <1>0, <1>5, <3>1 DEF SubtractInvalid
  <2> QED BY <1>0, <1>5, <2>2, <2>3 DEF SubtractInvalid, PoolTyped
<1>6. CASE ConnectFails(u) \/ Decrement(u)
  <2>1. "idle" \in PoolPlaces
    BY DEF PoolPlaces
  <2>2. user' \in [PoolUsers -> UserStates]
    BY <1>0, <1>6, <2>1, UserSteps, BecomesTyped
  <2>3. m_total' \in Int
    BY <1>0, <1>6 DEF ConnectFails, Decrement
  <2> QED BY <1>0, <1>6, <2>2, <2>3 DEF ConnectFails, Decrement, PoolTyped
<1>7. CASE Connect(u)
  <2>1. PICK c \in Conns \ Alive :
           /\ connection' = [connection EXCEPT ![c] =
                  [alive |-> TRUE, connected |-> TRUE, createTime |-> clock, requests |-> 0]]
           /\ Becomes(u, "add", user[u].now, c, <<>>)
    BY <1>7 DEF Connect
  <2>2. "add" \in PoolPlaces
    BY DEF PoolPlaces
  <2>3. user' \in [PoolUsers -> UserStates]
    BY <1>0, <1>1, <2>1, <2>2, BecomesTyped
  <2>4. [alive |-> TRUE, connected |-> TRUE, createTime |-> clock, requests |-> 0] \in ConnStates
    BY <1>0 DEF ConnStates
  <2>5. connection' \in [Conns -> ConnStates]
    BY <1>0, <2>1, <2>4
  <2> QED BY <1>0, <1>7, <2>3, <2>5 DEF Connect, PoolTyped
<1>8. CASE AddTotal(u)
  <2>1. "request" \in PoolPlaces
    BY DEF PoolPlaces
  <2>2. user' \in [PoolUsers -> UserStates]
    BY <1>0, <1>8, <2>1, UserSteps, BecomesTyped
  <2>3. m_total' \in Int
    BY <1>0, <1>8 DEF AddTotal
  <2> QED BY <1>0, <1>8, <2>2, <2>3 DEF AddTotal, PoolTyped
<1>9. ASSUME NEW outcome \in Outcomes, PoolRequest(u, outcome)
      PROVE  PoolTyped'
  <2>1. "release" \in PoolPlaces
    BY DEF PoolPlaces
  <2>2. user' \in [PoolUsers -> UserStates]
    BY <1>0, <1>9, <2>1, UserSteps, BecomesTyped
  <2>3. connection' \in [Conns -> ConnStates]
    BY <1>9, RequestEffect
  <2> QED BY <1>0, <1>9, <2>2, <2>3 DEF PoolRequest, PoolTyped
<1>10. CASE ReleasePtr(u)
  <2>1. "decrement" \in PoolPlaces /\ "push" \in PoolPlaces
    BY DEF PoolPlaces
  <2>2. user[u].ptr \in Conns
    BY <1>0, <1>10 DEF InHand, HandOf, ReleasePtr, PoolAt
  <2>3. user' \in [PoolUsers -> UserStates]
    BY <1>0, <1>1, <1>10, <2>1, <2>2, ReleaseEffect, BecomesTyped
  <2>4. connection' \in [Conns -> ConnStates]
    BY <1>10, <2>2, ReleaseEffect
  <2> QED BY <1>0, <1>10, <2>3, <2>4 DEF ReleasePtr, PoolTyped
<1>11. CASE PushBack(u)
  <2>1. "idle" \in PoolPlaces
    BY DEF PoolPlaces
  <2>2. user' \in [PoolUsers -> UserStates]
    BY <1>0, <1>1, <1>11, <2>1, BecomesTyped DEF PushBack
  <2>3. user[u].ptr \in Conns
    BY <1>0, <1>11 DEF InHand, HandOf, PushBack, PoolAt
  <2>4. m_conns' \in Seq(Conns)
    BY <1>0, <1>11, <2>3 DEF PushBack
  <2> QED BY <1>0, <1>11, <2>2, <2>4 DEF PushBack, PoolTyped
<1> QED BY <1>2, <1>3, <1>4, <1>5, <1>6, <1>7, <1>8, <1>9, <1>10, <1>11 DEF PoolMoves

\* A thread's next locals, field by field; the other threads keep theirs, and what they hold.
LEMMA Locals ==
    ASSUME PoolTyped, NEW u \in PoolUsers, NEW pc, NEW now, NEW ptr, NEW invalid,
           Becomes(u, pc, now, ptr, invalid)
    PROVE  /\ user'[u].pc = pc /\ user'[u].ptr = ptr /\ user'[u].invalid = invalid
           /\ \A v \in PoolUsers \ {u} : user'[v] = user[v]
           /\ Held(u)' = (IF pc = "clean" THEN ToSet(invalid) ELSE {}) \cup ({ptr} \ {NoConn})
           /\ \A v \in PoolUsers \ {u} : Held(v)' = Held(v)
<1>1. user'[u] = [pc |-> pc, now |-> now, ptr |-> ptr, invalid |-> invalid]
  BY DEF PoolTyped, Becomes
<1>2. \A v \in PoolUsers \ {u} : user'[v] = user[v]
  BY DEF PoolTyped, Becomes
<1>3. user'[u].pc = pc /\ user'[u].ptr = ptr /\ user'[u].invalid = invalid
  BY <1>1
<1> QED BY <1>2, <1>3 DEF Held, PoolAt

\* Whatever one thread takes from, or gives to, the list or the heap, each connection keeps one
\* owner if nobody else holds what the thread and the list then have.
LEMMA OwnersKept ==
    ASSUME OneOwner, NEW u \in PoolUsers, \A v \in PoolUsers \ {u} : Held(v)' = Held(v),
           IsInjective(m_conns'), Held(u)' \cap ToSet(m_conns') = {},
           \A v \in PoolUsers \ {u} : (ToSet(m_conns') \cup Held(u)') \cap Held(v) = {},
           Alive' = (Alive \ (ToSet(m_conns) \cup Held(u))) \cup ToSet(m_conns') \cup Held(u)'
    PROVE  OneOwner'
<1>1. \A v \in PoolUsers : Held(v)' \cap ToSet(m_conns') = {}
  OBVIOUS
<1>2. \A v, w \in PoolUsers : v # w => Held(v)' \cap Held(w)' = {}
  BY DEF OneOwner
<1>3. \A c : c \in Alive' <=> c \in ToSet(m_conns') \/ \E v \in PoolUsers : c \in Held(v)'
  <2> SUFFICES ASSUME NEW c
               PROVE  c \in Alive' <=> c \in ToSet(m_conns') \/ \E v \in PoolUsers : c \in Held(v)'
    OBVIOUS
  <2>1. \A v \in PoolUsers \ {u} : c \in Held(v) => c \in Alive /\ c \notin ToSet(m_conns) \cup Held(u)
    BY DEF OneOwner
  <2>2. c \in Alive /\ c \notin ToSet(m_conns) \cup Held(u) => \E v \in PoolUsers \ {u} : c \in Held(v)
    BY DEF OneOwner
  <2> QED BY <2>1, <2>2
<1>4. Alive' = ToSet(m_conns') \cup UNION {Held(v)' : v \in PoolUsers}
  BY <1>3
<1> QED BY <1>1, <1>2, <1>4 DEF OneOwner

\* The elements of a sequence.
LEMMA Elements ==
    ASSUME NEW s \in Seq(Conns)
    PROVE  /\ \A c : c \in ToSet(s) <=> \E i \in 1 .. Len(s) : c = s[i]
           /\ IsInjective(s) <=> \A i, j \in 1 .. Len(s) : s[i] = s[j] => i = j
           /\ ToSet(s) \subseteq Conns
<1>1. DOMAIN s = 1 .. Len(s) /\ \A i \in 1 .. Len(s) : s[i] \in Conns
  OBVIOUS
<1> QED BY <1>1 DEF ToSet, IsInjective

\* What is taken off the list are its first elements.
LEMMA CutElements ==
    ASSUME NEW s \in Seq(Conns), NEW n \in 0 .. Len(s)
    PROVE  \A c : c \in ToSet(SubSeq(s, 1, n)) <=> \E i \in 1 .. n : c = s[i]
<1> DEFINE a == SubSeq(s, 1, n)
<1>1. a \in Seq(Conns) /\ Len(a) = n /\ \A i \in 1 .. n : a[i] = s[i]
  BY Cut
<1> HIDE DEF a
<1>2. \A c : c \in ToSet(a) <=> \E i \in 1 .. n : c = a[i]
  BY <1>1, Elements
<1>3. \A c : c \in ToSet(a) <=> \E i \in 1 .. n : c = s[i]
  BY <1>1, <1>2
<1> QED BY <1>3 DEF a

\* Splitting a list without repetitions.
LEMMA CutInjective ==
    ASSUME NEW s \in Seq(Conns), IsInjective(s), NEW n \in 0 .. Len(s)
    PROVE  /\ IsInjective(SubSeq(s, 1, n)) /\ IsInjective(SubSeq(s, n + 1, Len(s)))
           /\ ToSet(SubSeq(s, 1, n)) \cap ToSet(SubSeq(s, n + 1, Len(s))) = {}
           /\ ToSet(SubSeq(s, 1, n)) \cup ToSet(SubSeq(s, n + 1, Len(s))) = ToSet(s)
<1> DEFINE a == SubSeq(s, 1, n)
           b == SubSeq(s, n + 1, Len(s))
<1>0. Len(s) \in Nat /\ n \in Nat /\ n <= Len(s)
  OBVIOUS
<1>1. /\ a \in Seq(Conns) /\ Len(a) = n /\ \A i \in 1 .. n : a[i] = s[i]
      /\ b \in Seq(Conns) /\ Len(b) = Len(s) - n /\ \A i \in 1 .. Len(s) - n : b[i] = s[n + i]
  BY Cut
<1> HIDE DEF a, b
<1>2. \A i, j \in 1 .. Len(s) : s[i] = s[j] => i = j
  BY Elements
<1>3. IsInjective(a)
  <2>1. ASSUME NEW i \in 1 .. n, NEW j \in 1 .. n, a[i] = a[j]
        PROVE  i = j
    <3>1. i \in 1 .. Len(s) /\ j \in 1 .. Len(s) /\ s[i] = s[j]
      BY <1>0, <1>1, <2>1
    <3> QED BY <1>2, <3>1
  <2> QED BY <1>1, <2>1, Elements
<1>4. IsInjective(b)
  <2>1. ASSUME NEW i \in 1 .. Len(s) - n, NEW j \in 1 .. Len(s) - n, b[i] = b[j]
        PROVE  i = j
    <3>1. n + i \in 1 .. Len(s) /\ n + j \in 1 .. Len(s) /\ s[n + i] = s[n + j]
      BY <1>0, <1>1, <2>1
    <3> QED BY <1>0, <1>2, <3>1
  <2> QED BY <1>1, <2>1, Elements
<1>5. ASSUME NEW c, c \in ToSet(a), c \in ToSet(b)
      PROVE  FALSE
  <2>1. PICK i \in 1 .. n : c = a[i]
    BY <1>1, <1>5, Elements
  <2>2. PICK j \in 1 .. Len(s) - n : c = b[j]
    BY <1>1, <1>5, Elements
  <2>3. s[i] = c /\ s[n + j] = c
    BY <1>1, <2>1, <2>2
  <2>4. i \in 1 .. Len(s) /\ n + j \in 1 .. Len(s) /\ i # n + j
    BY <1>0
  <2> QED BY <1>2, <2>3, <2>4
<1>6. ASSUME NEW c \in ToSet(s)
      PROVE  c \in ToSet(a) \cup ToSet(b)
  <2>1. PICK i \in 1 .. Len(s) : c = s[i]
    BY Elements
  <2>2. CASE i <= n
    <3>1. i \in 1 .. n /\ c = a[i]
      BY <1>0, <1>1, <2>1, <2>2
    <3> QED BY <1>1, <3>1, Elements
  <2>3. CASE i > n
    <3>1. i - n \in 1 .. Len(s) - n /\ c = b[i - n]
      BY <1>0, <1>1, <2>1, <2>3
    <3> QED BY <1>1, <3>1, Elements
  <2> QED BY <1>0, <2>2, <2>3
<1>7. ASSUME NEW c \in ToSet(a) \cup ToSet(b)
      PROVE  c \in ToSet(s)
  <2>1. CASE c \in ToSet(a)
    <3>1. PICK i \in 1 .. n : c = a[i]
      BY <1>1, <2>1, Elements
    <3>2. i \in 1 .. Len(s) /\ c = s[i]
      BY <1>0, <1>1, <3>1
    <3> QED BY <3>2, Elements
  <2>2. CASE c \in ToSet(b)
    <3>1. PICK j \in 1 .. Len(s) - n : c = b[j]
      BY <1>1, <2>2, Elements
    <3>2. n + j \in 1 .. Len(s) /\ c = s[n + j]
      BY <1>0, <1>1, <3>1
    <3> QED BY <3>2, Elements
  <2> QED BY <1>7, <2>1, <2>2
<1> QED BY <1>3, <1>4, <1>5, <1>6, <1>7 DEF a, b

\* A connection changes hands between the list and a thread, or is created or deleted by the
\* thread that holds it.
LEMMA OwnersStep ==
    ASSUME PoolTyped, InHand, OneOwner, NEW u \in PoolUsers, PoolMoves(u)
    PROVE  OneOwner'
<1>0. /\ m_conns \in Seq(Conns) /\ connection \in [Conns -> ConnStates] /\ NoConn \notin Conns
      /\ user[u].ptr \in Conns \cup {NoConn} /\ user[u].invalid \in Seq(Conns)
  BY PoolAssumption DEF PoolTyped, UserStates
<1>a. /\ IsInjective(m_conns)
      /\ \A v \in PoolUsers : Held(v) \cap ToSet(m_conns) = {}
      /\ \A v, w \in PoolUsers : v # w => Held(v) \cap Held(w) = {}
      /\ ToSet(m_conns) \subseteq Alive /\ \A v \in PoolUsers : Held(v) \subseteq Alive
      /\ Alive \subseteq Conns
  BY DEF OneOwner, Alive
<1>1. ASSUME m_conns' = m_conns, Alive' = Alive, Held(u)' = Held(u),
             \A v \in PoolUsers \ {u} : Held(v)' = Held(v)
      PROVE  OneOwner'
  BY <1>1, <1>a, OwnersKept
<1>2. CASE ReadClock(u)
  <2>1. /\ Becomes(u, "lock", clock, NoConn, <<>>) /\ user[u].pc = "idle" /\ UNCHANGED <<m_conns, connection>>
    BY <1>2 DEF ReadClock, PoolAt
  <2>2. Held(u) = {} /\ Held(u)' = {}
    BY <2>1, Locals DEF InHand, HandOf, Held, PoolAt
  <2> QED BY <1>1, <2>1, <2>2, Locals DEF Alive
<1>3. CASE TakeConnection(u)
  <2>1. PICK n \in 0 .. Len(m_conns) :
           /\ m_conns' = SubSeq(m_conns, n + 1, Len(m_conns))
           /\ \/ Becomes(u, "clean", user[u].now, NoConn, SubSeq(m_conns, 1, n))
              \/ n > 0 /\ Becomes(u, "clean", user[u].now, m_conns[n], SubSeq(m_conns, 1, n - 1))
    BY <1>3, TakeEffect
  <2>2. connection' = connection /\ user[u].pc = "lock"
    BY <1>3 DEF TakeConnection, PoolAt
  <2>3. Held(u) = {} /\ Alive' = Alive
    BY <2>2 DEF InHand, HandOf, Held, PoolAt, Alive
  <2>4. /\ IsInjective(m_conns') /\ ToSet(SubSeq(m_conns, 1, n)) \cap ToSet(m_conns') = {}
        /\ ToSet(SubSeq(m_conns, 1, n)) \cup ToSet(m_conns') = ToSet(m_conns)
    BY <1>0, <1>a, <2>1, CutInjective
  <2>5. Held(u)' = ToSet(SubSeq(m_conns, 1, n)) /\ \A v \in PoolUsers \ {u} : Held(v)' = Held(v)
    <3>1. CASE Becomes(u, "clean", user[u].now, NoConn, SubSeq(m_conns, 1, n))
      <4>1. /\ Held(u)' = ToSet(SubSeq(m_conns, 1, n)) \cup ({NoConn} \ {NoConn})
            /\ \A v \in PoolUsers \ {u} : Held(v)' = Held(v)
        BY <3>1, Locals
      <4> QED BY <4>1
    <3>2. CASE n > 0 /\ Becomes(u, "clean", user[u].now, m_conns[n], SubSeq(m_conns, 1, n - 1))
      <4>1. /\ Held(u)' = ToSet(SubSeq(m_conns, 1, n - 1)) \cup ({m_conns[n]} \ {NoConn})
            /\ \A v \in PoolUsers \ {u} : Held(v)' = Held(v)
        BY <3>2, Locals
      <4>2. m_conns[n] \in Conns /\ n - 1 \in 0 .. Len(m_conns) /\ Len(m_conns) \in Nat
        BY <1>0, <3>2
      <4>4. \A c : c \in ToSet(SubSeq(m_conns, 1, n)) <=> \E i \in 1 .. n : c = m_conns[i]
        BY <1>0, CutElements
      <4>5. \A c : c \in ToSet(SubSeq(m_conns, 1, n - 1)) <=> \E i \in 1 .. n - 1 : c = m_conns[i]
        BY <1>0, <4>2, CutElements
      <4>6. \A i \in 1 .. n : i = n \/ i \in 1 .. n - 1
        BY <4>2
      <4>7. n \in 1 .. n /\ \A i \in 1 .. n - 1 : i \in 1 .. n
        BY <3>2, <4>2
      <4>8. ToSet(SubSeq(m_conns, 1, n)) = ToSet(SubSeq(m_conns, 1, n - 1)) \cup {m_conns[n]}
        BY <4>4, <4>5, <4>6, <4>7
      <4> QED BY <1>0, <4>1, <4>2, <4>8
    <3> QED BY <2>1, <3>1, <3>2
  <2>6. Alive' = (Alive \ (ToSet(m_conns) \cup Held(u))) \cup ToSet(m_conns') \cup Held(u)'
    BY <1>a, <2>3, <2>4, <2>5
  <2>7. \A v \in PoolUsers \ {u} : (ToSet(m_conns') \cup Held(u)') \cap Held(v) = {}
    BY <1>a, <2>4, <2>5
  <2> QED BY <2>4, <2>5, <2>6, <2>7, OwnersKept
<1>4. CASE DeleteInvalid(u)
  <2>1. /\ Becomes(u, "subtract", user[u].now, user[u].ptr, user[u].invalid) /\ user[u].pc = "clean"
        /\ m_conns' = m_conns /\ Delete(ToSet(user[u].invalid))
    BY <1>4, UserSteps DEF DeleteInvalid, PoolAt
  <2>2. /\ Held(u) = ToSet(user[u].invalid) \cup ({user[u].ptr} \ {NoConn})
        /\ Held(u)' = {user[u].ptr} \ {NoConn} /\ \A v \in PoolUsers \ {u} : Held(v)' = Held(v)
        /\ user[u].ptr \notin ToSet(user[u].invalid)
    BY <2>1, Locals DEF Held, InHand, HandOf, PoolAt
  <2>3. Alive' = Alive \ ToSet(user[u].invalid)
    <3>1. \A c \in Conns : connection'[c] = IF c \in ToSet(user[u].invalid) THEN Freed ELSE connection[c]
      BY <2>1 DEF Delete
    <3>2. ~Freed.alive
      BY DEF Freed
    <3> QED BY <3>1, <3>2 DEF Alive
  <2>4. /\ Alive' = (Alive \ (ToSet(m_conns) \cup Held(u))) \cup ToSet(m_conns') \cup Held(u)'
        /\ \A v \in PoolUsers \ {u} : (ToSet(m_conns') \cup Held(u)') \cap Held(v) = {}
        /\ Held(u)' \cap ToSet(m_conns') = {}
    BY <1>a, <2>1, <2>2, <2>3
  <2> QED BY <1>a, <2>1, <2>2, <2>4, OwnersKept
<1>5. CASE SubtractInvalid(u) \/ ConnectFails(u) \/ AddTotal(u) \/ Decrement(u)
  <2>1. UNCHANGED <<m_conns, connection>> /\ user[u].pc # "clean"
    BY <1>5 DEF SubtractInvalid, ConnectFails, AddTotal, Decrement, PoolAt
  <2>2. \E pc, now, invalid : pc # "clean" /\ Becomes(u, pc, now, user[u].ptr, invalid)
    <3>1. CASE SubtractInvalid(u)
      <4>1. Becomes(u, IF user[u].ptr = NoConn THEN "connect" ELSE "request", user[u].now, user[u].ptr, <<>>)
        BY <3>1 DEF SubtractInvalid
      <4> QED BY <4>1
    <3>2. CASE ConnectFails(u) \/ AddTotal(u) \/ Decrement(u)
      BY <3>2, UserSteps
    <3> QED BY <1>5, <3>1, <3>2
  <2>3. Held(u)' = Held(u) /\ \A v \in PoolUsers \ {u} : Held(v)' = Held(v)
    BY <2>1, <2>2, Locals DEF Held, PoolAt
  <2> QED BY <1>1, <2>1, <2>3 DEF Alive
<1>6. CASE Connect(u)
  <2>1. PICK c \in Conns \ Alive :
           /\ connection' = [connection EXCEPT ![c] =
                  [alive |-> TRUE, connected |-> TRUE, createTime |-> clock, requests |-> 0]]
           /\ Becomes(u, "add", user[u].now, c, <<>>)
    BY <1>6 DEF Connect
  <2>2. m_conns' = m_conns /\ user[u].pc = "connect"
    BY <1>6 DEF Connect, PoolAt
  <2>3. Held(u) = {} /\ Held(u)' = {c} /\ \A v \in PoolUsers \ {u} : Held(v)' = Held(v)
    BY <1>0, <2>1, <2>2, Locals DEF Held, InHand, HandOf, PoolAt
  <2>4. Alive' = Alive \cup {c}
    <3>1. \A d \in Conns : IF d = c THEN connection'[d].alive ELSE connection'[d] = connection[d]
      BY <1>0, <2>1
    <3> QED BY <2>1, <3>1 DEF Alive
  <2>5. /\ Alive' = (Alive \ (ToSet(m_conns) \cup Held(u))) \cup ToSet(m_conns') \cup Held(u)'
        /\ \A v \in PoolUsers \ {u} : (ToSet(m_conns') \cup Held(u)') \cap Held(v) = {}
        /\ Held(u)' \cap ToSet(m_conns') = {}
    BY <1>a, <2>1, <2>2, <2>3, <2>4
  <2> QED BY <1>a, <2>2, <2>3, <2>5, OwnersKept
<1>7. ASSUME NEW outcome \in Outcomes, PoolRequest(u, outcome)
      PROVE  OneOwner'
  <2>1. /\ Becomes(u, "release", user[u].now, user[u].ptr, user[u].invalid) /\ m_conns' = m_conns
        /\ user[u].pc = "request"
    BY <1>7, UserSteps DEF PoolRequest, PoolAt
  <2>2. Held(u)' = Held(u) /\ \A v \in PoolUsers \ {u} : Held(v)' = Held(v)
    BY <2>1, Locals DEF Held, PoolAt
  <2>3. Alive' = Alive
    BY <1>7, RequestEffect DEF Alive
  <2> QED BY <1>1, <2>1, <2>2, <2>3
<1>8. CASE ReleasePtr(u)
  <2>1. user[u].pc = "release" /\ m_conns' = m_conns /\ user[u].ptr \in Conns
    BY <1>0, <1>8 DEF InHand, HandOf, ReleasePtr, PoolAt
  <2>2. Held(u) = {user[u].ptr}
    BY <1>0, <2>1 DEF Held, PoolAt
  <2>3. \A c \in Conns \ {user[u].ptr} : connection'[c] = connection[c]
    BY <1>8, <2>1, ReleaseEffect
  <2>4. CASE /\ Becomes(u, "decrement", user[u].now, NoConn, <<>>)
             /\ ~connection'[user[u].ptr].alive
    <3>1. Held(u)' = {} /\ \A v \in PoolUsers \ {u} : Held(v)' = Held(v)
      BY <2>4, Locals
    <3>2. Alive' = Alive \ {user[u].ptr}
      BY <2>3, <2>4 DEF Alive
    <3>3. /\ Alive' = (Alive \ (ToSet(m_conns) \cup Held(u))) \cup ToSet(m_conns') \cup Held(u)'
          /\ \A v \in PoolUsers \ {u} : (ToSet(m_conns') \cup Held(u)') \cap Held(v) = {}
          /\ Held(u)' \cap ToSet(m_conns') = {}
      BY <1>a, <2>1, <2>2, <3>1, <3>2
    <3> QED BY <1>a, <2>1, <3>1, <3>3, OwnersKept
  <2>5. CASE /\ Becomes(u, "push", user[u].now, user[u].ptr, <<>>)
             /\ connection'[user[u].ptr].alive = connection[user[u].ptr].alive
    <3>1. Held(u)' = Held(u) /\ \A v \in PoolUsers \ {u} : Held(v)' = Held(v)
      BY <1>0, <2>1, <2>2, <2>5, Locals
    <3>2. Alive' = Alive
      BY <2>3, <2>5 DEF Alive
    <3> QED BY <1>1, <2>1, <3>1, <3>2
  <2> QED BY <1>8, <2>1, <2>4, <2>5, ReleaseEffect
<1>9. CASE PushBack(u)
  <2>1. /\ user[u].pc = "push" /\ user[u].ptr \in Conns /\ connection' = connection
        /\ m_conns' = Append(m_conns, user[u].ptr) /\ Becomes(u, "idle", user[u].now, NoConn, <<>>)
    BY <1>0, <1>9 DEF InHand, HandOf, PushBack, PoolAt
  <2>2. Held(u) = {user[u].ptr} /\ Held(u)' = {} /\ \A v \in PoolUsers \ {u} : Held(v)' = Held(v)
    BY <1>0, <2>1, Locals DEF Held, PoolAt
  <2>3. user[u].ptr \notin ToSet(m_conns) /\ Alive' = Alive
    BY <1>a, <2>1, <2>2 DEF Alive
  <2>4. /\ m_conns' \in Seq(Conns) /\ Len(m_conns') = Len(m_conns) + 1 /\ Len(m_conns) \in Nat
        /\ \A i \in 1 .. Len(m_conns) : m_conns'[i] = m_conns[i]
        /\ m_conns'[Len(m_conns) + 1] = user[u].ptr
    BY <1>0, <2>1
  <2>5. \A i \in 1 .. Len(m_conns') : i \in 1 .. Len(m_conns) \/ i = Len(m_conns) + 1
    BY <2>4
  <2>6. \A i \in 1 .. Len(m_conns) : m_conns[i] \in ToSet(m_conns)
    BY <1>0, Elements
  <2>7. \A i, j \in 1 .. Len(m_conns) : m_conns[i] = m_conns[j] => i = j
    BY <1>0, <1>a, Elements
  <2>8. IsInjective(m_conns')
    <3>1. \A i, j \in 1 .. Len(m_conns') : m_conns'[i] = m_conns'[j] => i = j
      BY <2>3, <2>4, <2>5, <2>6, <2>7
    <3> QED BY <2>4, <3>1, Elements
  <2>9. ToSet(m_conns') = ToSet(m_conns) \cup {user[u].ptr}
    <3>1. \A c : c \in ToSet(m_conns') <=> \E i \in 1 .. Len(m_conns') : c = m_conns'[i]
      BY <2>4, Elements
    <3>2. \A c : c \in ToSet(m_conns) <=> \E i \in 1 .. Len(m_conns) : c = m_conns[i]
      BY <1>0, Elements
    <3>3. Len(m_conns) + 1 \in 1 .. Len(m_conns') /\ \A i \in 1 .. Len(m_conns) : i \in 1 .. Len(m_conns')
      BY <2>4
    <3> QED BY <2>4, <2>5, <3>1, <3>2, <3>3
  <2>10. /\ Alive' = (Alive \ (ToSet(m_conns) \cup Held(u))) \cup ToSet(m_conns') \cup Held(u)'
         /\ \A v \in PoolUsers \ {u} : (ToSet(m_conns') \cup Held(u)') \cap Held(v) = {}
         /\ Held(u)' \cap ToSet(m_conns') = {}
    BY <1>a, <2>2, <2>3, <2>9
  <2> QED BY <2>2, <2>8, <2>10, OwnersKept
<1> QED BY <1>2, <1>3, <1>4, <1>5, <1>6, <1>7, <1>8, <1>9 DEF PoolMoves

\* What is handed out has requests left, and a thread's list to delete is without repetitions.
LEMMA HandsStep ==
    ASSUME PoolTyped, InHand, OneOwner, NEW u \in PoolUsers, PoolMoves(u)
    PROVE  InHand'
<1>0. /\ m_conns \in Seq(Conns) /\ connection \in [Conns -> ConnStates] /\ NoConn \notin Conns
      /\ user[u].ptr \in Conns \cup {NoConn} /\ user[u].invalid \in Seq(Conns)
      /\ \A v \in PoolUsers : user[v].ptr # NoConn => user[v].ptr \in Held(v)
      /\ 0 < MaxRequest
  BY PoolAssumption DEF PoolTyped, UserStates, Held
<1>a. /\ IsInjective(m_conns)
      /\ \A v \in PoolUsers : Held(v) \cap ToSet(m_conns) = {}
      /\ \A v, w \in PoolUsers : v # w => Held(v) \cap Held(w) = {}
      /\ ToSet(m_conns) \subseteq Alive /\ \A v \in PoolUsers : Held(v) \subseteq Alive
      /\ Alive \subseteq Conns
  BY DEF OneOwner, Alive
<1>b. HandOf(u) /\ (\A v \in PoolUsers : HandOf(v)) /\ \A c \in ToSet(m_conns) : connection[c].requests < MaxRequest
  BY DEF InHand
\* what the other threads and the list hold is as it was, or has no more requests than before
<1>1. ASSUME NEW pc, NEW now, NEW ptr, NEW invalid, Becomes(u, pc, now, ptr, invalid),
             HandOf(u)',
             \A v \in PoolUsers \ {u} : \A c \in Held(v) :
                connection[c].requests < MaxRequest => connection'[c].requests < MaxRequest,
             \A c \in ToSet(m_conns') : connection'[c].requests < MaxRequest
      PROVE  InHand'
  <2>1. \A v \in PoolUsers \ {u} : user'[v] = user[v]
    BY <1>1, Locals
  <2>2. \A v \in PoolUsers \ {u} : HandOf(v)'
    BY <1>0, <1>1, <1>b, <2>1 DEF HandOf
  <2> QED BY <1>1, <2>2 DEF InHand
<1>2. CASE ReadClock(u)
  <2>1. Becomes(u, "lock", clock, NoConn, <<>>) /\ UNCHANGED <<m_conns, connection>>
    BY <1>2 DEF ReadClock
  <2>2. HandOf(u)'
    BY <2>1, Locals DEF HandOf
  <2> QED BY <1>1, <1>b, <2>1, <2>2
<1>3. CASE TakeConnection(u)
  <2>1. PICK n \in 0 .. Len(m_conns) :
           /\ m_conns' = SubSeq(m_conns, n + 1, Len(m_conns))
           /\ \/ Becomes(u, "clean", user[u].now, NoConn, SubSeq(m_conns, 1, n))
              \/ n > 0 /\ Becomes(u, "clean", user[u].now, m_conns[n], SubSeq(m_conns, 1, n - 1))
    BY <1>3, TakeEffect
  <2>2. connection' = connection
    BY <1>3 DEF TakeConnection
  <2>3. IsInjective(SubSeq(m_conns, 1, n)) /\ ToSet(m_conns') \subseteq ToSet(m_conns)
    BY <1>0, <1>a, <2>1, CutInjective
  <2>4. CASE Becomes(u, "clean", user[u].now, NoConn, SubSeq(m_conns, 1, n))
    <3>1. NoConn \notin ToSet(SubSeq(m_conns, 1, n))
      <4>1. SubSeq(m_conns, 1, n) \in Seq(Conns)
        BY <1>0, Cut
      <4> QED BY <1>0, <4>1, Elements
    <3>2. HandOf(u)'
      BY <2>3, <2>4, <3>1, Locals DEF HandOf
    <3> QED BY <1>1, <1>b, <2>2, <2>3, <2>4, <3>2
  <2>5. CASE n > 0 /\ Becomes(u, "clean", user[u].now, m_conns[n], SubSeq(m_conns, 1, n - 1))
    <3>1. n - 1 \in 0 .. Len(m_conns) /\ n \in 1 .. Len(m_conns) /\ \A i \in 1 .. n - 1 : i # n /\ i \in 1 .. Len(m_conns)
      BY <1>0, <2>5
    <3>2. IsInjective(SubSeq(m_conns, 1, n - 1))
      BY <1>0, <1>a, <3>1, CutInjective
    <3>3. m_conns[n] \notin ToSet(SubSeq(m_conns, 1, n - 1))
      <4>1. \A i, j \in 1 .. Len(m_conns) : m_conns[i] = m_conns[j] => i = j
        BY <1>0, <1>a, Elements
      <4>2. \A c : c \in ToSet(SubSeq(m_conns, 1, n - 1)) <=> \E i \in 1 .. n - 1 : c = m_conns[i]
        BY <1>0, <3>1, CutElements
      <4> QED BY <3>1, <4>1, <4>2
    <3>4. connection[m_conns[n]].requests < MaxRequest
      <4>1. m_conns[n] \in ToSet(m_conns)
        BY <1>0, <3>1, Elements
      <4> QED BY <1>b, <4>1
    <3>5. HandOf(u)'
      BY <2>2, <2>5, <3>2, <3>3, <3>4, Locals DEF HandOf
    <3> QED BY <1>1, <1>b, <2>2, <2>3, <2>5, <3>5
  <2> QED BY <2>1, <2>4, <2>5
<1>4. CASE DeleteInvalid(u)
  <2>1. /\ Becomes(u, "subtract", user[u].now, user[u].ptr, user[u].invalid) /\ user[u].pc = "clean"
        /\ m_conns' = m_conns /\ Delete(ToSet(user[u].invalid))
    BY <1>4, UserSteps DEF DeleteInvalid, PoolAt
  <2>2. \A c \in Conns : /\ connection[c].requests < MaxRequest => connection'[c].requests < MaxRequest
                         /\ c \notin Held(u) => connection'[c] = connection[c]
    BY <1>0, <2>1 DEF Delete, Freed, Held, PoolAt
  <2>3. user[u].ptr # NoConn => connection'[user[u].ptr].requests < MaxRequest
    BY <1>0, <1>b, <2>1, <2>2 DEF HandOf
  <2>4. HandOf(u)'
    BY <2>1, <2>3, Locals DEF HandOf
  <2>5. /\ \A v \in PoolUsers \ {u} : \A c \in Held(v) : connection'[c] = connection[c]
        /\ \A c \in ToSet(m_conns) : connection'[c] = connection[c]
    BY <1>a, <2>2
  <2> QED BY <1>1, <1>b, <2>1, <2>4, <2>5
<1>5. CASE SubtractInvalid(u)
  <2>1. /\ Becomes(u, IF user[u].ptr = NoConn THEN "connect" ELSE "request", user[u].now, user[u].ptr, <<>>)
        /\ UNCHANGED <<m_conns, connection>> /\ user[u].pc = "subtract"
    BY <1>5 DEF SubtractInvalid, PoolAt
  <2>2. HandOf(u)'
    BY <1>b, <2>1, Locals DEF HandOf
  <2> QED BY <1>1, <1>b, <2>1, <2>2
<1>6. CASE ConnectFails(u) \/ Decrement(u)
  <2>1. /\ Becomes(u, "idle", user[u].now, user[u].ptr, user[u].invalid)
        /\ UNCHANGED <<m_conns, connection>> /\ user[u].pc \in {"connect", "decrement"}
    BY <1>6, UserSteps DEF ConnectFails, Decrement, PoolAt
  <2>2. HandOf(u)'
    BY <1>b, <2>1, Locals DEF HandOf
  <2> QED BY <1>1, <1>b, <2>1, <2>2
<1>7. CASE Connect(u)
  <2>1. PICK c \in Conns \ Alive :
           /\ connection' = [connection EXCEPT ![c] =
                  [alive |-> TRUE, connected |-> TRUE, createTime |-> clock, requests |-> 0]]
           /\ Becomes(u, "add", user[u].now, c, <<>>)
    BY <1>7 DEF Connect
  <2>2. /\ m_conns' = m_conns /\ connection'[c].requests = 0
        /\ \A d \in Conns \ {c} : connection'[d] = connection[d]
    BY <1>0, <1>7, <2>1 DEF Connect
  <2>3. HandOf(u)'
    BY <1>0, <2>1, <2>2, Locals DEF HandOf
  <2>4. /\ \A v \in PoolUsers \ {u} : \A d \in Held(v) : connection'[d] = connection[d]
        /\ \A d \in ToSet(m_conns) : connection'[d] = connection[d]
    BY <1>a, <2>1, <2>2
  <2> QED BY <1>1, <1>b, <2>1, <2>2, <2>3, <2>4
<1>8. CASE AddTotal(u)
  <2>1. /\ Becomes(u, "request", user[u].now, user[u].ptr, user[u].invalid)
        /\ UNCHANGED <<m_conns, connection>> /\ user[u].pc = "add"
    BY <1>8, UserSteps DEF AddTotal, PoolAt
  <2>2. HandOf(u)'
    BY <1>b, <2>1, Locals DEF HandOf
  <2> QED BY <1>1, <1>b, <2>1, <2>2
<1>9. ASSUME NEW outcome \in Outcomes, PoolRequest(u, outcome)
      PROVE  InHand'
  <2>1. /\ Becomes(u, "release", user[u].now, user[u].ptr, user[u].invalid) /\ m_conns' = m_conns
        /\ user[u].pc = "request"
    BY <1>9, UserSteps DEF PoolRequest, PoolAt
  <2>2. \A c \in Conns : connection'[c].requests = connection[c].requests
    BY <1>9, RequestEffect
  <2>3. HandOf(u)'
    BY <1>b, <2>1, Locals DEF HandOf
  <2> QED BY <1>1, <1>a, <1>b, <2>1, <2>2, <2>3
<1>10. CASE ReleasePtr(u)
  <2>1. user[u].pc = "release" /\ m_conns' = m_conns /\ user[u].ptr \in Conns /\ user[u].ptr \in Held(u)
    BY <1>0, <1>b, <1>10 DEF HandOf, ReleasePtr, PoolAt
  <2>2. \A c \in Conns \ {user[u].ptr} : connection'[c] = connection[c]
    BY <1>10, <2>1, ReleaseEffect
  <2>3. /\ \A v \in PoolUsers \ {u} : \A c \in Held(v) : connection'[c] = connection[c]
        /\ \A c \in ToSet(m_conns) : connection'[c] = connection[c]
    BY <1>a, <2>1, <2>2
  <2>4. CASE Becomes(u, "decrement", user[u].now, NoConn, <<>>)
    <3>1. HandOf(u)'
      BY <2>4, Locals DEF HandOf
    <3> QED BY <1>1, <1>b, <2>1, <2>3, <2>4, <3>1
  <2>5. CASE /\ Becomes(u, "push", user[u].now, user[u].ptr, <<>>)
             /\ connection'[user[u].ptr].requests < MaxRequest
    <3>1. HandOf(u)'
      BY <1>0, <2>1, <2>5, Locals DEF HandOf
    <3> QED BY <1>1, <1>b, <2>1, <2>3, <2>5, <3>1
  <2> QED BY <1>10, <2>1, <2>4, <2>5, ReleaseEffect
<1>11. CASE PushBack(u)
  <2>1. /\ user[u].pc = "push" /\ user[u].ptr \in Conns /\ connection' = connection
        /\ m_conns' = Append(m_conns, user[u].ptr) /\ Becomes(u, "idle", user[u].now, NoConn, <<>>)
    BY <1>0, <1>11 DEF InHand, HandOf, PushBack, PoolAt
  <2>2. HandOf(u)'
    BY <2>1, Locals DEF HandOf
  <2>3. \A c \in ToSet(m_conns') : c \in ToSet(m_conns) \/ c = user[u].ptr
    <3>1. /\ m_conns' \in Seq(Conns) /\ Len(m_conns') = Len(m_conns) + 1 /\ Len(m_conns) \in Nat
          /\ \A i \in 1 .. Len(m_conns) : m_conns'[i] = m_conns[i]
          /\ m_conns'[Len(m_conns) + 1] = user[u].ptr
      BY <1>0, <2>1
    <3>2. \A i \in 1 .. Len(m_conns') : i \in 1 .. Len(m_conns) \/ i = Len(m_conns) + 1
      BY <3>1
    <3>3. \A c : c \in ToSet(m_conns') <=> \E i \in 1 .. Len(m_conns') : c = m_conns'[i]
      BY <3>1, Elements
    <3>4. \A i \in 1 .. Len(m_conns) : m_conns[i] \in ToSet(m_conns)
      BY <1>0, Elements
    <3> QED BY <3>1, <3>2, <3>3, <3>4
  <2>4. connection[user[u].ptr].requests < MaxRequest
    BY <1>0, <1>b, <2>1 DEF HandOf
  <2> QED BY <1>1, <1>b, <2>1, <2>2, <2>3, <2>4
<1> QED BY <1>2, <1>3, <1>4, <1>5, <1>6, <1>7, <1>8, <1>9, <1>10, <1>11 DEF PoolMoves

\* A list without repetitions has as many elements as places.
LEMMA ListSize ==
    ASSUME NEW s \in Seq(Conns), IsInjective(s)
    PROVE  IsFiniteSet(ToSet(s)) /\ Cardinality(ToSet(s)) = Len(s)
<1> DEFINE D == 1 .. Len(s)
           T == ToSet(s)
<1>1. Len(s) \in Nat /\ s \in [D -> Conns]
  OBVIOUS
<1>2. s \in [D -> T] /\ (\A i, j \in D : s[i] = s[j] => i = j) /\ \A c \in T : \E i \in D : s[i] = c
  BY <1>1, Elements
<1>3. IsFiniteSet(D) /\ Cardinality(D) = Len(s)
  BY <1>1, FS_Interval
<1> HIDE DEF D, T
<1>4. s \in Bijection(D, T)
  BY <1>2 DEF Bijection, Injection, Surjection, IsInjective
<1>5. ExistsBijection(D, T)
  BY <1>4 DEF ExistsBijection
<1>6. IsFiniteSet(T) /\ Cardinality(T) = Cardinality(D)
  BY <1>3, <1>5, FS_Bijection
<1> QED BY <1>3, <1>6 DEF T

\* k pairs of a thread more.
LEMMA PairsMore ==
    ASSUME NEW S, IsFiniteSet(S), NEW u, NEW k \in Nat, S \cap ({u} \X (1 .. k)) = {}
    PROVE  /\ IsFiniteSet(S \cup ({u} \X (1 .. k)))
           /\ Cardinality(S \cup ({u} \X (1 .. k))) = Cardinality(S) + k
<1> DEFINE I == 1 .. k
           U == {u}
           P == U \X I
<1>1. IsFiniteSet(I) /\ Cardinality(I) = k
  BY FS_Interval
<1>2. IsFiniteSet(U) /\ Cardinality(U) = 1
  BY FS_Singleton
<1>3. IsFiniteSet(P) /\ Cardinality(P) = k
  <2> HIDE DEF I, U
  <2>1. IsFiniteSet(P) /\ Cardinality(P) = Cardinality(U) * Cardinality(I)
    BY <1>1, <1>2, FS_Product
  <2> QED BY <1>1, <1>2, <2>1
<1>4. S \cap P = {}
  OBVIOUS
<1> HIDE DEF P
<1>5. Cardinality(S \cap P) = 0
  BY <1>4, FS_EmptySet
<1>6. /\ IsFiniteSet(S \cup P)
      /\ Cardinality(S \cup P) = Cardinality(S) + Cardinality(P) - Cardinality(S \cap P)
  BY <1>3, FS_Union
<1>7. Cardinality(S) \in Nat
  BY FS_CardinalityType
<1>8. Cardinality(S \cup P) = Cardinality(S) + k
  BY <1>3, <1>5, <1>6, <1>7
<1> QED BY <1>6, <1>8 DEF P

\* What is owed in all changes by what one thread owes.
LEMMA OwedMoves ==
    ASSUME NEW u \in PoolUsers, IsFiniteSet(Owed), \A v \in PoolUsers \ {u} : user'[v] = user[v],
           Unsubtracted(u) \in Nat, Unsubtracted(u)' \in Nat
    PROVE  /\ IsFiniteSet(Owed')
           /\ Cardinality(Owed') = Cardinality(Owed) - Unsubtracted(u) + Unsubtracted(u)'
<1>1. PICK k \in Nat : k = Unsubtracted(u)
  OBVIOUS
<1>2. PICK l \in Nat : l = Unsubtracted(u)'
  OBVIOUS
<1>3. PICK rest : rest = UNION {{v} \X (1 .. Unsubtracted(v)) : v \in PoolUsers \ {u}}
  OBVIOUS
<1>4. Owed = rest \cup ({u} \X (1 .. k))
  BY <1>1, <1>3 DEF Owed
<1>5. \A v \in PoolUsers \ {u} : Unsubtracted(v)' = Unsubtracted(v)
  BY DEF Unsubtracted, PoolAt
<1>6. Owed' = UNION {{v} \X (1 .. Unsubtracted(v)') : v \in PoolUsers}
  BY DEF Owed
<1>7. Owed' = rest \cup ({u} \X (1 .. l))
  BY <1>2, <1>3, <1>5, <1>6
<1>8. \A n \in Nat : rest \cap ({u} \X (1 .. n)) = {}
  BY <1>3
<1>9. IsFiniteSet(rest)
  <2>1. rest \in SUBSET Owed
    BY <1>4
  <2> QED BY <2>1, FS_Subset
<1>10. Cardinality(rest) \in Nat
  BY <1>9, FS_CardinalityType
<1>11. Cardinality(Owed) = Cardinality(rest) + k
  BY <1>4, <1>8, <1>9, PairsMore
<1>12. IsFiniteSet(Owed') /\ Cardinality(Owed') = Cardinality(rest) + l
  BY <1>7, <1>8, <1>9, PairsMore
<1> QED BY <1>1, <1>2, <1>10, <1>11, <1>12

\* The threads with a connection to add change by one thread at most.
LEMMA UnaddedMoves ==
    ASSUME NEW u \in PoolUsers, \A v \in PoolUsers \ {u} : user'[v] = user[v]
    PROVE  /\ Cardinality(Unadded) \in Nat
           /\ PoolAt(u, "add") /\ user'[u].pc # "add" => Cardinality(Unadded') = Cardinality(Unadded) - 1
           /\ ~PoolAt(u, "add") /\ user'[u].pc = "add" => Cardinality(Unadded') = Cardinality(Unadded) + 1
           /\ ~PoolAt(u, "add") /\ user'[u].pc # "add" => Cardinality(Unadded') = Cardinality(Unadded)
<1>1. IsFiniteSet(Unadded)
  <2>1. Unadded \in SUBSET PoolUsers
    BY DEF Unadded
  <2> QED BY <2>1, PoolAssumption, FS_Subset
<1>2. Cardinality(Unadded) \in Nat
  BY <1>1, FS_CardinalityType
<1>3. u \in Unadded <=> PoolAt(u, "add")
  BY DEF Unadded
<1>4. Unadded' = IF user'[u].pc = "add" THEN Unadded \cup {u} ELSE Unadded \ {u}
  BY DEF Unadded, PoolAt
<1>5. /\ Cardinality(Unadded \cup {u}) = IF u \in Unadded THEN Cardinality(Unadded) ELSE Cardinality(Unadded) + 1
      /\ Cardinality(Unadded \ {u}) = IF u \in Unadded THEN Cardinality(Unadded) - 1 ELSE Cardinality(Unadded)
  BY <1>1, FS_AddElement, FS_RemoveElement
<1> QED BY <1>2, <1>3, <1>4, <1>5

\* m_total follows each creation and each deletion, a step later.
LEMMA CountedStep ==
    ASSUME PoolTyped, InHand, OneOwner, Counted, NEW u \in PoolUsers, PoolMoves(u)
    PROVE  Counted'
<1> DEFINE alive == Cardinality(Alive)
           owed == Cardinality(Owed)
           unadded == Cardinality(Unadded)
<1>0. /\ connection \in [Conns -> ConnStates] /\ NoConn \notin Conns /\ m_total \in Int
      /\ user[u].ptr \in Conns \cup {NoConn} /\ user[u].invalid \in Seq(Conns) /\ Len(user[u].invalid) \in Nat
  BY PoolAssumption DEF PoolTyped, UserStates
<1>1. IsFiniteSet(Alive) /\ alive \in Nat
  <2>1. Alive \in SUBSET Conns
    BY DEF Alive
  <2>2. IsFiniteSet(Alive)
    BY <2>1, PoolAssumption, FS_Subset
  <2> QED BY <2>2, FS_CardinalityType
<1>2. IsFiniteSet(Owed) /\ owed \in Nat /\ unadded \in Nat /\ m_total = alive + owed - unadded
  <2>1. IsFiniteSet(Unadded)
    <3>1. Unadded \in SUBSET PoolUsers
      BY DEF Unadded
    <3> QED BY <3>1, PoolAssumption, FS_Subset
  <2>2. unadded \in Nat
    BY <2>1, FS_CardinalityType
  <2>3. IsFiniteSet(Owed) /\ m_total = alive + owed - unadded
    BY DEF Counted
  <2>4. owed \in Nat
    BY <2>3, FS_CardinalityType
  <2> QED BY <2>2, <2>3, <2>4
<1> HIDE DEF alive, owed, unadded
\* the steps that create and delete nothing, and count nothing
<1>3. ASSUME UNCHANGED m_total, Alive' = Alive, NEW pc, NEW now, NEW ptr, NEW invalid,
             Becomes(u, pc, now, ptr, invalid),
             user[u].pc \notin {"subtract", "decrement", "add"}, pc \notin {"subtract", "decrement", "add"}
      PROVE  Counted'
  <2>1. user'[u].pc = pc /\ \A v \in PoolUsers \ {u} : user'[v] = user[v]
    BY <1>3, Locals
  <2>2. Unsubtracted(u) = 0 /\ Unsubtracted(u)' = 0
    BY <1>3, <2>1 DEF Unsubtracted, PoolAt
  <2>3. IsFiniteSet(Owed') /\ Cardinality(Owed') = owed - 0 + 0
    BY <1>2, <2>1, <2>2, OwedMoves DEF owed
  <2>4. Cardinality(Unadded') = unadded
    BY <1>3, <2>1, UnaddedMoves DEF unadded, PoolAt
  <2> QED BY <1>2, <1>3, <2>3, <2>4 DEF Counted, alive
<1>4. CASE ReadClock(u)
  <2>1. Becomes(u, "lock", clock, NoConn, <<>>) /\ UNCHANGED <<m_total, connection>> /\ user[u].pc = "idle"
    BY <1>4 DEF ReadClock, PoolAt
  <2> QED BY <1>3, <2>1 DEF Alive
<1>5. CASE TakeConnection(u)
  <2>1. UNCHANGED <<m_total, connection>> /\ user[u].pc = "lock"
    BY <1>5 DEF TakeConnection, PoolAt
  <2>2. \E ptr, invalid : Becomes(u, "clean", user[u].now, ptr, invalid)
    BY <1>5 DEF TakeConnection
  <2> QED BY <1>3, <2>1, <2>2 DEF Alive
<1>6. CASE DeleteInvalid(u)
  <2>1. /\ Becomes(u, "subtract", user[u].now, user[u].ptr, user[u].invalid) /\ user[u].pc = "clean"
        /\ m_total' = m_total /\ Delete(ToSet(user[u].invalid))
    BY <1>6, UserSteps DEF DeleteInvalid, PoolAt
  <2>2. /\ user'[u].pc = "subtract" /\ user'[u].invalid = user[u].invalid
        /\ \A v \in PoolUsers \ {u} : user'[v] = user[v]
    BY <2>1, Locals
  <2>3. IsInjective(user[u].invalid) /\ ToSet(user[u].invalid) \subseteq Alive
    BY <2>1 DEF InHand, HandOf, OneOwner, Held, PoolAt
  <2>4. Alive' = Alive \ ToSet(user[u].invalid)
    <3>1. \A c \in Conns : connection'[c] = IF c \in ToSet(user[u].invalid) THEN Freed ELSE connection[c]
      BY <2>1 DEF Delete
    <3>2. ~Freed.alive
      BY DEF Freed
    <3> QED BY <3>1, <3>2 DEF Alive
  <2>5. Cardinality(Alive') = alive - Len(user[u].invalid)
    <3>1. Cardinality(ToSet(user[u].invalid)) = Len(user[u].invalid)
      BY <1>0, <2>3, ListSize
    <3>2. Alive \cap ToSet(user[u].invalid) = ToSet(user[u].invalid)
      BY <2>3
    <3>3. Cardinality(Alive \ ToSet(user[u].invalid)) = alive - Cardinality(Alive \cap ToSet(user[u].invalid))
      BY <1>1, FS_Difference DEF alive
    <3> QED BY <2>4, <3>1, <3>2, <3>3
  <2>6. Unsubtracted(u) = 0 /\ Unsubtracted(u)' = Len(user[u].invalid)
    BY <2>1, <2>2 DEF Unsubtracted, PoolAt
  <2>7. IsFiniteSet(Owed') /\ Cardinality(Owed') = owed - 0 + Len(user[u].invalid)
    BY <1>0, <1>2, <2>2, <2>6, OwedMoves DEF owed
  <2>8. Cardinality(Unadded') = unadded
    BY <2>1, <2>2, UnaddedMoves DEF unadded, PoolAt
  <2>9. PICK deleted \in Nat : deleted = Len(user[u].invalid)
    BY <1>0
  <2>10. m_total' = (alive - deleted) + (owed + deleted) - unadded
    BY <1>0, <1>1, <1>2, <2>1
  <2>11. Cardinality(Alive') = alive - deleted /\ Cardinality(Owed') = owed + deleted
    BY <1>2, <2>5, <2>7, <2>9
  <2> QED BY <2>7, <2>8, <2>10, <2>11 DEF Counted
<1>7. CASE SubtractInvalid(u)
  <2>1. /\ Becomes(u, IF user[u].ptr = NoConn THEN "connect" ELSE "request", user[u].now, user[u].ptr, <<>>)
        /\ connection' = connection /\ m_total' = m_total - Len(user[u].invalid) /\ user[u].pc = "subtract"
    BY <1>7 DEF SubtractInvalid, PoolAt
  <2>2. user'[u].pc \in {"connect", "request"} /\ \A v \in PoolUsers \ {u} : user'[v] = user[v]
    BY <2>1, Locals
  <2>3. Unsubtracted(u) = Len(user[u].invalid) /\ Unsubtracted(u)' = 0
    BY <2>1, <2>2 DEF Unsubtracted, PoolAt
  <2>4. IsFiniteSet(Owed') /\ Cardinality(Owed') = owed - Len(user[u].invalid) + 0
    BY <1>0, <1>2, <2>2, <2>3, OwedMoves DEF owed
  <2>5. Cardinality(Unadded') = unadded
    BY <2>1, <2>2, UnaddedMoves DEF unadded, PoolAt
  <2>6. Cardinality(Alive') = alive
    BY <2>1 DEF Alive, alive
  <2> QED BY <1>0, <1>1, <1>2, <2>1, <2>4, <2>5, <2>6 DEF Counted
<1>8. CASE ConnectFails(u)
  <2>1. /\ Becomes(u, "idle", user[u].now, user[u].ptr, user[u].invalid) /\ user[u].pc = "connect"
        /\ UNCHANGED <<m_total, connection>>
    BY <1>8, UserSteps DEF ConnectFails, PoolAt
  <2> QED BY <1>3, <2>1 DEF Alive
<1>9. CASE Connect(u)
  <2>1. PICK c \in Conns \ Alive :
           /\ connection' = [connection EXCEPT ![c] =
                  [alive |-> TRUE, connected |-> TRUE, createTime |-> clock, requests |-> 0]]
           /\ Becomes(u, "add", user[u].now, c, <<>>)
    BY <1>9 DEF Connect
  <2>2. m_total' = m_total /\ user[u].pc = "connect"
    BY <1>9 DEF Connect, PoolAt
  <2>3. user'[u].pc = "add" /\ \A v \in PoolUsers \ {u} : user'[v] = user[v]
    BY <2>1, Locals
  <2>4. Alive' = Alive \cup {c}
    <3>1. \A d \in Conns : IF d = c THEN connection'[d].alive ELSE connection'[d] = connection[d]
      BY <1>0, <2>1
    <3> QED BY <2>1, <3>1 DEF Alive
  <2>5. Cardinality(Alive') = alive + 1
    BY <1>1, <2>1, <2>4, FS_AddElement DEF alive
  <2>6. Unsubtracted(u) = 0 /\ Unsubtracted(u)' = 0
    BY <2>2, <2>3 DEF Unsubtracted, PoolAt
  <2>7. IsFiniteSet(Owed') /\ Cardinality(Owed') = owed - 0 + 0
    BY <1>2, <2>3, <2>6, OwedMoves DEF owed
  <2>8. Cardinality(Unadded') = unadded + 1
    BY <2>2, <2>3, UnaddedMoves DEF unadded, PoolAt
  <2> QED BY <1>1, <1>2, <2>2, <2>5, <2>7, <2>8 DEF Counted
<1>10. CASE AddTotal(u)
  <2>1. /\ Becomes(u, "request", user[u].now, user[u].ptr, user[u].invalid) /\ user[u].pc = "add"
        /\ m_total' = m_total + 1 /\ connection' = connection
    BY <1>10, UserSteps DEF AddTotal, PoolAt
  <2>2. user'[u].pc = "request" /\ \A v \in PoolUsers \ {u} : user'[v] = user[v]
    BY <2>1, Locals
  <2>3. Unsubtracted(u) = 0 /\ Unsubtracted(u)' = 0
    BY <2>1, <2>2 DEF Unsubtracted, PoolAt
  <2>4. IsFiniteSet(Owed') /\ Cardinality(Owed') = owed - 0 + 0
    BY <1>2, <2>2, <2>3, OwedMoves DEF owed
  <2>5. Cardinality(Unadded') = unadded - 1
    BY <2>1, <2>2, UnaddedMoves DEF unadded, PoolAt
  <2>6. Cardinality(Alive') = alive
    BY <2>1 DEF Alive, alive
  <2> QED BY <1>1, <1>2, <2>1, <2>4, <2>5, <2>6 DEF Counted
<1>11. ASSUME NEW outcome \in Outcomes, PoolRequest(u, outcome)
       PROVE  Counted'
  <2>1. /\ Becomes(u, "release", user[u].now, user[u].ptr, user[u].invalid) /\ m_total' = m_total
        /\ user[u].pc = "request"
    BY <1>11, UserSteps DEF PoolRequest, PoolAt
  <2>2. Alive' = Alive
    BY <1>11, RequestEffect DEF Alive
  <2> QED BY <1>3, <2>1, <2>2
<1>12. CASE ReleasePtr(u)
  <2>1. /\ user[u].pc = "release" /\ m_total' = m_total /\ user[u].ptr \in Conns
        /\ user[u].ptr \in Alive
    BY <1>0, <1>12 DEF InHand, HandOf, ReleasePtr, PoolAt, OneOwner, Held
  <2>2. \A c \in Conns \ {user[u].ptr} : connection'[c] = connection[c]
    BY <1>12, <2>1, ReleaseEffect
  <2>3. CASE /\ Becomes(u, "decrement", user[u].now, NoConn, <<>>)
             /\ ~connection'[user[u].ptr].alive
    <3>1. user'[u].pc = "decrement" /\ \A v \in PoolUsers \ {u} : user'[v] = user[v]
      BY <2>3, Locals
    <3>2. Alive' = Alive \ {user[u].ptr}
      BY <2>2, <2>3 DEF Alive
    <3>3. Cardinality(Alive') = alive - 1
      BY <1>1, <2>1, <3>2, FS_RemoveElement DEF alive
    <3>4. Unsubtracted(u) = 0 /\ Unsubtracted(u)' = 1
      BY <2>1, <3>1 DEF Unsubtracted, PoolAt
    <3>5. IsFiniteSet(Owed') /\ Cardinality(Owed') = owed - 0 + 1
      BY <1>2, <3>1, <3>4, OwedMoves DEF owed
    <3>6. Cardinality(Unadded') = unadded
      BY <2>1, <3>1, UnaddedMoves DEF unadded, PoolAt
    <3> QED BY <1>1, <1>2, <2>1, <3>3, <3>5, <3>6 DEF Counted
  <2>4. CASE /\ Becomes(u, "push", user[u].now, user[u].ptr, <<>>)
             /\ connection'[user[u].ptr].alive = connection[user[u].ptr].alive
    <3>1. Alive' = Alive
      BY <2>2, <2>4 DEF Alive
    <3> QED BY <1>3, <2>1, <2>4, <3>1
  <2> QED BY <1>12, <2>1, <2>3, <2>4, ReleaseEffect
<1>13. CASE Decrement(u)
  <2>1. /\ Becomes(u, "idle", user[u].now, user[u].ptr, user[u].invalid) /\ user[u].pc = "decrement"
        /\ m_total' = m_total - 1 /\ connection' = connection
    BY <1>13, UserSteps DEF Decrement, PoolAt
  <2>2. user'[u].pc = "idle" /\ \A v \in PoolUsers \ {u} : user'[v] = user[v]
    BY <2>1, Locals
  <2>3. Unsubtracted(u) = 1 /\ Unsubtracted(u)' = 0
    BY <2>1, <2>2 DEF Unsubtracted, PoolAt
  <2>4. IsFiniteSet(Owed') /\ Cardinality(Owed') = owed - 1 + 0
    BY <1>2, <2>2, <2>3, OwedMoves DEF owed
  <2>5. Cardinality(Unadded') = unadded
    BY <2>1, <2>2, UnaddedMoves DEF unadded, PoolAt
  <2>6. Cardinality(Alive') = alive
    BY <2>1 DEF Alive, alive
  <2> QED BY <1>1, <1>2, <2>1, <2>4, <2>5, <2>6 DEF Counted
<1>14. CASE PushBack(u)
  <2>1. /\ Becomes(u, "idle", user[u].now, NoConn, <<>>) /\ user[u].pc = "push"
        /\ UNCHANGED <<m_total, connection>>
    BY <1>14 DEF PushBack, PoolAt
  <2> QED BY <1>3, <2>1 DEF Alive
<1> QED BY <1>4, <1>5, <1>6, <1>7, <1>8, <1>9, <1>10, <1>11, <1>12, <1>13, <1>14 DEF PoolMoves

\* Nothing is pooled, held or owed at first.
LEMMA PoolStart == PoolInit => PoolInv
<1> SUFFICES ASSUME PoolInit PROVE PoolInv
  OBVIOUS
<1>1. /\ m_conns = <<>> /\ clock = 0 /\ m_total = 0 /\ connection = [c \in Conns |-> Freed]
      /\ \A u \in PoolUsers : user[u] = [pc |-> "idle", now |-> 0, ptr |-> NoConn, invalid |-> <<>>]
  BY DEF PoolInit
<1>2. PoolTyped
  <2>1. Freed \in ConnStates
    BY DEF Freed, ConnStates
  <2>2. [pc |-> "idle", now |-> 0, ptr |-> NoConn, invalid |-> <<>>] \in UserStates
    BY DEF UserStates, PoolPlaces
  <2>3. user \in [PoolUsers -> UserStates] /\ connection \in [Conns -> ConnStates]
    BY <2>1, <2>2 DEF PoolInit
  <2>4. m_conns \in Seq(Conns)
    BY <1>1
  <2> QED BY <1>1, <2>3, <2>4 DEF PoolTyped
<1>3. ToSet(m_conns) = {} /\ IsInjective(m_conns)
  BY <1>1 DEF ToSet, IsInjective
<1>4. \A u \in PoolUsers : user[u].pc = "idle" /\ user[u].ptr = NoConn
  BY <1>1
<1>5. InHand
  BY <1>3, <1>4 DEF InHand, HandOf
<1>6. Alive = {} /\ \A u \in PoolUsers : Held(u) = {}
  BY <1>1, <1>4 DEF Alive, Freed, Held, PoolAt
<1>7. OneOwner
  BY <1>3, <1>6 DEF OneOwner
<1>8. Owed = {}
  <2>1. \A u \in PoolUsers : Unsubtracted(u) = 0
    BY <1>4 DEF Unsubtracted, PoolAt
  <2> QED BY <2>1 DEF Owed
<1>9. Unadded = {}
  BY <1>4 DEF Unadded, PoolAt
<1>10. Counted
  BY <1>1, <1>6, <1>8, <1>9, FS_EmptySet DEF Counted
<1> QED BY <1>2, <1>5, <1>7, <1>10 DEF PoolInv

\* The invariant of getConnection(), the request and ReleasePtr().
THEOREM PoolInvariant == PoolSpec => []PoolInv
<1>1. PoolInv /\ [PoolNext]_poolVars => PoolInv'
  <2> SUFFICES ASSUME PoolInv, [PoolNext]_poolVars PROVE PoolInv'
    OBVIOUS
  <2>1. ASSUME NEW u \in PoolUsers, PoolMoves(u)
        PROVE  PoolInv'
    BY <2>1, PoolTypesKept, HandsStep, OwnersStep, CountedStep DEF PoolInv
  <2>2. ASSUME clock' \in Nat, UNCHANGED <<m_conns, m_total, connection, user>>
        PROVE  PoolInv'
    <3>1. PoolTyped'
      BY <2>2 DEF PoolInv, PoolTyped
    <3>2. \A u \in PoolUsers : Held(u)' = Held(u) /\ Unsubtracted(u)' = Unsubtracted(u)
      BY <2>2 DEF Held, Unsubtracted, PoolAt
    <3>3. Alive' = Alive /\ Unadded' = Unadded
      BY <2>2 DEF Alive, Unadded, PoolAt
    <3>4. Owed' = Owed
      BY <3>2 DEF Owed
    <3>5. InHand'
      BY <2>2 DEF PoolInv, InHand, HandOf
    <3>6. OneOwner'
      BY <2>2, <3>2, <3>3 DEF PoolInv, OneOwner
    <3>7. Counted'
      BY <2>2, <3>3, <3>4 DEF PoolInv, Counted
    <3> QED BY <3>1, <3>5, <3>6, <3>7 DEF PoolInv
  <2>3. CASE PoolTick
    BY <2>2, <2>3 DEF PoolTick, PoolInv, PoolTyped
  <2>4. CASE UNCHANGED poolVars
    BY <2>2, <2>4 DEF poolVars, PoolInv, PoolTyped
  <2> QED BY <2>1, <2>3, <2>4 DEF PoolNext, PoolMoves
<1> QED BY PoolStart, <1>1, PTL DEF PoolSpec

\* Each connection that is alive has one owner and m_total counts them, up to what the threads
\* between a deletion or a creation and its counting still owe, however they interleave.
THEOREM ConnectionsOwned == PoolSpec => []PoolOwned
<1>1. ASSUME PoolInv PROVE PoolOwned
  <2>1. PoolOneOwner
    BY <1>1 DEF PoolInv, InHand, HandOf, OneOwner, PoolOneOwner, PoolAt
  <2>2. m_total = Cardinality(Alive) + Cardinality(Owed) - Cardinality(Unadded) /\ IsFiniteSet(Owed)
    BY <1>1 DEF PoolInv, Counted
  <2>3. IsFiniteSet(Alive)
    <3>1. Alive \in SUBSET Conns
      BY DEF Alive
    <3> QED BY <3>1, PoolAssumption, FS_Subset
  <2>4. PICK f : f = [u \in Unadded |-> user[u].ptr]
    OBVIOUS
  <2>5. f \in Injection(Unadded, Alive)
    <3>1. \A u \in Unadded : user[u].ptr \in Held(u) /\ u \in PoolUsers
      BY <1>1 DEF PoolInv, InHand, HandOf, Held, Unadded, PoolAt
    <3>2. \A u \in Unadded : user[u].ptr \in Alive
      BY <1>1, <3>1 DEF PoolInv, OneOwner
    <3>3. \A u, v \in Unadded : u # v => user[u].ptr # user[v].ptr
      BY <1>1, <3>1 DEF PoolInv, OneOwner
    <3>4. f \in [Unadded -> Alive]
      BY <2>4, <3>2
    <3>5. \A u, v \in Unadded : f[u] = f[v] => u = v
      BY <2>4, <3>3
    <3> QED BY <3>4, <3>5 DEF Injection, IsInjective
  <2>6. IsFiniteSet(Unadded) /\ Cardinality(Unadded) <= Cardinality(Alive)
    BY <2>3, <2>5, FS_Injection
  <2>7. Cardinality(Alive) \in Nat /\ Cardinality(Owed) \in Nat /\ Cardinality(Unadded) \in Nat
    BY <2>2, <2>3, <2>6, FS_CardinalityType
  <2>8. m_total >= 0
    <3>1. PICK alive, owed, unadded \in Nat :
             alive = Cardinality(Alive) /\ owed = Cardinality(Owed) /\ unadded = Cardinality(Unadded)
      BY <2>7
    <3> QED BY <2>2, <2>6, <3>1
  <2> QED BY <2>1, <2>2, <2>8 DEF PoolOwned, PoolTotalExact
<1> QED BY <1>1, PoolInvariant, PTL

-----------------------------------------------------------------------------
(* ByteArray: the blocks, and the flat array they stand for.               *)

\* Division by the block size.
LEMMA Division ==
    ASSUME NEW n \in Nat
    PROVE  /\ n \div Base \in Nat /\ n % Base \in 0 .. Base - 1
           /\ n = Base * (n \div Base) + (n % Base)
BY BytesAssumption

\* A product that exceeds a multiple of b by less than b is not of a larger factor.
LEMMA Products ==
    ASSUME NEW b \in Nat \ {0}, NEW q \in Int, NEW p \in Int, NEW r \in 0 .. b - 1, b * q <= b * p + r
    PROVE  q <= p
<1>1. SUFFICES ASSUME p + 1 <= q PROVE FALSE
  OBVIOUS
<1>2. b * (p + 1) <= b * q
  BY <1>1
<1>3. b * (p + 1) = b * p + b
  OBVIOUS
<1> QED BY <1>2, <1>3

\* More blocks hold no fewer bytes.
LEMMA Monotone ==
    ASSUME NEW b \in Nat \ {0}, NEW q \in Int, NEW p \in Int, q <= p
    PROVE  b * q <= b * p
OBVIOUS

\* q blocks fit in n bytes if and only if q is at most the quotient.
LEMMA Quotient ==
    ASSUME NEW n \in Nat, NEW q \in Int
    PROVE  q <= n \div Base <=> Base * q <= n
<1>1. /\ n \div Base \in Nat /\ n % Base \in 0 .. Base - 1
      /\ n = Base * (n \div Base) + (n % Base)
  BY Division
<1>2. ASSUME q <= n \div Base PROVE Base * q <= n
  <2>1. Base * q <= Base * (n \div Base)
    BY <1>1, <1>2, BytesAssumption, Monotone
  <2> QED BY <1>1, <2>1, BytesAssumption
<1>3. ASSUME Base * q <= n PROVE q <= n \div Base
  BY <1>1, <1>3, Products, BytesAssumption
<1> QED BY <1>2, <1>3

\* The quotient and the remainder of q blocks and r bytes more.
LEMMA QuotientIs ==
    ASSUME NEW q \in Nat, NEW r \in 0 .. Base - 1
    PROVE  (Base * q + r) \div Base = q /\ (Base * q + r) % Base = r
<1>1. PICK n \in Nat : n = Base * q + r
  BY BytesAssumption
<1>2. /\ n \div Base \in Nat /\ n % Base \in 0 .. Base - 1
      /\ n = Base * (n \div Base) + (n % Base)
  BY Division
<1>3. q <= n \div Base /\ n \div Base <= q
  BY <1>1, <1>2, Products, BytesAssumption
<1>4. n \div Base = q
  BY <1>2, <1>3
<1>5. n % Base = r
  BY <1>1, <1>2, <1>4, BytesAssumption
<1> QED BY <1>1, <1>4, <1>5

\* Going n bytes on from m passes as many blocks as going on from the offset of m in its block.
LEMMA QuotientSum ==
    ASSUME NEW m \in Nat, NEW n \in Nat
    PROVE  (m + n) \div Base = (m \div Base) + (((m % Base) + n) \div Base)
<1>1. PICK q \in Nat : q = m \div Base
  BY Division
<1>2. PICK r \in 0 .. Base - 1 : r = m % Base
  BY Division
<1>3. r \in Nat /\ r + n \in Nat /\ m = Base * q + r
  BY <1>1, <1>2, Division, BytesAssumption
<1>4. PICK p \in Nat : p = (r + n) \div Base
  BY <1>3, Division
<1>5. PICK s \in 0 .. Base - 1 : s = (r + n) % Base
  BY <1>3, Division
<1>6. r + n = Base * p + s
  BY <1>3, <1>4, <1>5, Division
<1>7. m + n = Base * (q + p) + s
  BY <1>3, <1>6, BytesAssumption
<1>8. (m + n) \div Base = q + p
  BY <1>7, QuotientIs
<1>9. ((m % Base) + n) \div Base = p
  BY <1>2, <1>4
<1>10. (m \div Base) + (((m % Base) + n) \div Base) = q + p
  BY <1>1, <1>9
<1> QED BY <1>8, <1>10

\* what a place of a block holds
Contents == Bytes \cup {Junk}

\* The blocks are full and there is one.
LEMMA Sizes ==
    ASSUME TypeOK
    PROVE  /\ Blocks \in Nat \ {0} /\ Len(store) \in Nat /\ Len(store) = Base * Blocks
           /\ store \in Seq(Contents) /\ position \in Nat /\ size \in Nat
           /\ position <= size /\ size <= Len(store) /\ ReadSize \in Nat
<1>1. Len(store) \in Nat /\ Len(store) % Base = 0
  BY DEF TypeOK
<1>2. PICK b \in Nat : b = Len(store) \div Base
  BY <1>1, Division
<1>3. Len(store) = Base * b
  <2>1. PICK l \in Nat : l = Len(store)
    BY <1>1
  <2>2. l = Base * (l \div Base) + (l % Base)
    BY Division
  <2>3. l % Base = 0 /\ l \div Base = b
    BY <1>1, <1>2, <2>1
  <2> QED BY <2>1, <2>2, <2>3, BytesAssumption
<1> QED BY <1>1, <1>2, <1>3 DEF TypeOK, Blocks, Contents, ReadSize

\* A new block is filled with what nobody has written.
LEMMA JunkBlocks ==
    ASSUME NEW n \in Nat
    PROVE  Junks(n) \in Seq(Contents) /\ Len(Junks(n)) = n
BY DEF Junks, Contents

\* addCapacity adds whole blocks, until there is place for n bytes.
LEMMA Growth ==
    ASSUME TypeOK, NEW n \in Nat
    PROVE  /\ Grown(n) \in Seq(Contents) /\ Len(Grown(n)) \in Nat
           /\ \E b \in Nat : Blocks <= b /\ Len(Grown(n)) = Base * b
           /\ position + n <= Len(Grown(n)) /\ Len(store) <= Len(Grown(n))
           /\ \A i \in 1 .. Len(store) : Grown(n)[i] = store[i]
<1>0. /\ Blocks \in Nat /\ Len(store) \in Nat /\ Len(store) = Base * Blocks
      /\ store \in Seq(Contents) /\ position \in Nat /\ position <= Len(store)
  BY Sizes
<1>1. CASE Len(store) - position >= n
  BY <1>0, <1>1 DEF Grown
<1>2. CASE Len(store) - position < n
  <2>1. PICK x \in Nat : x = n - (Len(store) - position) + Base - 1
    BY <1>0, <1>2, BytesAssumption
  <2>2. PICK k \in Nat : k = x \div Base
    BY <2>1, Division
  <2>3. PICK r \in 0 .. Base - 1 : x = Base * k + r
    BY <2>2, Division
  <2>4. n - (Len(store) - position) <= Base * k
    BY <1>0, <2>1, <2>3, BytesAssumption
  <2>5. MoreBlocks(n) = k
    BY <2>1, <2>2 DEF MoreBlocks
  <2>6. PICK m \in Nat : m = Base * k /\ k * Base = m
    BY BytesAssumption
  <2>7. Grown(n) = store \o Junks(m)
    BY <1>0, <1>2, <2>5, <2>6 DEF Grown
  <2>8. Junks(m) \in Seq(Contents) /\ Len(Junks(m)) = m
    BY JunkBlocks
  <2>9. /\ Grown(n) \in Seq(Contents) /\ Len(Grown(n)) = Len(store) + m
        /\ \A i \in 1 .. Len(store) : Grown(n)[i] = store[i]
    <3>1. ASSUME NEW s \in Seq(Contents), NEW t \in Seq(Contents)
          PROVE  /\ s \o t \in Seq(Contents) /\ Len(s \o t) = Len(s) + Len(t)
                 /\ \A i \in 1 .. Len(s) : (s \o t)[i] = s[i]
      OBVIOUS
    <3>2. /\ store \o Junks(m) \in Seq(Contents) /\ Len(store \o Junks(m)) = Len(store) + Len(Junks(m))
          /\ \A i \in 1 .. Len(store) : (store \o Junks(m))[i] = store[i]
      BY <1>0, <2>8, <3>1
    <3> QED BY <2>7, <2>8, <3>2
  <2>10. Len(Grown(n)) = Base * (Blocks + k)
    BY <1>0, <2>6, <2>9, BytesAssumption
  <2> QED BY <1>0, <2>4, <2>6, <2>9, <2>10
<1> QED BY <1>0, <1>1, <1>2

\* The copy of at least one byte starts in a block, not behind the position.
LEMMA CopyStart ==
    ASSUME BlocksKept, NEW c \in Nat \ {0}, c <= (position \div Base) + 1
    PROVE  Start(c) \in Nat /\ Start(c) <= position
<1>1. PICK q \in Nat : q = position \div Base
  BY Division DEF BlocksKept, TypeOK
<1>2. PICK r \in 0 .. Base - 1 : r = position % Base
  BY Division DEF BlocksKept, TypeOK
<1>3. position = Base * q + r
  BY <1>1, <1>2, Division DEF BlocksKept, TypeOK
<1>4. Base * (c - 1) <= Base * q /\ 0 <= Base * (c - 1)
  BY <1>1, Monotone, BytesAssumption
<1>5. (c - 1) * Base = Base * (c - 1)
  BY BytesAssumption
<1> QED BY <1>2, <1>3, <1>4, <1>5, BytesAssumption DEF Start

\* Where writing goes on, after addCapacity.
LEMMA CurAfterGrowth ==
    ASSUME BlocksKept, NEW n \in Nat \ {0}
    PROVE  CurGrown(n) \in Nat \ {0} /\ CurGrown(n) <= (position \div Base) + 1
<1>0. /\ Blocks \in Nat /\ Len(store) = Base * Blocks /\ cur \in {Null} \cup 1 .. Blocks
      /\ position \in Nat /\ Len(store) \in Nat
  BY Sizes DEF BlocksKept, TypeOK
<1>1. CASE Len(store) = position
  <2>1. (Base * Blocks + 0) \div Base = Blocks
    BY <1>0, QuotientIs, BytesAssumption
  <2>2. position \div Base = Blocks
    BY <1>0, <1>1, <2>1, BytesAssumption
  <2> QED BY <1>0, <1>1, <2>2 DEF CurGrown
<1>2. CASE Len(store) # position
  BY <1>0, <1>2 DEF CurGrown, BlocksKept, NeverAhead, Null
<1> QED BY <1>1, <1>2

\* A copy replaces elements only.
LEMMA CopyShape ==
    ASSUME NEW s \in Seq(Contents), NEW c, Start(c) \in Nat, NEW data \in Seq(Bytes)
    PROVE  /\ Copied(s, c, data) \in Seq(Contents) /\ Len(Copied(s, c, data)) = Len(s)
           /\ \A i \in 1 .. Len(s) : Copied(s, c, data)[i] =
                  IF Start(c) < i /\ i <= Start(c) + Len(data) THEN data[i - Start(c)] ELSE s[i]
<1>1. PICK a \in Nat : a = Start(c)
  OBVIOUS
<1>2. \A i \in 1 .. Len(s) : (IF a < i /\ i <= a + Len(data) THEN data[i - a] ELSE s[i]) \in Contents
  BY DEF Contents
<1>3. DOMAIN s = 1 .. Len(s) /\ Len(s) \in Nat
  OBVIOUS
<1> QED BY <1>1, <1>2, <1>3 DEF Copied

\* A place among the bytes of b blocks is in one of them.
LEMMA InBlock ==
    ASSUME NEW p \in Nat, NEW b \in Nat, p < Base * b
    PROVE  (p \div Base) + 1 <= b
<1>1. PICK q \in Nat : q = p \div Base
  BY Division
<1>2. b <= q <=> Base * b <= p
  BY <1>1, Quotient
<1> QED BY <1>1, <1>2, BytesAssumption

\* Where write() leaves m_cur.
LEMMA WriteEnd ==
    ASSUME BlocksKept, NEW n \in Nat \ {0}, NEW c \in Nat \ {0}, c <= (position \div Base) + 1,
           NEW b \in Nat, position + n <= Base * b
    PROVE  LastBlock(c, n) \in 1 .. b /\ LastBlock(c, n) <= ((position + n) \div Base) + 1
<1>0. position \in Nat
  BY DEF BlocksKept, TypeOK
<1>1. PICK q \in Nat : q = position \div Base
  BY <1>0, Division
<1>2. PICK m \in Nat : n = m + 1
  <2>1. n - 1 \in Nat /\ n = (n - 1) + 1
    OBVIOUS
  <2> QED BY <2>1
<1>3. PICK r \in 0 .. Base - 1 : r = position % Base
  BY <1>0, Division
<1>4. r + m \in Nat
  BY <1>3, BytesAssumption
<1>5. PICK k \in Nat : k = (r + m) \div Base
  BY <1>4, Division
<1>6. LastBlock(c, n) = c + k
  <2>1. r + n - 1 = r + m
    BY <1>2, <1>3, BytesAssumption
  <2> QED BY <1>3, <1>5, <2>1 DEF LastBlock
<1>7. PICK p \in Nat : p = position + m
  BY <1>0
<1>8. p \div Base = q + k
  BY <1>0, <1>1, <1>3, <1>5, <1>7, QuotientSum
<1>9. q + k + 1 <= b
  <2>1. p < Base * b
    BY <1>0, <1>2, <1>7, BytesAssumption
  <2> QED BY <1>7, <1>8, <2>1, InBlock
<1>10. q + k <= (position + n) \div Base
  <2>1. Base * (q + k) <= p
    <3>1. q + k <= p \div Base
      BY <1>8
    <3> QED BY <1>7, <3>1, Quotient
  <2>2. PICK e \in Nat : e = position + n
    BY <1>0
  <2>3. Base * (q + k) <= e
    BY <1>0, <1>2, <1>7, <2>1, <2>2, BytesAssumption
  <2>4. q + k <= e \div Base
    BY <2>3, Quotient
  <2> QED BY <2>2, <2>4
<1>11. PICK e \in Nat : e = (position + n) \div Base
  BY <1>0, Division
<1> QED BY <1>1, <1>6, <1>9, <1>10, <1>11

\* Where read() leaves m_cur.
LEMMA ReadEnd ==
    ASSUME BlocksKept, NEW n \in Nat, n <= ReadSize, cur # Null
    PROVE  /\ NextBlock(n) \in {Null} \cup 1 .. Blocks
           /\ NextBlock(n) = Null => position + n = Len(store)
           /\ NextBlock(n) # Null => NextBlock(n) <= ((position + n) \div Base) + 1
<1>0. /\ position \in Nat /\ cur \in 1 .. Blocks /\ Blocks \in Nat /\ position + n <= Len(store)
      /\ Len(store) = Base * Blocks /\ Len(store) \in Nat
  BY Sizes DEF BlocksKept, TypeOK, ReadSize
<1>1. PICK q \in Nat : q = position \div Base
  BY <1>0, Division
<1>2. PICK r \in 0 .. Base - 1 : r = position % Base
  BY <1>0, Division
<1>3. PICK k \in Nat : k = (r + n) \div Base
  BY <1>2, Division, BytesAssumption
<1>4. PICK e \in Nat : e = position + n
  BY <1>0
<1>5. e \div Base = q + k
  BY <1>0, <1>1, <1>2, <1>3, <1>4, QuotientSum
<1>6. cur <= q + 1
  BY <1>1 DEF BlocksKept, NeverAhead
<1>7. NextBlock(n) = IF cur + k > Blocks THEN Null ELSE cur + k
  BY <1>2, <1>3 DEF NextBlock
<1>8. ASSUME Blocks < cur + k PROVE e = Len(store)
  <2>1. Blocks <= e \div Base
    BY <1>0, <1>5, <1>6, <1>8
  <2>2. Base * Blocks <= e
    BY <1>0, <1>4, <2>1, Quotient
  <2> QED BY <1>0, <1>4, <2>2
<1> QED BY <1>0, <1>4, <1>5, <1>6, <1>7, <1>8 DEF Null

\* Where setPosition() finds m_cur.
LEMMA SeekEnd ==
    ASSUME NEW s, NEW b \in Nat, Len(s) = Base * b, Len(s) \in Nat, NEW v \in Nat, v <= Len(s)
    PROVE  /\ BlockOf(v, s) \in {Null} \cup 1 .. b
           /\ BlockOf(v, s) = Null => v = Len(s)
           /\ BlockOf(v, s) # Null => BlockOf(v, s) <= (v \div Base) + 1
<1>1. PICK q \in Nat : q = v \div Base
  BY Division
<1>2. v # Len(s) => q + 1 <= b
  BY <1>1, InBlock, BytesAssumption
<1> QED BY <1>1, <1>2 DEF BlockOf, Null

\* What a copy reads is in the blocks.
LEMMA HereShape ==
    ASSUME BlocksKept, NEW n \in Nat, n <= ReadSize, cur # Null
    PROVE  /\ Here(n) \in Seq(Contents) /\ Len(Here(n)) = n
           /\ \A i \in 1 .. n : Here(n)[i] = store[Start(cur) + i]
<1>0. /\ store \in Seq(Contents) /\ Len(store) \in Nat /\ position \in Nat /\ position + n <= Len(store)
  BY Sizes DEF BlocksKept, TypeOK, ReadSize
<1>1. PICK a \in Nat : a = Start(cur) /\ a <= position
  <2>1. cur \in Nat \ {0} /\ cur <= (position \div Base) + 1
    BY Sizes DEF BlocksKept, TypeOK, NeverAhead, Null
  <2> QED BY <2>1, CopyStart
<1>2. a + n <= Len(store)
  BY <1>0, <1>1
<1>3. \A i \in 1 .. n : store[a + i] \in Contents
  BY <1>0, <1>2
<1>4. Here(n) = [i \in 1 .. n |-> store[a + i]]
  <2>1. Here(n) = SubSeq(store, a + 1, a + n)
    BY <1>1 DEF Here
  <2>2. SubSeq(store, a + 1, a + n) \in Seq(Contents) /\ Len(SubSeq(store, a + 1, a + n)) = n
    BY <1>0, <1>2
  <2>3. \A i \in 1 .. n : SubSeq(store, a + 1, a + n)[i] = store[a + i]
    BY <1>0, <1>2
  <2> QED BY <2>1, <2>2, <2>3
<1> QED BY <1>1, <1>3, <1>4

\* What the next state must satisfy.
LEMMA KeptBy ==
    ASSUME NEW b \in Nat \ {0}, store' \in Seq(Contents), Len(store') = Base * b,
           position' \in Nat, size' \in Nat, position' <= size', size' <= Len(store'),
           cur' \in {Null} \cup 1 .. b, cur' = Null => position' = Len(store'),
           cur' # Null => cur' <= (position' \div Base) + 1,
           got' \in Seq(Contents), broken' \in BOOLEAN
    PROVE  BlocksKept'
<1>1. (Base * b + 0) \div Base = b /\ (Base * b + 0) % Base = 0
  <2>1. 0 \in 0 .. Base - 1 /\ b \in Nat
    BY BytesAssumption
  <2> QED BY <2>1, QuotientIs
<1>2. Len(store') \div Base = b /\ Len(store') % Base = 0
  <2>1. Len(store') = Base * b + 0
    BY BytesAssumption
  <2> QED BY <1>1, <2>1
<1>3. Blocks' = b
  BY <1>2 DEF Blocks
<1> QED BY <1>2, <1>3 DEF BlocksKept, TypeOK, NeverAhead, Contents, Null

\* The larger of two numbers.
LEMMA Larger2 ==
    ASSUME NEW a \in Nat, NEW b \in Nat
    PROVE  Max({a, b}) \in {a, b} /\ a <= Max({a, b}) /\ b <= Max({a, b})
<1>1. \E x \in {a, b} : \A y \in {a, b} : x >= y
  OBVIOUS
<1>2. Max({a, b}) \in {a, b} /\ \A y \in {a, b} : Max({a, b}) >= y
  BY <1>1 DEF Max
<1> QED BY <1>2

\* The bytes a call is given are a sequence.
LEMMA GivenData ==
    ASSUME NEW data \in Datas
    PROVE  data \in Seq(Bytes) /\ Len(data) \in Nat
<1>1. \E n \in Nat : data \in [1 .. n -> Bytes]
  BY BytesAssumption DEF Datas, BoundedSeq, SeqOf
<1> QED BY <1>1

\* write(): the blocks addCapacity adds and the copy into them.
LEMMA WriteKept ==
    ASSUME BlocksKept, NEW data \in Datas, Write(data)
    PROVE  BlocksKept'
<1>1. data \in Seq(Bytes) /\ Len(data) \in Nat \ {0}
  BY GivenData DEF Write
<1>2. PICK n \in Nat \ {0} : n = Len(data)
  BY <1>1
<1>3. PICK c \in Nat \ {0} : c = CurGrown(n) /\ c <= (position \div Base) + 1
  BY CurAfterGrowth
<1>4. PICK b \in Nat : Blocks <= b /\ Len(Grown(n)) = Base * b
  BY Growth DEF BlocksKept
<1>5. /\ Grown(n) \in Seq(Contents) /\ position + n <= Len(Grown(n)) /\ Len(store) <= Len(Grown(n))
      /\ Blocks \in Nat \ {0} /\ position \in Nat /\ size \in Nat /\ size <= Len(store)
      /\ Len(Grown(n)) \in Nat /\ Len(store) \in Nat
  BY Growth, Sizes DEF BlocksKept
<1>6. store' \in Seq(Contents) /\ Len(store') = Base * b
  <2>1. store' = Copied(Grown(n), c, data)
    BY <1>2, <1>3 DEF Write
  <2>2. Start(c) \in Nat
    BY <1>3, CopyStart
  <2> QED BY <1>1, <1>4, <1>5, <2>1, <2>2, CopyShape
<1>7. /\ cur' = LastBlock(c, n) /\ LastBlock(c, n) \in 1 .. b
      /\ LastBlock(c, n) <= ((position + n) \div Base) + 1
  <2>1. cur' = LastBlock(c, n)
    BY <1>2, <1>3 DEF Write
  <2>2. position + n <= Base * b
    BY <1>4, <1>5
  <2> QED BY <1>3, <2>1, <2>2, WriteEnd
<1>8. position' = position + n /\ position' \in Nat
  BY <1>2, <1>5 DEF Write
<1>9. size' \in {size, position'} /\ position' <= size' /\ size <= size'
  BY <1>5, <1>8, Larger2 DEF Write
<1>10. size' \in Nat /\ size' <= Len(store')
  BY <1>4, <1>5, <1>6, <1>8, <1>9
<1>11. got' = <<>> /\ broken' \in BOOLEAN
  BY DEF Write, BlocksKept, TypeOK
<1>12. b \in Nat \ {0} /\ got' \in Seq(Contents) /\ cur' # Null
  BY <1>4, <1>5, <1>7, <1>11 DEF Null
<1>13. cur' \in {Null} \cup 1 .. b /\ (cur' # Null => cur' <= (position' \div Base) + 1)
  BY <1>7, <1>8
<1> QED BY <1>6, <1>8, <1>9, <1>10, <1>11, <1>12, <1>13, KeptBy

\* read(): m_cur moves on with the position, to no block only at the end of the last.
LEMMA ReadKept ==
    ASSUME BlocksKept, NEW n \in Nat, Read(n)
    PROVE  BlocksKept'
<1>1. CASE cur = Null
  BY <1>1 DEF Read, BlocksKept, TypeOK, NeverAhead, Blocks
<1>2. CASE cur # Null
  <2>1. /\ got' = Here(n) /\ position' = position + n /\ cur' = NextBlock(n) /\ broken' = broken
        /\ store' = store /\ size' = size /\ n <= ReadSize
    BY <1>2 DEF Read
  <2>2. Blocks' = Blocks
    BY <2>1 DEF Blocks
  <2>3. /\ NextBlock(n) \in {Null} \cup 1 .. Blocks
        /\ NextBlock(n) = Null => position + n = Len(store)
        /\ NextBlock(n) # Null => NextBlock(n) <= ((position + n) \div Base) + 1
    BY <1>2, <2>1, ReadEnd
  <2>4. Here(n) \in Seq(Contents)
    BY <1>2, <2>1, HereShape
  <2>5. /\ Blocks \in Nat \ {0} /\ Len(store) = Base * Blocks /\ position + n <= size /\ size \in Nat
        /\ store \in Seq(Contents) /\ position \in Nat /\ size <= Len(store) /\ broken \in BOOLEAN
    BY <2>1, Sizes DEF BlocksKept, TypeOK, ReadSize
  <2> QED BY <2>1, <2>3, <2>4, <2>5, KeptBy
<1> QED BY <1>1, <1>2

\* setPosition().
LEMMA SeekKept ==
    ASSUME BlocksKept, NEW v \in Nat, NEW b \in Nat \ {0}, store' \in Seq(Contents), Len(store') = Base * b,
           v <= Len(store'), Len(store) <= Len(store'), Seek(v, store'),
           got' \in Seq(Contents), broken' \in BOOLEAN
    PROVE  BlocksKept'
<1>1. position' = v /\ size' = Max({size, v}) /\ cur' = BlockOf(v, store')
  BY DEF Seek
<1>2. size \in Nat /\ size <= Len(store) /\ Len(store) \in Nat
  BY Sizes DEF BlocksKept
<1>3. size' \in {size, v} /\ v <= size'
  BY <1>1, <1>2, Larger2
<1>4. Len(store') \in Nat
  OBVIOUS
<1>5. /\ cur' \in {Null} \cup 1 .. b
      /\ cur' = Null => v = Len(store')
      /\ cur' # Null => cur' <= (v \div Base) + 1
  BY <1>1, <1>4, SeekEnd
<1>6. size' \in Nat /\ size' <= Len(store')
  BY <1>2, <1>3, <1>4
<1> QED BY <1>1, <1>3, <1>5, <1>6, KeptBy

\* receiving into the blocks behind the position, then setPosition() by what arrived.
LEMMA ReceiveKept ==
    ASSUME BlocksKept, NEW length \in Nat \ {0}, NEW data \in Datas, Receive(length, data)
    PROVE  BlocksKept'
<1>1. data \in Seq(Bytes) /\ Len(data) \in Nat /\ Len(data) <= length
  BY GivenData DEF Receive
<1>3. PICK c \in Nat \ {0} : c = CurGrown(length) /\ c <= (position \div Base) + 1
  BY CurAfterGrowth
<1>4. PICK b \in Nat : Blocks <= b /\ Len(Grown(length)) = Base * b
  BY Growth DEF BlocksKept
<1>5. /\ Grown(length) \in Seq(Contents) /\ position + length <= Len(Grown(length))
      /\ Len(store) <= Len(Grown(length))
      /\ Blocks \in Nat \ {0} /\ position \in Nat /\ size \in Nat /\ size <= Len(store)
      /\ Len(Grown(length)) \in Nat /\ Len(store) \in Nat /\ position <= size
  BY Growth, Sizes DEF BlocksKept
<1>6. store' \in Seq(Contents) /\ Len(store') = Base * b
  <2>1. store' = Copied(Grown(length), c, data)
    BY <1>3 DEF Receive, Filled
  <2>2. Start(c) \in Nat
    BY <1>3, CopyStart
  <2> QED BY <1>1, <1>4, <1>5, <2>1, <2>2, CopyShape
<1>7. b \in Nat \ {0} /\ got' \in Seq(Contents) /\ broken' \in BOOLEAN
  BY <1>4, <1>5 DEF Receive, BlocksKept, TypeOK
<1>8. CASE data # <<>>
  <2>1. Seek(position + Len(data), store')
    BY <1>8 DEF Receive
  <2>2. PICK v \in Nat : v = position + Len(data)
    BY <1>1, <1>5
  <2>3. v <= Len(store') /\ Len(store) <= Len(store')
    BY <1>1, <1>4, <1>5, <1>6, <2>2
  <2> QED BY <1>6, <1>7, <2>1, <2>2, <2>3, SeekKept
<1>9. CASE data = <<>>
  <2>1. cur' = c /\ size' = size /\ position' = position
    BY <1>3, <1>9 DEF Receive
  <2>2. (position \div Base) + 1 <= b
    <3>1. position < Base * b
      BY <1>4, <1>5
    <3> QED BY <1>5, <3>1, InBlock
  <2>3. PICK q \in Nat : q = position \div Base
    BY <1>5, Division
  <2>4. c \in 1 .. b
    BY <1>3, <2>2, <2>3
  <2>5. size <= Len(store')
    BY <1>4, <1>5, <1>6
  <2>6. cur' \in {Null} \cup 1 .. b /\ cur' # Null
    BY <2>1, <2>4 DEF Null
  <2>7. cur' <= (position' \div Base) + 1
    BY <1>3, <2>1
  <2> QED BY <1>5, <1>6, <1>7, <2>1, <2>5, <2>6, <2>7, KeptBy
<1> QED BY <1>8, <1>9

\* sending from the blocks behind the position, then setPosition() by what was sent.
LEMMA SendKept ==
    ASSUME BlocksKept, NEW n \in Nat, Send(n)
    PROVE  BlocksKept'
<1>1. /\ 0 < n /\ n <= ReadSize /\ got' = Here(n) /\ Seek(position + n, store)
      /\ store' = store /\ broken' = broken
  BY DEF Send, Gathered
<1>2. /\ store \in Seq(Contents) /\ Len(store) \in Nat /\ position \in Nat /\ position + n <= Len(store)
      /\ Blocks \in Nat \ {0} /\ Len(store) = Base * Blocks /\ broken \in BOOLEAN
  BY <1>1, Sizes DEF BlocksKept, TypeOK, ReadSize
<1>3. cur # Null
  BY <1>1, <1>2 DEF BlocksKept, NeverAhead
<1>4. Here(n) \in Seq(Contents)
  BY <1>1, <1>3, HereShape
<1>5. PICK v \in Nat : v = position + n
  BY <1>2
<1>6. Seek(v, store')
  BY <1>1, <1>5
<1> QED BY <1>1, <1>2, <1>4, <1>5, <1>6, SeekKept

\* toString(), writeToFile() and the like change no block.
LEMMA LookKept ==
    ASSUME BlocksKept, WholeRest \/ WriteToFile
    PROVE  BlocksKept'
<1>1. /\ UNCHANGED <<store, size, position, cur>> /\ broken' \in BOOLEAN
      /\ got' = got \/ got' = (IF ReadSize = 0 THEN <<>> ELSE Here(ReadSize))
  BY DEF WholeRest, WriteToFile, BlocksKept, TypeOK
<1>2. /\ ReadSize \in Nat /\ position \in Nat /\ size \in Nat /\ size <= Len(store) /\ Len(store) \in Nat
      /\ ReadSize = size - position
  BY Sizes DEF BlocksKept, ReadSize
<1>3. ReadSize # 0 => cur # Null
  BY <1>2 DEF BlocksKept, NeverAhead
<1>4. ReadSize # 0 => Here(ReadSize) \in Seq(Contents)
  BY <1>2, <1>3, HereShape
<1>5. got' \in Seq(Contents)
  <2>1. got \in Seq(Contents) /\ <<>> \in Seq(Contents)
    BY DEF BlocksKept, TypeOK, Contents
  <2> QED BY <1>1, <1>4, <2>1
<1> QED BY <1>1, <1>5 DEF BlocksKept, TypeOK, NeverAhead, Blocks, Contents

\* clear() leaves the first block only.
LEMMA ClearKept ==
    ASSUME BlocksKept, Clear
    PROVE  BlocksKept'
<1>1. /\ store' = SubSeq(store, 1, Base) /\ size' = 0 /\ position' = 0 /\ cur' = 1 /\ got' = <<>>
      /\ broken' = broken /\ broken \in BOOLEAN
  BY DEF Clear, BlocksKept, TypeOK
<1>2. store \in Seq(Contents) /\ Len(store) \in Nat /\ Base <= Len(store)
  <2>1. Blocks \in Nat \ {0} /\ Len(store) = Base * Blocks /\ store \in Seq(Contents) /\ Len(store) \in Nat
    BY Sizes DEF BlocksKept
  <2>2. Base * 1 <= Base * Blocks
    BY <2>1, Monotone, BytesAssumption
  <2> QED BY <2>1, <2>2, BytesAssumption
<1>3. store' \in Seq(Contents) /\ Len(store') = Base * 1
  BY <1>1, <1>2, BytesAssumption
<1>4. 0 \div Base \in Nat
  BY Division
<1>5. cur' \in {Null} \cup 1 .. 1 /\ cur' # Null /\ cur' <= (position' \div Base) + 1
  BY <1>1, <1>4 DEF Null
<1>6. got' \in Seq(Contents) /\ 0 <= Len(store')
  BY <1>1, <1>3, BytesAssumption
<1> QED BY <1>1, <1>3, <1>5, <1>6, KeptBy

\* The constructor makes one block.
LEMMA BytesStart == Init => BlocksKept
<1> SUFFICES ASSUME Init PROVE BlocksKept
  OBVIOUS
<1>1. store \in Seq(Contents) /\ Len(store) = Base
  BY JunkBlocks, BytesAssumption DEF Init
<1>2. (Base * 1 + 0) \div Base = 1 /\ (Base * 1 + 0) % Base = 0
  BY QuotientIs, BytesAssumption
<1>3. Base * 1 + 0 = Base
  BY BytesAssumption
<1>4. Blocks = 1 /\ Len(store) % Base = 0
  BY <1>1, <1>2, <1>3 DEF Blocks
<1>5. 0 \div Base \in Nat
  BY Division
<1>6. size = 0 /\ position = 0 /\ cur = 1 /\ got = <<>> /\ broken = FALSE
  BY DEF Init
<1>7. TypeOK
  <2>1. size <= Len(store) /\ 0 < Blocks /\ cur \in {Null} \cup 1 .. Blocks
    BY <1>1, <1>4, <1>6, BytesAssumption
  <2>2. got \in Seq(Contents)
    BY <1>6
  <2>3. store \in Seq(Bytes \cup {Junk}) /\ got \in Seq(Bytes \cup {Junk})
    BY <1>1, <2>2 DEF Contents
  <2>4. position \in Nat /\ size \in Nat /\ position <= size
    BY <1>6
  <2>5. broken \in BOOLEAN
    BY <1>6, Zenon
  <2> QED BY <1>4, <2>1, <2>3, <2>4, <2>5 DEF TypeOK
<1>8. NeverAhead
  BY <1>5, <1>6 DEF NeverAhead, Null
<1> QED BY <1>7, <1>8 DEF BlocksKept

\* Whatever mixture of calls came before, position, size and capacity are in order and m_cur
\* is a block at or before the position's, or none and no place is left: no copy of write(),
\* read() or the socket calls leaves the blocks, for every block size.
THEOREM BlocksSound == Spec => []BlocksKept
<1>1. BlocksKept /\ [Next]_vars => BlocksKept'
  <2> SUFFICES ASSUME BlocksKept, [Next]_vars PROVE BlocksKept'
    OBVIOUS
  <2>1. CASE UNCHANGED vars
    BY <2>1 DEF vars, BlocksKept, TypeOK, NeverAhead, Blocks
  <2>2. ASSUME NEW data \in Datas, Write(data) PROVE BlocksKept'
    BY <2>2, WriteKept
  <2>3. ASSUME NEW length \in 1 .. MaxData, NEW data \in Datas, Receive(length, data) PROVE BlocksKept'
    BY <2>3, ReceiveKept, BytesAssumption
  <2>4. ASSUME NEW n \in 0 .. MaxData, Read(n) \/ Send(n) PROVE BlocksKept'
    BY <2>4, ReadKept, SendKept, BytesAssumption
  <2>5. ASSUME NEW v \in 0 .. Len(store), SetPosition(v) PROVE BlocksKept'
    <3>1. /\ v <= Len(store) /\ Seek(v, store) /\ got' = <<>> /\ store' = store /\ broken' \in BOOLEAN
      BY <2>5 DEF SetPosition, BlocksKept, TypeOK
    <3>2. /\ Blocks \in Nat \ {0} /\ Len(store) = Base * Blocks /\ store \in Seq(Contents) /\ v \in Nat
          /\ Len(store) \in Nat
      BY Sizes DEF BlocksKept
    <3>3. Seek(v, store') /\ got' \in Seq(Contents)
      BY <3>1
    <3> QED BY <3>1, <3>2, <3>3, SeekKept
  <2> QED BY <2>1, <2>2, <2>3, <2>4, <2>5, LookKept, ClearKept DEF Next, Dead
<1> QED BY BytesStart, <1>1, PTL DEF Spec

\* The first k elements of a sequence.
LEMMA Prefix ==
    ASSUME NEW s \in Seq(Contents), NEW k \in Nat, k <= Len(s)
    PROVE  /\ SubSeq(s, 1, k) \in Seq(Contents) /\ Len(SubSeq(s, 1, k)) = k
           /\ \A i \in 1 .. k : SubSeq(s, 1, k)[i] = s[i]
           /\ SubSeq(s, 1, k) = [i \in 1 .. k |-> s[i]]
<1>1. SubSeq(s, 1, k) \in Seq(Contents) /\ Len(SubSeq(s, 1, k)) = k
  OBVIOUS
<1>2. \A i \in 1 .. k : SubSeq(s, 1, k)[i] = s[i]
  OBVIOUS
<1> QED BY <1>1, <1>2

\* With m_cur in place, a copy starts at the position.
LEMMA StartInPlace ==
    ASSUME BlocksKept, InPlace, position # Len(store)
    PROVE  cur # Null /\ Start(cur) = position
<1>1. PICK q \in Nat : q = position \div Base
  BY Sizes, Division DEF BlocksKept
<1>2. PICK r \in 0 .. Base - 1 : r = position % Base
  BY Sizes, Division DEF BlocksKept
<1>3. position = Base * q + r
  BY <1>1, <1>2, Sizes, Division DEF BlocksKept
<1>4. cur = q + 1
  BY <1>1 DEF InPlace, BlockOf
<1>5. Start(cur) = q * Base + r
  BY <1>2, <1>4 DEF Start
<1> QED BY <1>1, <1>2, <1>3, <1>4, <1>5, BytesAssumption DEF Null

\* So does it after addCapacity() of something.
LEMMA StartGrown ==
    ASSUME BlocksKept, InPlace, NEW n \in Nat \ {0}
    PROVE  Start(CurGrown(n)) = position
<1>1. CASE position # Len(store)
  BY <1>1, StartInPlace DEF CurGrown
<1>2. CASE position = Len(store)
  <2>1. CurGrown(n) = Blocks + 1
    BY <1>2 DEF CurGrown
  <2>2. Blocks \in Nat /\ position = Base * Blocks
    BY <1>2, Sizes DEF BlocksKept
  <2>3. (Base * Blocks + 0) % Base = 0
    BY <2>2, QuotientIs, BytesAssumption
  <2>4. position % Base = 0
    <3>1. position = Base * Blocks + 0
      BY <2>2, BytesAssumption
    <3> QED BY <2>3, <3>1
  <2> QED BY <2>1, <2>2, <2>4, BytesAssumption DEF Start
<1> QED BY <1>1, <1>2

\* A copy of data to the position, with the size that follows it, is a flat array's overwriting.
LEMMA Overwrites ==
    ASSUME BlocksKept, NEW data \in Seq(Bytes), NEW s \in Seq(Contents), NEW c, Start(c) = position,
           position + Len(data) <= Len(s), Len(store) <= Len(s), \A i \in 1 .. Len(store) : s[i] = store[i],
           store' = Copied(s, c, data), size' = Max({size, position + Len(data)})
    PROVE  SubSeq(store', 1, size') = Flat!Overwritten(data)
<1>0. /\ store \in Seq(Contents) /\ Len(store) \in Nat /\ position \in Nat /\ size \in Nat
      /\ position <= size /\ size <= Len(store)
  BY Sizes DEF BlocksKept
<1>1. PICK n \in Nat : n = Len(data)
  OBVIOUS
<1>2. PICK m \in Nat : m = size' /\ m = Flat!Larger(size, position + n) /\ size <= m /\ position + n <= m
  <2>1. position + n \in Nat
    BY <1>0
  <2>2. /\ Max({size, position + n}) \in {size, position + n}
        /\ size <= Max({size, position + n}) /\ position + n <= Max({size, position + n})
    BY <1>0, <2>1, Larger2
  <2> QED BY <1>0, <1>1, <2>1, <2>2 DEF Flat!Larger
<1>3. m <= Len(s)
  BY <1>0, <1>1, <1>2 DEF Flat!Larger
<1>4. /\ store' \in Seq(Contents) /\ Len(store') = Len(s)
      /\ \A i \in 1 .. Len(s) : store'[i] = IF position < i /\ i <= position + n THEN data[i - position] ELSE s[i]
  BY <1>0, <1>1, CopyShape
<1>5. SubSeq(store', 1, m) = [i \in 1 .. m |-> store'[i]]
  BY <1>3, <1>4, Prefix
<1>6. Len(SubSeq(store, 1, size)) = size /\ \A i \in 1 .. size : SubSeq(store, 1, size)[i] = store[i]
  BY <1>0, Prefix
<1>7. \A i \in 1 .. m : store'[i] = IF position < i /\ i <= position + n THEN data[i - position]
                                    ELSE SubSeq(store, 1, size)[i]
  <2> SUFFICES ASSUME NEW i \in 1 .. m
               PROVE  store'[i] = IF position < i /\ i <= position + n THEN data[i - position]
                                  ELSE SubSeq(store, 1, size)[i]
    OBVIOUS
  <2>1. i \in 1 .. Len(s)
    BY <1>3
  <2>2. CASE position < i /\ i <= position + n
    BY <1>4, <2>1, <2>2
  <2>3. CASE ~(position < i /\ i <= position + n)
    <3>1. i <= size
      BY <1>0, <1>2, <2>3 DEF Flat!Larger
    <3>2. i \in 1 .. size /\ i \in 1 .. Len(store)
      BY <1>0, <3>1
    <3>3. store'[i] = s[i]
      BY <1>4, <2>1, <2>3
    <3>4. SubSeq(store, 1, size)[i] = store[i]
      BY <1>6, <3>2
    <3>5. s[i] = store[i]
      BY <3>2
    <3> QED BY <2>3, <3>3, <3>4, <3>5
  <2> QED BY <2>2, <2>3
<1>8. Flat!Overwritten(data)
          = [i \in 1 .. m |-> IF position < i /\ i <= position + n THEN data[i - position]
                                                                 ELSE SubSeq(store, 1, size)[i]]
  BY <1>1, <1>2, <1>6 DEF Flat!Overwritten
<1>9. [i \in 1 .. m |-> store'[i]]
          = [i \in 1 .. m |-> IF position < i /\ i <= position + n THEN data[i - position]
                                                                 ELSE SubSeq(store, 1, size)[i]]
  BY <1>7
<1> QED BY <1>2, <1>5, <1>8, <1>9

\* What a call reads from m_cur on is what a flat array reads at the position.
LEMMA HereFlat ==
    ASSUME BlocksKept, InPlace, NEW n \in Nat, n <= ReadSize, cur # Null
    PROVE  Here(n) = SubSeq(SubSeq(store, 1, size), position + 1, position + n)
<1>0. /\ store \in Seq(Contents) /\ Len(store) \in Nat /\ position \in Nat /\ size \in Nat
      /\ position + n <= size /\ size <= Len(store)
  BY Sizes DEF BlocksKept, ReadSize
<1>1. PICK bytes \in Seq(Contents) : bytes = SubSeq(store, 1, size)
  BY <1>0, Prefix
<1>2. Len(bytes) = size /\ \A i \in 1 .. size : bytes[i] = store[i]
  BY <1>0, <1>1, Prefix
<1>3. /\ SubSeq(bytes, position + 1, position + n) \in Seq(Contents)
      /\ Len(SubSeq(bytes, position + 1, position + n)) = n
      /\ \A i \in 1 .. n : SubSeq(bytes, position + 1, position + n)[i] = bytes[position + i]
  BY <1>0, <1>2
<1>4. /\ Here(n) \in Seq(Contents) /\ Len(Here(n)) = n
      /\ \A i \in 1 .. n : Here(n)[i] = store[Start(cur) + i]
  BY HereShape
<1>5. \A i \in 1 .. n : Here(n)[i] = SubSeq(bytes, position + 1, position + n)[i]
  <2> SUFFICES ASSUME NEW i \in 1 .. n
               PROVE  Here(n)[i] = SubSeq(bytes, position + 1, position + n)[i]
    OBVIOUS
  <2>1. position # Len(store)
    BY <1>0
  <2>2. Start(cur) = position
    BY <2>1, StartInPlace
  <2>3. position + i \in 1 .. size
    BY <1>0
  <2> QED BY <1>2, <1>3, <1>4, <2>2, <2>3
<1>6. Here(n) = SubSeq(bytes, position + 1, position + n)
  <2>1. ASSUME NEW s \in Seq(Contents), NEW t \in Seq(Contents), Len(s) = n, Len(t) = n,
               \A i \in 1 .. n : s[i] = t[i]
        PROVE  s = t
    BY <2>1
  <2>2. PICK t \in Seq(Contents) : t = SubSeq(bytes, position + 1, position + n)
    BY <1>3
  <2>3. PICK s \in Seq(Contents) : s = Here(n)
    BY <1>4
  <2>4. Len(s) = n /\ Len(t) = n /\ \A i \in 1 .. n : s[i] = t[i]
    BY <1>3, <1>4, <1>5, <2>2, <2>3
  <2>5. s = t
    BY <2>1, <2>4
  <2> QED BY <2>2, <2>3, <2>5
<1> QED BY <1>1, <1>6

\* Each call that starts with m_cur in place, and is not broken, is a step of the flat array.
LEMMA FlatStep ==
    ASSUME BlocksKept, InPlace, Next, ~broken'
    PROVE  UNCHANGED <<SubSeq(store, 1, size), position, got>> \/ Flat!Next
<1>0. /\ store \in Seq(Contents) /\ Len(store) \in Nat /\ position \in Nat /\ size \in Nat
      /\ position <= size /\ size <= Len(store) /\ Blocks \in Nat \ {0} /\ Len(store) = Base * Blocks
      /\ ReadSize = size - position /\ ReadSize \in Nat
  BY Sizes DEF BlocksKept, ReadSize
<1>1. Len(SubSeq(store, 1, size)) = size /\ SubSeq(store, 1, size) \in Seq(Contents)
  BY <1>0, Prefix
\* overwriting
<1>2. ASSUME NEW data \in Datas, NEW n \in Nat \ {0}, Len(data) <= n, store' = Copied(Grown(n), CurGrown(n), data),
             size' = Max({size, position + Len(data)})
      PROVE  SubSeq(store', 1, size') = Flat!Overwritten(data)
  <2>1. data \in Seq(Bytes) /\ Len(data) \in Nat
    BY GivenData
  <2>2. /\ Grown(n) \in Seq(Contents) /\ position + n <= Len(Grown(n)) /\ Len(store) <= Len(Grown(n))
        /\ \A i \in 1 .. Len(store) : Grown(n)[i] = store[i] /\ Len(Grown(n)) \in Nat
    BY Growth DEF BlocksKept
  <2>3. Start(CurGrown(n)) = position
    BY StartGrown
  <2>4. position + Len(data) <= Len(Grown(n)) /\ Len(store) <= Len(Grown(n))
    BY <1>0, <1>2, <2>1, <2>2
  <2>5. \A i \in 1 .. Len(store) : Grown(n)[i] = store[i]
    BY <2>2
  <2> QED BY <1>2, <2>1, <2>2, <2>3, <2>4, <2>5, Overwrites
\* reading n bytes
<1>3. ASSUME NEW n \in Nat, n <= ReadSize, cur # Null
      PROVE  Here(n) = SubSeq(SubSeq(store, 1, size), position + 1, position + n)
  BY <1>3, HereFlat
<1>4. ASSUME NEW n \in Nat, n <= ReadSize, got' = Here(n), cur # Null, position' = position + n,
             store' = store, size' = size
      PROVE  Flat!Next
  <2>1. n \in 0 .. Len(SubSeq(store, 1, size)) /\ n <= Len(SubSeq(store, 1, size)) - position
    BY <1>0, <1>1, <1>4
  <2>2. Flat!Read(n)
    BY <1>3, <1>4, <2>1 DEF Flat!Read
  <2> QED BY <2>1, <2>2 DEF Flat!Next
\* moving the position
<1>5. ASSUME got' = <<>>, store' \in Seq(Contents), Len(store) <= Len(store'), position' \in Nat,
             size' = Max({size, position'}), position' <= Len(store'), \A i \in 1 .. size : store'[i] = store[i]
      PROVE  Flat!Next
  <2>1. PICK m \in Nat : m = size' /\ m = Flat!Larger(size, position') /\ size <= m
    BY <1>0, <1>5, Larger2 DEF Flat!Larger
  <2>2. m <= Len(store')
    BY <1>0, <1>5, <2>1 DEF Flat!Larger
  <2>3. PICK t \in Seq(Contents) : t = SubSeq(store', 1, m) /\ Len(t) = m /\ \A i \in 1 .. m : t[i] = store'[i]
    BY <1>5, <2>2, Prefix
  <2>4. SubSeq(t, 1, size) = [i \in 1 .. size |-> t[i]]
    BY <1>0, <2>1, <2>3, Prefix
  <2>5. SubSeq(store, 1, size) = [i \in 1 .. size |-> store[i]]
    BY <1>0, Prefix
  <2>6. \A i \in 1 .. size : t[i] = store[i]
    BY <1>0, <1>5, <2>1, <2>3
  <2>7. SubSeq(t, 1, size) = SubSeq(store, 1, size)
    BY <2>4, <2>5, <2>6
  <2>8. Flat!Seek
    BY <1>1, <1>5, <2>1, <2>3, <2>7 DEF Flat!Seek
  <2> QED BY <2>8 DEF Flat!Next
<1>6. CASE \E data \in Datas : Write(data)
  <2>1. PICK data \in Datas : Write(data)
    BY <1>6
  <2>2. PICK n \in Nat \ {0} : n = Len(data)
    BY <2>1, GivenData DEF Write
  <2>3. /\ store' = Copied(Grown(n), CurGrown(n), data) /\ size' = Max({size, position + n})
        /\ position' = position + n /\ got' = <<>>
    BY <2>1, <2>2 DEF Write
  <2>4. SubSeq(store', 1, size') = Flat!Overwritten(data)
    <3>1. Len(data) <= n /\ size' = Max({size, position + Len(data)})
      BY <2>2, <2>3
    <3> QED BY <1>2, <2>3, <3>1
  <2>5. Flat!Write(data)
    BY <2>2, <2>3, <2>4 DEF Flat!Write
  <2> QED BY <2>5 DEF Flat!Next
<1>7. CASE \E length \in 1 .. MaxData, data \in Datas : Receive(length, data)
  <2>1. PICK length \in 1 .. MaxData, data \in Datas : Receive(length, data)
    BY <1>7
  <2>2. length \in Nat \ {0} /\ data \in Seq(Bytes) /\ Len(data) \in Nat
    BY GivenData, BytesAssumption
  <2>3. /\ store' = Copied(Grown(length), CurGrown(length), data) /\ Len(data) <= length /\ got' = <<>>
        /\ IF data = <<>> THEN UNCHANGED <<size, position>> ELSE Seek(position + Len(data), store')
    BY <2>1 DEF Receive, Filled
  <2>4. CASE data # <<>>
    <3>1. size' = Max({size, position + Len(data)}) /\ position' = position + Len(data)
      BY <2>3, <2>4 DEF Seek
    <3>2. SubSeq(store', 1, size') = Flat!Overwritten(data)
      BY <1>2, <2>2, <2>3, <3>1
    <3>3. Flat!Write(data)
      BY <2>3, <3>1, <3>2 DEF Flat!Write
    <3> QED BY <3>3 DEF Flat!Next
  <2>5. CASE data = <<>>
    <3>1. size' = size /\ position' = position /\ Len(data) = 0
      BY <2>3, <2>5
    <3>2. /\ Grown(length) \in Seq(Contents) /\ Len(store) <= Len(Grown(length)) /\ Len(Grown(length)) \in Nat
          /\ \A i \in 1 .. Len(store) : Grown(length)[i] = store[i]
      BY <2>2, Growth DEF BlocksKept
    <3>3. Start(CurGrown(length)) = position
      BY <2>2, StartGrown
    <3>4. /\ store' \in Seq(Contents) /\ Len(store') = Len(Grown(length))
          /\ \A i \in 1 .. Len(Grown(length)) : store'[i] =
                IF position < i /\ i <= position + Len(data) THEN data[i - position] ELSE Grown(length)[i]
      <4>1. Start(CurGrown(length)) \in Nat
        BY <1>0, <3>3
      <4>2. LET s == Copied(Grown(length), CurGrown(length), data)
            IN  /\ s \in Seq(Contents) /\ Len(s) = Len(Grown(length))
                /\ \A i \in 1 .. Len(Grown(length)) : s[i] =
                      IF Start(CurGrown(length)) < i /\ i <= Start(CurGrown(length)) + Len(data)
                         THEN data[i - Start(CurGrown(length))] ELSE Grown(length)[i]
        BY <2>2, <3>2, <4>1, CopyShape
      <4> QED BY <2>3, <3>3, <4>2
    <3>5. \A i \in 1 .. size : store'[i] = store[i]
      BY <1>0, <3>1, <3>2, <3>4
    <3>6. Max({size, position'}) = size
      BY <1>0, <3>1, Larger2
    <3> QED BY <1>0, <1>5, <2>3, <3>1, <3>2, <3>4, <3>5, <3>6
  <2> QED BY <2>4, <2>5
<1>8. CASE \E n \in 0 .. MaxData : Read(n)
  <2>1. PICK n \in 0 .. MaxData : Read(n)
    BY <1>8
  <2>2. n \in Nat /\ n <= ReadSize /\ cur # Null
    BY <2>1, BytesAssumption DEF Read
  <2> QED BY <1>4, <2>1, <2>2 DEF Read
<1>9. CASE \E n \in 0 .. MaxData : Send(n)
  <2>1. PICK n \in 0 .. MaxData : Send(n)
    BY <1>9
  <2>2. /\ n \in Nat \ {0} /\ n <= ReadSize /\ got' = Here(n) /\ position' = position + n
        /\ size' = Max({size, position + n}) /\ store' = store
    BY <2>1, BytesAssumption DEF Send, Gathered, Seek
  <2>3. cur # Null
    BY <1>0, <2>2 DEF BlocksKept, NeverAhead
  <2>4. Max({size, position + n}) = size
    <3>1. position + n \in Nat /\ position + n <= size
      BY <1>0, <2>2
    <3> QED BY <1>0, <3>1, Larger2
  <2> QED BY <1>4, <2>2, <2>3, <2>4
<1>10. CASE \E v \in 0 .. Len(store) : SetPosition(v)
  <2>1. PICK v \in 0 .. Len(store) : SetPosition(v)
    BY <1>10
  <2>2. position' = v /\ size' = Max({size, v}) /\ got' = <<>> /\ store' = store
    BY <2>1 DEF SetPosition, Seek
  <2> QED BY <1>0, <1>5, <2>1, <2>2
<1>11. CASE WholeRest \/ WriteToFile
  <2>1. /\ UNCHANGED <<store, size, position, cur>>
        /\ got' = IF ReadSize = 0 THEN <<>> ELSE Here(ReadSize)
    BY <1>11 DEF WholeRest, WriteToFile
  <2>2. got' = SubSeq(SubSeq(store, 1, size), position + 1, size)
    <3>1. CASE ReadSize = 0
      <4>1. got' = <<>> /\ position = size
        BY <1>0, <2>1, <3>1
      <4> QED BY <1>0, <1>1, <4>1
    <3>2. CASE ReadSize # 0
      <4>1. cur # Null
        BY <1>0, <3>2 DEF BlocksKept, NeverAhead
      <4>2. position + ReadSize = size
        BY <1>0
      <4> QED BY <1>0, <1>3, <2>1, <3>2, <4>1, <4>2
    <3> QED BY <3>1, <3>2
  <2>3. Flat!Look
    BY <1>1, <2>1, <2>2 DEF Flat!Look
  <2> QED BY <2>3 DEF Flat!Next
<1>12. CASE Clear
  <2>1. size' = 0 /\ position' = 0 /\ got' = <<>>
    BY <1>12 DEF Clear
  <2>2. SubSeq(store', 1, size') = <<>>
    BY <2>1
  <2>3. Flat!Clear
    BY <2>1, <2>2 DEF Flat!Clear, Flat!Init
  <2> QED BY <2>3 DEF Flat!Next
<1>13. CASE Dead
  BY <1>13 DEF Dead, vars
<1> QED BY <1>6, <1>7, <1>8, <1>9, <1>10, <1>11, <1>12, <1>13 DEF Next

\* The block chain is a flat array to its user: a call that starts with m_cur at the position's
\* block, and does not go wrong, writes, reads or moves exactly as one contiguous array would,
\* for every block size.
THEOREM FlatRefinement == Spec => FlatSteps
<1>1. BlocksKept /\ [Next]_vars
         => [InPlace /\ ~broken' => UNCHANGED <<SubSeq(store, 1, size), position, got>> \/ Flat!Next]_vars
  BY FlatStep
<1> QED BY <1>1, BlocksSound, PTL DEF Spec, FlatSteps
=============================================================================
