----------------------- MODULE SessionHandlesProofs -----------------------
(***************************************************************************)
(* Proofs about SessionHandles, for any threads, devices, Session objects  *)
(* and largest handle.                                                     *)
(***************************************************************************)
EXTENDS SessionHandles, WellFoundedInduction, FiniteSetTheorems, TLAPS

(* The inductive invariant of the proofs. *)

Builds(t) == call[t].op \in {"open", "operate"}
Owns(t) == call[t].op \in {"open", "operate", "destroy"}

(* Where a call may be, by its kind. *)
CallsWellFormed ==
  \A t \in Threads :
    /\ call[t].op = "none" => call[t] = NoCall
    /\ call[t].op = "read" <=> call[t].step = "read"
    /\ call[t].op = "destroy" <=> call[t].step = "destroy"
    /\ call[t].op = "open" => call[t].step \in {"insert", "discover", "add"}
    /\ call[t].op = "operate" => call[t].step \in {"discover", "add"}
    /\ call[t].op # "none" => call[t].slot \in Slots
    /\ call[t].step = "discover" => call[t].dev \in 1 .. NumDevices + 1
    /\ call[t].step = "add" => call[t].dev \in Devices

(* A Session under construction or destruction belongs to one call; a       *)
(* temporary one, one not inserted yet and one that is destroyed are not    *)
(* registered; one that is opening is.                                      *)
SlotsOwned ==
  /\ \A t, u \in Threads : t # u /\ Owns(t) => call[u].slot # call[t].slot
  /\ \A t \in Threads : call[t].op \in {"operate", "destroy"} \/ call[t].step = "insert" =>
       \A h \in Handles : m_sessions[h] # call[t].slot
  /\ \A t \in Threads : call[t].op = "open" /\ Initializing(t) =>
       \E h \in Handles : m_sessions[h] = call[t].slot

(* Objects exist in live Sessions only, and as far as discovery has come. *)
SlotsClean ==
  /\ \A s \in Slots : \A d \in Devices : d \notin devs[s] => m_handle[s][d] = SSI_NULL_HANDLE
  /\ \A s \in Slots : ~Referenced(s, m_sessions, call) => devs[s] = {}
  /\ \A t \in Threads : call[t].step = "insert" => devs[call[t].slot] = {}
  /\ \A t \in Threads : Initializing(t) => \A d \in devs[call[t].slot] : d < call[t].dev

(* Only live Sessions are fresh, and one that is destroyed has objects left. *)
FreshLives ==
  /\ \A s \in Slots : ~Referenced(s, m_sessions, call) => ~fresh[s]
  /\ \A t \in Threads : call[t].step \in {"insert", "destroy"} => ~fresh[call[t].slot]
  /\ \A t \in Threads : call[t].step = "destroy" => devs[call[t].slot] # {}

(* The remembered handle is still what its open session says it is. *)
MemoryCurrent ==
  mem.slot # NoSlot =>
    /\ \E h \in Handles : m_sessions[h] = mem.slot
    /\ \A t \in Threads : Builds(t) => call[t].slot # mem.slot
    /\ mem.slot \in Slots /\ mem.dev \in devs[mem.slot]
    /\ m_handle[mem.slot][mem.dev] = mem.handle

(* A discovery that runs alone inserts under a handle nobody has. *)
SoleDiscovery ==
  ~excused =>
    /\ \A t, u \in Threads : Initializing(t) /\ Initializing(u) => t = u
    /\ \A t \in Threads : call[t].step = "add" => Inserts(call[t].unique, m_objects, NoObject)

IInv ==
  /\ TypeOK
  /\ CallsWellFormed
  /\ SlotsOwned
  /\ SlotsClean
  /\ FreshLives
  /\ HandlesUnique
  /\ NoStaleObject
  /\ MemoryCurrent
  /\ SoleDiscovery
  /\ HandlesAssigned
-----------------------------------------------------------------------------
(* A non-empty set of handles has a largest one. *)
LEMMA LastHandle ==
  ASSUME NEW keys, keys \subseteq Handles, keys # {}
  PROVE  \E l \in keys : \A k \in keys : k <= l
<1> USE MaxHandleAssumption
<1> DEFINE below == {MaxHandle - k : k \in keys}
<1>0. PICK k0 \in keys : TRUE
  OBVIOUS
<1>1. below \subseteq Nat /\ below # {}
  <2>1. MaxHandle - k0 \in below
    OBVIOUS
  <2>2. \A k \in keys : MaxHandle - k \in Nat
    BY DEF Handles
  <2> QED BY <2>1, <2>2
<1>2. PICK x \in below : \A y \in below : <<y, x>> \notin OpToRel(<, Nat)
  BY <1>1, WFMin, NatLessThanWellFounded
<1>3. \A y \in below : ~(y < x)
  BY <1>1, <1>2, Zenon DEF OpToRel
<1>4. PICK l \in keys : x = MaxHandle - l
  OBVIOUS
<1>5. ASSUME NEW k \in keys PROVE k <= l
  <2>1. ~(MaxHandle - k < x)
    BY <1>3
  <2> QED BY <2>1, <1>4 DEF Handles
<1> QED BY <1>5

(* The handle HandleManager computes is a handle that is not in use, or NULL. *)
LEMMA UniqueHandle ==
  ASSUME NEW keys, keys \subseteq Handles
  PROVE  /\ getUniqueHandle(keys) \in Handles \cup {SSI_NULL_HANDLE}
         /\ getUniqueHandle(keys) \notin keys
<1> USE MaxHandleAssumption
<1>1. CASE MaxHandle \in keys
  BY <1>1 DEF getUniqueHandle, SSI_NULL_HANDLE, Handles
<1>2. CASE MaxHandle \notin keys
  <2>1. \E h \in Handles : h - 1 \in keys \cup {0} /\ \A k \in keys : k < h
    <3>1. CASE keys = {}
      BY <3>1 DEF Handles
    <3>2. CASE keys # {}
      <4>1. PICK l \in keys : \A k \in keys : k <= l
        BY <3>2, LastHandle
      <4>2. l + 1 \in Handles /\ l + 1 - 1 = l /\ \A k \in keys : k < l + 1
        BY <1>2, <4>1 DEF Handles
      <4>3. l + 1 \in Handles
        BY <4>2
      <4>4. (l + 1) - 1 \in keys \cup {0}
        <5>1. (l + 1) - 1 = l
          BY <4>1 DEF Handles
        <5> QED BY <4>1, <5>1
      <4>5. \A k \in keys : k < l + 1
        BY <4>2
      <4> WITNESS l + 1 \in Handles
      <4> QED BY <4>4, <4>5
    <3> QED BY <3>1, <3>2
  <2> DEFINE u == CHOOSE h \in Handles : h - 1 \in keys \cup {0} /\ \A k \in keys : k < h
  <2>2. u \in Handles /\ \A k \in keys : k < u
    BY <2>1, Zenon
  <2>3. getUniqueHandle(keys) = u
    BY <1>2 DEF getUniqueHandle
  <2>4. u \notin keys
    BY <2>2 DEF Handles
  <2> QED BY <2>2, <2>3, <2>4
<1> QED BY <1>1, <1>2

-----------------------------------------------------------------------------
(* No call is a call. *)
LEMMA NoCallType == NoCall \in Calls
BY NumDevicesAssumption DEF NoCall, Calls, SSI_NULL_HANDLE, NoSlot

(* The object that ~Session removes next is one of its own. *)
LEMMA FirstOwn ==
  ASSUME TypeOK, NEW s \in Slots, devs[s] # {}
  PROVE  First(s) \in devs[s] /\ First(s) \in Devices
<1>1. devs[s] \subseteq Nat
  BY NumDevicesAssumption DEF TypeOK, Devices
<1>2. PICK x \in devs[s] : \A y \in devs[s] : <<y, x>> \notin OpToRel(<, Nat)
  BY <1>1, WFMin, NatLessThanWellFounded
<1>3. \A y \in devs[s] : ~(y < x)
  BY <1>1, <1>2, Zenon DEF OpToRel
<1>4. \E d \in devs[s] : \A e \in devs[s] : d <= e
  BY <1>1, <1>3
<1>5. First(s) \in devs[s]
  BY <1>4, Zenon DEF First
<1> QED BY <1>5 DEF TypeOK

-----------------------------------------------------------------------------
(* A step by which thread t lets Session s go, by a call that ends or an    *)
(* entry of the SessionManager that is removed: nothing more happens while  *)
(* something else refers to s, otherwise t begins to destroy it, or is done *)
(* when there is nothing in it.                                             *)
LetsGo(t, s) ==
  /\ UNCHANGED <<m_objects, devs, m_handle, excused>>
  /\ m_sessions' \in [Handles -> Slots \cup {NoSlot}]
  /\ \A h \in Handles : m_sessions'[h] = m_sessions[h] \/ (m_sessions'[h] = NoSlot /\ m_sessions[h] = s)
  /\ call[t].slot \in {s, NoSlot}
  /\ call' \in [Threads -> Calls] /\ \A u \in Threads : u # t => call'[u] = call[u]
  /\ \A u \in Threads : Builds(u)' => call'[u].slot # s
  /\ fresh' \in [Slots -> BOOLEAN] /\ \A x \in Slots : fresh'[x] => fresh[x]
  /\ \/ call'[t] = NoCall /\ Referenced(s, m_sessions', call')
     \/ call'[t] = NoCall /\ devs[s] = {} /\ ~fresh'[s]
     \/ /\ call'[t].op = "destroy" /\ call'[t].step = "destroy" /\ call'[t].slot = s
        /\ devs[s] # {} /\ ~fresh'[s]
        /\ \A h \in Handles : m_sessions'[h] # s
        /\ \A u \in Threads : u # t => call[u].slot # s

(* What dropping a reference comes to. *)
LEMMA ReleaseLetsGo ==
  ASSUME IInv, NEW t \in Threads, NEW s \in Slots, NEW calls, Release(t, s, m_sessions', calls),
         UNCHANGED <<m_objects, devs, m_handle, excused>>,
         m_sessions' \in [Handles -> Slots \cup {NoSlot}],
         \A h \in Handles : m_sessions'[h] = m_sessions[h] \/ (m_sessions'[h] = NoSlot /\ m_sessions[h] = s),
         call[t].slot \in {s, NoSlot}, calls = [call EXCEPT ![t] = NoCall],
         \A u \in Threads : u # t /\ Builds(u) => call[u].slot # s
  PROVE  LetsGo(t, s)
<1> USE SlotsAssumption
<1>0. call \in [Threads -> Calls] /\ fresh \in [Slots -> BOOLEAN]
  BY DEF IInv, TypeOK
<1>1. /\ calls \in [Threads -> Calls] /\ calls[t] = NoCall
      /\ \A u \in Threads : u # t => calls[u] = call[u]
  BY <1>0, NoCallType
<1>2. CASE Referenced(s, m_sessions', calls)
  <2>1. call' = calls /\ fresh' = fresh
    BY <1>2 DEF Release
  <2>2. \A u \in Threads : Builds(u)' => call'[u].slot # s
    BY <1>1, <2>1 DEF Builds, NoCall
  <2> QED BY <1>0, <1>1, <1>2, <2>1, <2>2 DEF LetsGo
<1>3. CASE ~Referenced(s, m_sessions', calls)
  <2> DEFINE n == Destroying(s)
  <2>1. call' = [calls EXCEPT ![t] = n] /\ fresh' = [fresh EXCEPT ![s] = FALSE]
    BY <1>3 DEF Release
  <2>2. /\ n \in Calls
        /\ devs[s] = {} => n = NoCall
        /\ devs[s] # {} => n.op = "destroy" /\ n.step = "destroy" /\ n.slot = s
    BY NoCallType DEF Destroying, Calls
  <2>3. n.op \in {"none", "destroy"}
    BY <2>2 DEF NoCall
  <2> HIDE DEF n
  <2>4. /\ call' \in [Threads -> Calls] /\ call'[t] = n
        /\ \A u \in Threads : u # t => call'[u] = call[u]
    BY <1>1, <2>1, <2>2
  <2>5. /\ fresh' \in [Slots -> BOOLEAN] /\ ~fresh'[s]
        /\ \A x \in Slots : fresh'[x] => fresh[x]
    BY <1>0, <2>1
  <2>6. \A u \in Threads : Builds(u)' => call'[u].slot # s
    BY <2>3, <2>4 DEF Builds
  <2>7. (\A h \in Handles : m_sessions'[h] # s) /\ \A u \in Threads : u # t => call[u].slot # s
    BY <1>1, <1>3 DEF Referenced
  <2> QED BY <2>2, <2>4, <2>5, <2>6, <2>7 DEF LetsGo
<1> QED BY <1>2, <1>3

(* Only calls that build a Session insert and discover. *)
LEMMA Building ==
  ASSUME TypeOK, CallsWellFormed, NEW u \in Threads, call[u].step \in {"insert", "discover", "add"}
  PROVE  Builds(u) /\ call[u].slot \in Slots
<1>1. call[u].op \in {"none", "open", "operate", "read", "destroy"}
  BY DEF TypeOK, Calls
<1> QED BY <1>1 DEF CallsWellFormed, Builds, NoCall

(* A step that leaves the objects alone and keeps every Session that has    *)
(* any referenced.                                                          *)
KeepsObjects ==
  /\ UNCHANGED <<m_objects, devs, m_handle>>
  /\ excused => excused'
  /\ \A x \in Slots : devs[x] # {} /\ Referenced(x, m_sessions, call) => Referenced(x, m_sessions', call')

(* A step that leaves objects and Sessions alone keeps what is said of them. *)
LEMMA KeepsObjectsStep ==
  ASSUME IInv, KeepsObjects
  PROVE  /\ HandlesUnique' /\ NoStaleObject' /\ HandlesAssigned'
         /\ \A s \in Slots : \A d \in Devices : d \notin devs'[s] => m_handle'[s][d] = SSI_NULL_HANDLE
         /\ \A s \in Slots : ~Referenced(s, m_sessions', call') => devs'[s] = {}
<1> USE SlotsAssumption
<1>1. HandlesUnique' /\ HandlesAssigned'
  BY DEF IInv, KeepsObjects, HandlesUnique, HandlesAssigned
<1>2. NoStaleObject'
  <2> SUFFICES ASSUME NEW h \in Handles, m_objects[h] \notin {NoObject, Orphan}
               PROVE  /\ m_objects[h].dev \in devs[m_objects[h].slot]
                      /\ m_handle[m_objects[h].slot][m_objects[h].dev] = h
                      /\ Referenced(m_objects[h].slot, m_sessions', call')
    BY DEF IInv, NoStaleObject, KeepsObjects
  <2>1. m_objects[h].slot \in Slots
    BY DEF IInv, TypeOK, Objects
  <2>2. /\ m_objects[h].dev \in devs[m_objects[h].slot]
        /\ m_handle[m_objects[h].slot][m_objects[h].dev] = h
        /\ Referenced(m_objects[h].slot, m_sessions, call)
    BY DEF IInv, NoStaleObject
  <2> QED BY <2>1, <2>2 DEF KeepsObjects
<1>3. \A s \in Slots : \A d \in Devices : d \notin devs'[s] => m_handle'[s][d] = SSI_NULL_HANDLE
  BY DEF IInv, SlotsClean, KeepsObjects
<1>4. \A s \in Slots : ~Referenced(s, m_sessions', call') => devs'[s] = {}
  BY DEF IInv, SlotsClean, KeepsObjects
<1> QED BY <1>1, <1>2, <1>3, <1>4

(* What keeps a fresh Session alive, and a Session that is being destroyed  *)
(* or is not inserted yet from being fresh.                                 *)
KeepsFresh ==
  /\ \A x \in Slots : fresh'[x] /\ Referenced(x, m_sessions, call) => Referenced(x, m_sessions', call')
  /\ \A x \in Slots : fresh'[x] =>
       \/ fresh[x]
       \/ /\ Referenced(x, m_sessions', call')
          /\ \A u \in Threads : call'[u].slot = x => call'[u].step \notin {"insert", "destroy"}
  /\ \A u \in Threads : call'[u].step \in {"insert", "destroy"} =>
       \/ call'[u].step = call[u].step /\ call'[u].slot = call[u].slot /\ devs'[call[u].slot] = devs[call[u].slot]
       \/ ~fresh'[call'[u].slot] /\ (call'[u].step = "destroy" => devs'[call'[u].slot] # {})

LEMMA KeepsFreshStep ==
  ASSUME IInv, KeepsFresh, CallsWellFormed'
  PROVE  FreshLives'
<1>0. FreshLives
  BY DEF IInv
<1>1. ASSUME NEW x \in Slots, fresh'[x] PROVE Referenced(x, m_sessions', call')
  BY <1>0, <1>1 DEF FreshLives, KeepsFresh
<1>2. ASSUME NEW u \in Threads, call'[u].step \in {"insert", "destroy"}
      PROVE  /\ ~fresh'[call'[u].slot]
             /\ call'[u].step = "destroy" => devs'[call'[u].slot] # {}
  <2>1. call'[u].slot \in Slots
    BY <1>2 DEF CallsWellFormed, NoCall
  <2>2. CASE call'[u].step = call[u].step /\ call'[u].slot = call[u].slot /\ devs'[call[u].slot] = devs[call[u].slot]
    <3>1. ~fresh[call[u].slot] /\ (call[u].step = "destroy" => devs[call[u].slot] # {})
      BY <1>0, <1>2, <2>2 DEF FreshLives
    <3> QED BY <1>2, <2>1, <2>2, <3>1 DEF KeepsFresh
  <2>3. CASE ~fresh'[call'[u].slot] /\ (call'[u].step = "destroy" => devs'[call'[u].slot] # {})
    BY <2>3
  <2> QED BY <1>2, <2>2, <2>3 DEF KeepsFresh
<1> QED BY <1>1, <1>2 DEF FreshLives

(* The memory of the consumer only depends on its own session. *)
LEMMA MemoryStep ==
  ASSUME IInv, mem'.slot = mem.slot, mem'.dev = mem.dev, mem'.handle = mem.handle,
         \A s \in Slots : (\E h \in Handles : m_sessions[h] = s) /\ (\A t \in Threads : Builds(t) => call[t].slot # s) =>
           /\ \E h \in Handles : m_sessions'[h] = s
           /\ \A t \in Threads : Builds(t)' => call'[t].slot # s
           /\ devs'[s] = devs[s] /\ m_handle'[s] = m_handle[s]
  PROVE  MemoryCurrent'
BY DEF IInv, MemoryCurrent

(* A step that lets a Session go keeps what the invariant says of calls and *)
(* objects.                                                                 *)
LEMMA LetsGoStep ==
  ASSUME IInv, NEW t \in Threads, NEW s \in Slots, LetsGo(t, s)
  PROVE  /\ CallsWellFormed' /\ SlotsOwned' /\ SlotsClean' /\ FreshLives'
         /\ HandlesUnique' /\ NoStaleObject' /\ SoleDiscovery' /\ HandlesAssigned'
<1> USE SlotsAssumption
<1>0. TypeOK /\ CallsWellFormed /\ SlotsOwned /\ SlotsClean /\ HandlesUnique /\ NoStaleObject /\ SoleDiscovery /\ HandlesAssigned
  BY DEF IInv
<1>1. /\ \A u \in Threads : u # t => call'[u] = call[u]
      /\ \/ call'[t] = NoCall
         \/ /\ call'[t].op = "destroy" /\ call'[t].step = "destroy" /\ call'[t].slot = s
            /\ \A h \in Handles : m_sessions'[h] # s
            /\ \A u \in Threads : u # t => call[u].slot # s
      /\ UNCHANGED <<m_objects, devs, m_handle, excused>>
      /\ \A x \in Slots : fresh'[x] => fresh[x]
  BY DEF LetsGo
<1>2. CallsWellFormed'
  BY <1>0, <1>1 DEF CallsWellFormed, NoCall
<1>3. \A u \in Threads : Builds(u)' \/ Initializing(u)' \/ call'[u].step \in {"insert", "add"} =>
        u # t /\ call'[u] = call[u]
  BY <1>1 DEF Builds, Initializing, NoCall
<1>4. SlotsOwned'
  <2>1. ASSUME NEW v \in Threads, NEW u \in Threads, v # u, Owns(v)' PROVE call'[u].slot # call'[v].slot
    <3>1. CASE v = t
      BY <1>1, <2>1, <3>1 DEF Owns, NoCall
    <3>2. CASE v # t
      <4>1. call'[v] = call[v] /\ Owns(v) /\ call[v].slot \in Slots
        BY <1>0, <1>1, <2>1, <3>2 DEF Owns, CallsWellFormed
      <4>2. CASE u = t
        BY <1>1, <3>2, <4>1, <4>2 DEF NoCall, NoSlot
      <4>3. CASE u # t
        BY <1>0, <1>1, <2>1, <4>1, <4>3 DEF SlotsOwned
      <4> QED BY <4>2, <4>3
    <3> QED BY <3>1, <3>2
  <2>2. ASSUME NEW v \in Threads, call'[v].op \in {"operate", "destroy"} \/ call'[v].step = "insert", NEW h \in Handles
        PROVE  m_sessions'[h] # call'[v].slot
    <3>1. CASE v = t
      BY <1>1, <2>2, <3>1 DEF NoCall
    <3>2. CASE v # t
      <4>1. call'[v] = call[v] /\ call[v].slot \in Slots
        BY <1>0, <1>1, <2>2, <3>2 DEF CallsWellFormed, NoCall
      <4> QED BY <1>0, <2>2, <4>1 DEF SlotsOwned, LetsGo, NoSlot
    <3> QED BY <3>1, <3>2
  <2>3. ASSUME NEW v \in Threads, call'[v].op = "open", Initializing(v)'
        PROVE  \E h \in Handles : m_sessions'[h] = call'[v].slot
    <3>1. call'[v] = call[v] /\ call'[v].slot # s
      BY <1>3, <2>3 DEF Builds, LetsGo
    <3>2. PICK h \in Handles : m_sessions[h] = call[v].slot
      BY <1>0, <2>3, <3>1 DEF SlotsOwned, Initializing
    <3> QED BY <3>1, <3>2 DEF LetsGo
  <2> QED BY <2>1, <2>2, <2>3 DEF SlotsOwned
<1>5. ASSUME NEW x \in Slots, devs[x] # {} \/ fresh'[x], Referenced(x, m_sessions, call)
      PROVE  Referenced(x, m_sessions', call')
  <2>1. CASE x = s
    BY <1>5, <2>1 DEF LetsGo, Referenced
  <2>2. CASE x # s
    BY <1>5, <2>2 DEF LetsGo, Referenced, NoSlot
  <2> QED BY <2>1, <2>2
<1>6. KeepsObjects
  BY <1>1, <1>5 DEF KeepsObjects
<1>7. FreshLives'
  <2>1. ASSUME NEW u \in Threads, call'[u].step \in {"insert", "destroy"}
        PROVE  \/ call'[u].step = call[u].step /\ call'[u].slot = call[u].slot /\ devs'[call[u].slot] = devs[call[u].slot]
               \/ ~fresh'[call'[u].slot] /\ (call'[u].step = "destroy" => devs'[call'[u].slot] # {})
    BY <2>1 DEF LetsGo, NoCall
  <2> QED BY <1>1, <1>2, <1>5, <2>1, KeepsFreshStep DEF KeepsFresh
<1>8. SlotsClean'
  <2>1. ASSUME NEW u \in Threads, call'[u].step = "insert" PROVE devs'[call'[u].slot] = {}
    BY <1>0, <1>1, <1>3, <2>1 DEF SlotsClean
  <2>2. ASSUME NEW u \in Threads, Initializing(u)' PROVE \A d \in devs'[call'[u].slot] : d < call'[u].dev
    <3>1. call'[u] = call[u] /\ Initializing(u)
      BY <1>3, <2>2 DEF Initializing
    <3> QED BY <1>0, <1>1, <3>1 DEF SlotsClean
  <2> QED BY <1>6, <2>1, <2>2, KeepsObjectsStep DEF SlotsClean
<1>9. SoleDiscovery'
  <2>1. \A u \in Threads : Initializing(u)' => call'[u] = call[u] /\ Initializing(u)
    BY <1>3 DEF Initializing
  <2>2. \A u \in Threads : call'[u].step = "add" => call'[u] = call[u]
    BY <1>3
  <2> QED BY <1>0, <1>1, <2>1, <2>2 DEF SoleDiscovery
<1> QED BY <1>2, <1>4, <1>6, <1>7, <1>8, <1>9, KeepsObjectsStep

(* SsiInitialize and a hotplug touch no object, SsiFinalize those that no   *)
(* Session has.                                                             *)
LEMMA SystemStep ==
  ASSUME IInv, SsiInitialize \/ SsiFinalize \/ Hotplug
  PROVE  IInv'
<1> USE SlotsAssumption
<1>0. TypeOK /\ CallsWellFormed /\ SlotsOwned /\ SlotsClean /\ FreshLives /\ SoleDiscovery
  BY DEF IInv
<1>1. CASE SsiFinalize
  <2>1. /\ UNCHANGED <<hw, m_sessions, devs, m_handle, call, fresh>>
        /\ \A t \in Threads : call[t] = NoCall
        /\ \A h \in Handles : m_sessions[h] = NoSlot /\ m_objects'[h] = NoObject
        /\ ctx' = FALSE /\ mem' = NoMem /\ excused' = FALSE
    BY <1>1 DEF SsiFinalize, Idle, Keys
  <2>2. TypeOK'
    BY <1>0, <1>1 DEF TypeOK, SsiFinalize, NoMem, SSI_NULL_HANDLE, NoSlot
  <2>3. CallsWellFormed' /\ SlotsOwned' /\ SlotsClean' /\ FreshLives'
    BY <1>0, <2>1 DEF CallsWellFormed, SlotsOwned, SlotsClean, FreshLives, Owns, Initializing, Referenced
  <2>4. \A s \in Slots : devs'[s] = {}
    BY <1>0, <2>1 DEF SlotsClean, Referenced, NoCall, NoSlot
  <2>5. HandlesUnique' /\ NoStaleObject' /\ HandlesAssigned'
    BY <2>1, <2>4 DEF HandlesUnique, NoStaleObject, HandlesAssigned
  <2>6. MemoryCurrent' /\ SoleDiscovery'
    BY <2>1 DEF MemoryCurrent, SoleDiscovery, NoMem, Initializing, NoCall
  <2> QED BY <2>2, <2>3, <2>5, <2>6 DEF IInv
<1>2. CASE SsiInitialize \/ Hotplug
  <2>1. UNCHANGED <<maps, call, excused>> /\ \A s \in Slots : fresh'[s] => fresh[s]
    BY <1>2 DEF SsiInitialize, Hotplug, maps
  <2>2. TypeOK'
    <3>1. CASE SsiInitialize
      BY <1>0, <3>1 DEF TypeOK, SsiInitialize, maps
    <3>2. CASE Hotplug
      <4>1. hw' \in SUBSET Devices /\ fresh' \in [Slots -> BOOLEAN]
        BY <1>0, <3>2 DEF Hotplug, TypeOK
      <4>2. mem' \in [handle : Handles \cup {SSI_NULL_HANDLE}, dev : Devices \cup {0},
                      slot : Slots \cup {NoSlot}, again : BOOLEAN]
        BY <1>0, <3>2 DEF Hotplug, TypeOK
      <4> QED BY <1>0, <3>2, <4>1, <4>2 DEF Hotplug, TypeOK, maps
    <3> QED BY <1>2, <3>1, <3>2
  <2>3. CallsWellFormed' /\ SlotsOwned' /\ SlotsClean' /\ SoleDiscovery'
    BY <1>0, <2>1 DEF CallsWellFormed, SlotsOwned, SlotsClean, SoleDiscovery, Owns, Initializing, Referenced, maps
  <2>4. HandlesUnique' /\ NoStaleObject' /\ HandlesAssigned'
    BY <2>1, KeepsObjectsStep DEF KeepsObjects, maps
  <2>5. FreshLives'
    BY <2>1, <2>3, KeepsFreshStep DEF KeepsFresh, maps
  <2>6. MemoryCurrent'
    <3>1. mem' = mem \/ mem' = [mem EXCEPT !.again = FALSE]
      BY <1>2 DEF SsiInitialize, Hotplug
    <3>2. mem'.slot = mem.slot /\ mem'.dev = mem.dev /\ mem'.handle = mem.handle
      BY <1>0, <3>1 DEF TypeOK
    <3> QED BY <2>1, <3>2, MemoryStep DEF maps, Builds
  <2> QED BY <2>2, <2>3, <2>4, <2>5, <2>6 DEF IInv
<1> QED BY <1>1, <1>2

-----------------------------------------------------------------------------
(* The steps of a call that leave the objects alone. *)

Parts ==
  TypeOK /\ CallsWellFormed /\ SlotsOwned /\ SlotsClean /\ FreshLives /\ HandlesUnique
  /\ NoStaleObject /\ MemoryCurrent /\ SoleDiscovery /\ HandlesAssigned

(* SsiSessionOpen takes a free Session for its own. *)
LEMMA OpenCallStep ==
  ASSUME IInv, NEW t \in Threads, OpenCall(t)
  PROVE  IInv'
<1> USE SlotsAssumption
<1>0. Parts
  BY DEF IInv, Parts
<1>1. PICK s \in Slots :
        /\ FreeSlot(s)
        /\ call' = [call EXCEPT ![t] = [NoCall EXCEPT !.op = "open", !.step = "insert",
             !.slot = s, !.unique = getUniqueHandle(Keys(m_sessions, NoSlot))]]
  BY DEF OpenCall
<1>2. call[t] = NoCall /\ UNCHANGED <<ctx, hw, maps, mem, fresh, excused>>
  BY DEF OpenCall, Idle
<1>3. getUniqueHandle(Keys(m_sessions, NoSlot)) \in Handles \cup {SSI_NULL_HANDLE}
  BY UniqueHandle DEF Keys
<1>4. /\ call'[t].op = "open" /\ call'[t].step = "insert" /\ call'[t].slot = s
      /\ call'[t].dev = 0 /\ call'[t].unique \in Handles \cup {SSI_NULL_HANDLE}
      /\ \A u \in Threads : u # t => call'[u] = call[u]
  BY <1>0, <1>1, <1>3 DEF NoCall, Parts, TypeOK
<1>5. /\ \A h \in Handles : m_sessions[h] # s
      /\ \A u \in Threads : call[u].slot # s
      /\ devs[s] = {}
  BY <1>0, <1>1 DEF FreeSlot, Referenced, Parts, SlotsClean
<1>6. TypeOK'
  <2>1. [NoCall EXCEPT !.op = "open", !.step = "insert", !.slot = s,
                       !.unique = getUniqueHandle(Keys(m_sessions, NoSlot))] \in Calls
    BY <1>3, NoCallType DEF Calls
  <2>2. call' \in [Threads -> Calls]
    BY <1>0, <1>1, <2>1 DEF Parts, TypeOK
  <2> QED BY <1>0, <1>2, <2>2 DEF Parts, TypeOK, maps
<1>7. CallsWellFormed'
  BY <1>0, <1>4 DEF Parts, CallsWellFormed
<1>8. SlotsOwned'
  BY <1>0, <1>2, <1>4, <1>5 DEF Parts, SlotsOwned, Owns, maps, Initializing
<1>9. KeepsObjects
  BY <1>2, <1>4, <1>5 DEF KeepsObjects, Referenced, maps, NoCall, NoSlot
<1>10. SlotsClean'
  <2>1. ASSUME NEW u \in Threads, call'[u].step = "insert" PROVE devs'[call'[u].slot] = {}
    BY <1>0, <1>2, <1>4, <1>5, <2>1 DEF Parts, SlotsClean, maps
  <2>2. ASSUME NEW u \in Threads, Initializing(u)' PROVE \A d \in devs'[call'[u].slot] : d < call'[u].dev
    BY <1>0, <1>2, <1>4, <2>2 DEF Parts, SlotsClean, maps, Initializing
  <2> QED BY <1>9, <2>1, <2>2, KeepsObjectsStep DEF SlotsClean
<1>11. MemoryCurrent'
  BY <1>2, <1>4, <1>5, MemoryStep DEF maps, Builds
<1>12. SoleDiscovery'
  <2>1. \A u \in Threads : Initializing(u)' => Initializing(u)
    BY <1>4 DEF Initializing
  <2>2. \A u \in Threads : call'[u].step = "add" => call[u].step = "add" /\ call'[u].unique = call[u].unique
    BY <1>4
  <2> QED BY <1>0, <1>2, <2>1, <2>2 DEF Parts, SoleDiscovery, maps
<1>13. FreshLives'
  <2>1. ~fresh[s] /\ fresh' = fresh /\ devs' = devs
    BY <1>0, <1>1, <1>2 DEF FreeSlot, Parts, FreshLives, maps
  <2>2. \A x \in Slots : Referenced(x, m_sessions, call) => Referenced(x, m_sessions', call')
    BY <1>2, <1>4, <1>5 DEF Referenced, maps, NoCall, NoSlot
  <2> QED BY <1>4, <1>7, <2>1, <2>2, KeepsFreshStep DEF KeepsFresh
<1> QED BY <1>6, <1>7, <1>8, <1>9, <1>10, <1>11, <1>12, <1>13, KeepsObjectsStep DEF IInv

(* Session::initialize begins on a Session that belongs to this call only. *)
LEMMA BeginStep ==
  ASSUME IInv, NEW t \in Threads, NEW s \in Slots, NEW c \in Calls,
         Begin(t, s, c), c.op \in {"open", "operate"}, c.slot = s,
         devs[s] = {}, \A u \in Threads : u # t => call[u].slot # s,
         \A h \in Handles : m_sessions[h] # s, call[t].slot \in {s, NoSlot},
         c.op = "operate" => \A h \in Handles : m_sessions'[h] # s,
         c.op = "open" => \E h \in Handles : m_sessions'[h] = s,
         m_sessions' \in [Handles -> Slots \cup {NoSlot}],
         \A h \in Handles : m_sessions'[h] = m_sessions[h] \/ (m_sessions'[h] = s /\ m_sessions[h] = NoSlot),
         UNCHANGED <<ctx, hw, m_objects, devs, m_handle, mem>>
  PROVE  IInv'
<1> USE SlotsAssumption
<1>0. Parts
  BY DEF IInv, Parts
<1> DEFINE n == [c EXCEPT !.step = "discover", !.dev = 1]
<1>1. call' = [call EXCEPT ![t] = n]
  BY DEF Begin
<1>2. n \in Calls
  <2>1. 1 \in 0 .. NumDevices + 1 /\ "discover" \in {"idle", "insert", "discover", "add", "read", "destroy"}
    BY NumDevicesAssumption
  <2> QED BY <2>1 DEF Calls
<1>3. /\ n.op = c.op /\ n.step = "discover" /\ n.slot = s /\ n.dev = 1
      /\ call'[t] = n /\ \A u \in Threads : u # t => call'[u] = call[u]
  BY <1>0, <1>1 DEF Parts, TypeOK, Calls
<1> HIDE DEF n
<1>4. /\ fresh' \in [Slots -> BOOLEAN] /\ excused' \in BOOLEAN /\ (excused => excused')
      /\ ~excused' => \A u \in Threads : ~Initializing(u)
  <2>1. fresh \in [Slots -> BOOLEAN] /\ excused \in BOOLEAN
    BY <1>0 DEF Parts, TypeOK
  <2>2. fresh' \in [Slots -> BOOLEAN]
    BY <2>1 DEF Begin
  <2>3. excused' = (excused \/ \E u \in Threads : Initializing(u))
    BY DEF Begin
  <2> QED BY <2>1, <2>2, <2>3
<1>5. TypeOK'
  <2>1. call' \in [Threads -> Calls]
    BY <1>0, <1>1, <1>2 DEF Parts, TypeOK
  <2> QED BY <1>0, <1>4, <2>1 DEF Parts, TypeOK
<1>6. CallsWellFormed'
  <2>1. 1 \in 1 .. NumDevices + 1
    BY NumDevicesAssumption
  <2> QED BY <1>0, <1>3, <2>1 DEF Parts, CallsWellFormed
<1>7. SlotsOwned'
  <2>1. ASSUME NEW v \in Threads, NEW u \in Threads, v # u, Owns(v)' PROVE call'[u].slot # call'[v].slot
    BY <1>0, <1>3, <2>1 DEF Parts, SlotsOwned, Owns
  <2>2. ASSUME NEW v \in Threads, call'[v].op \in {"operate", "destroy"} \/ call'[v].step = "insert", NEW h \in Handles
        PROVE  m_sessions'[h] # call'[v].slot
    <3>1. CASE v = t
      BY <1>3, <2>2, <3>1
    <3>2. CASE v # t
      BY <1>0, <1>3, <2>2, <3>2 DEF Parts, SlotsOwned
    <3> QED BY <3>1, <3>2
  <2>3. ASSUME NEW v \in Threads, call'[v].op = "open", Initializing(v)'
        PROVE  \E h \in Handles : m_sessions'[h] = call'[v].slot
    <3>1. CASE v = t
      BY <1>3, <2>3, <3>1
    <3>2. CASE v # t
      <4>1. call'[v] = call[v] /\ Initializing(v) /\ call[v].slot \in Slots
        BY <1>0, <1>3, <2>3, <3>2, Building DEF Parts, Initializing
      <4>2. PICK h \in Handles : m_sessions[h] = call[v].slot
        BY <1>0, <2>3, <4>1 DEF Parts, SlotsOwned
      <4> QED BY <4>1, <4>2 DEF NoSlot
    <3> QED BY <3>1, <3>2
  <2> QED BY <2>1, <2>2, <2>3 DEF SlotsOwned
<1>8. \A x \in Slots : Referenced(x, m_sessions, call) => Referenced(x, m_sessions', call')
  <2> SUFFICES ASSUME NEW x \in Slots, Referenced(x, m_sessions, call)
               PROVE  Referenced(x, m_sessions', call')
    OBVIOUS
  <2>1. CASE \E h \in Handles : m_sessions[h] = x
    <3>1. PICK h \in Handles : m_sessions[h] = x
      BY <2>1
    <3>2. m_sessions'[h] = x
      BY <3>1 DEF NoSlot
    <3> QED BY <3>2 DEF Referenced
  <2>2. CASE \E u \in Threads : call[u].slot = x
    <3>1. PICK u \in Threads : call[u].slot = x
      BY <2>2
    <3>2. call'[u].slot = x
      BY <1>3, <3>1 DEF NoSlot
    <3> QED BY <3>2 DEF Referenced
  <2> QED BY <2>1, <2>2 DEF Referenced
<1>12. KeepsObjects
  BY <1>4, <1>8 DEF KeepsObjects
<1>13. FreshLives'
  <2>1. Referenced(s, m_sessions', call') /\ \A u \in Threads : call'[u].slot = s => call'[u].step = "discover"
    BY <1>3 DEF Referenced
  <2>2. \A x \in Slots : fresh'[x] => x = s \/ fresh[x]
    BY DEF Begin
  <2>3. \A u \in Threads : call'[u].step \in {"insert", "destroy"} => call'[u] = call[u]
    BY <1>3
  <2> QED BY <1>6, <1>8, <2>1, <2>2, <2>3, KeepsFreshStep DEF KeepsFresh
<1>9. SlotsClean'
  <2>1. ASSUME NEW u \in Threads, call'[u].step = "insert" PROVE devs'[call'[u].slot] = {}
    BY <1>0, <1>3, <2>1 DEF Parts, SlotsClean
  <2>2. ASSUME NEW u \in Threads, Initializing(u)' PROVE \A d \in devs'[call'[u].slot] : d < call'[u].dev
    <3>1. CASE u = t
      BY <1>3, <3>1
    <3>2. CASE u # t
      BY <1>0, <1>3, <2>2, <3>2 DEF Parts, SlotsClean, Initializing
    <3> QED BY <3>1, <3>2
  <2> QED BY <1>12, <2>1, <2>2, KeepsObjectsStep DEF SlotsClean
<1>10. MemoryCurrent'
  <2> SUFFICES ASSUME NEW x \in Slots, \E h \in Handles : m_sessions[h] = x,
                      \A u \in Threads : Builds(u) => call[u].slot # x
               PROVE  /\ \E h \in Handles : m_sessions'[h] = x
                      /\ \A u \in Threads : Builds(u)' => call'[u].slot # x
    BY MemoryStep
  <2>1. \E h \in Handles : m_sessions'[h] = x
    BY DEF NoSlot
  <2> QED BY <1>3, <2>1 DEF Builds
<1>11. SoleDiscovery'
  <2>1. \A u \in Threads : u # t => (Initializing(u)' <=> Initializing(u)) /\ (call'[u].step = "add" => call[u].step = "add")
    BY <1>3 DEF Initializing
  <2>2. call'[t].step # "add"
    BY <1>3
  <2>3. \A u \in Threads : call'[u].step = "add" => Inserts(call'[u].unique, m_objects', NoObject) \/ excused'
    BY <1>0, <1>3, <1>4, <2>1, <2>2 DEF Initializing
  <2> QED BY <1>4, <2>1, <2>3 DEF SoleDiscovery
<1> QED BY <1>5, <1>6, <1>7, <1>9, <1>10, <1>11, <1>12, <1>13, KeepsObjectsStep DEF IInv

(* A changing call begins on a temporary Session of its own. *)
LEMMA OperateCallStep ==
  ASSUME IInv, NEW t \in Threads, OperateCall(t)
  PROVE  IInv'
<1>1. PICK s \in Slots : FreeSlot(s) /\ Begin(t, s, [NoCall EXCEPT !.op = "operate", !.slot = s])
  BY DEF OperateCall
<1> DEFINE c == [NoCall EXCEPT !.op = "operate", !.slot = s]
<1>2. c \in Calls /\ c.op = "operate" /\ c.slot = s
  BY NoCallType DEF Calls
<1>3. /\ \A h \in Handles : m_sessions[h] # s
      /\ \A u \in Threads : call[u].slot # s
      /\ devs[s] = {}
  BY <1>1 DEF FreeSlot, Referenced, IInv, SlotsClean
<1>4. call[t].slot = NoSlot /\ UNCHANGED <<ctx, hw, maps, mem>>
  BY DEF OperateCall, Idle, NoCall
<1>5. Begin(t, s, c)
  BY <1>1
<1>6. /\ m_sessions' = m_sessions /\ m_sessions \in [Handles -> Slots \cup {NoSlot}]
      /\ UNCHANGED <<ctx, hw, m_objects, devs, m_handle, mem>>
  BY <1>4 DEF maps, IInv, TypeOK
<1> HIDE DEF c
<1> QED BY <1>2, <1>3, <1>4, <1>5, <1>6, BeginStep

(* SsiSessionOpen registers its Session and begins, or gives it up. *)
LEMMA OpenInsertStep ==
  ASSUME IInv, NEW t \in Threads, OpenInsert(t)
  PROVE  IInv'
<1> USE SlotsAssumption
<1> DEFINE c == call[t]
           s == c.slot
<1>0. Parts
  BY DEF IInv, Parts
<1>1. /\ c \in Calls /\ c.step = "insert" /\ c.op = "open" /\ s \in Slots
      /\ \A h \in Handles : m_sessions[h] # s
      /\ \A u \in Threads : u # t => call[u].slot # s
      /\ devs[s] = {}
  <2>1. c \in Calls /\ c.step = "insert"
    BY <1>0 DEF OpenInsert, Parts, TypeOK
  <2>2. Builds(t) /\ s \in Slots
    BY <1>0, <2>1, Building DEF Parts
  <2>3. c.op = "open"
    BY <1>0, <2>1, <2>2 DEF Parts, CallsWellFormed, Builds
  <2> QED BY <1>0, <2>1, <2>2, <2>3 DEF Parts, SlotsOwned, SlotsClean, Owns
<1>2. CASE /\ Inserts(c.unique, m_sessions, NoSlot)
           /\ m_sessions' = [m_sessions EXCEPT ![c.unique] = s]
           /\ Begin(t, s, c)
  <2>1. m_sessions' = [m_sessions EXCEPT ![c.unique] = s] /\ Begin(t, s, c)
    BY <1>2
  <2>2. c.unique \in Handles /\ m_sessions[c.unique] = NoSlot
    BY <1>1, <1>2 DEF Inserts, Calls
  <2>3. /\ m_sessions' \in [Handles -> Slots \cup {NoSlot}]
        /\ \A h \in Handles : m_sessions'[h] = m_sessions[h] \/ (m_sessions'[h] = s /\ m_sessions[h] = NoSlot)
        /\ m_sessions'[c.unique] = s
    BY <1>0, <1>1, <2>1, <2>2 DEF Parts, TypeOK
  <2> QED BY <1>1, <2>1, <2>2, <2>3, BeginStep DEF OpenInsert
<1>3. CASE call' = [call EXCEPT ![t] = NoCall] /\ UNCHANGED <<m_sessions, fresh, excused>>
  <2>1. call' = [call EXCEPT ![t] = NoCall] /\ UNCHANGED <<ctx, hw, maps, mem, fresh, excused>>
    BY <1>3 DEF OpenInsert, maps
  <2>2. call'[t] = NoCall /\ \A u \in Threads : u # t => call'[u] = call[u]
    BY <1>0, <2>1 DEF Parts, TypeOK
  <2>3. TypeOK'
    <3>1. call' \in [Threads -> Calls]
      BY <1>0, <2>1, NoCallType DEF Parts, TypeOK
    <3> QED BY <1>0, <2>1, <3>1 DEF Parts, TypeOK, maps
  <2>4. CallsWellFormed'
    BY <1>0, <2>2 DEF Parts, CallsWellFormed, NoCall
  <2>5. SlotsOwned'
    <3>1. ASSUME NEW v \in Threads, NEW u \in Threads, v # u, Owns(v)' PROVE call'[u].slot # call'[v].slot
      <4>1. v # t /\ call'[v] = call[v] /\ Owns(v)
        BY <2>2, <3>1 DEF Owns, NoCall
      <4>2. call[v].slot \in Slots
        BY <1>0, <4>1 DEF Parts, CallsWellFormed, Owns
      <4> QED BY <1>0, <2>2, <3>1, <4>1, <4>2 DEF Parts, SlotsOwned, NoCall, NoSlot
    <3>2. ASSUME NEW v \in Threads, call'[v].op \in {"operate", "destroy"} \/ call'[v].step = "insert", NEW h \in Handles
          PROVE  m_sessions'[h] # call'[v].slot
      BY <1>0, <2>1, <2>2, <3>2 DEF Parts, SlotsOwned, NoCall, maps
    <3>3. ASSUME NEW v \in Threads, call'[v].op = "open", Initializing(v)'
          PROVE  \E h \in Handles : m_sessions'[h] = call'[v].slot
      <4>1. call'[v] = call[v] /\ Initializing(v)
        BY <2>2, <3>3 DEF NoCall, Initializing
      <4> QED BY <1>0, <2>1, <3>3, <4>1 DEF Parts, SlotsOwned, maps
    <3> QED BY <3>1, <3>2, <3>3 DEF SlotsOwned
  <2>6. KeepsObjects
    BY <1>1, <2>1, <2>2 DEF KeepsObjects, Referenced, maps
  <2>7. SlotsClean'
    <3>1. ASSUME NEW u \in Threads, call'[u].step = "insert" PROVE devs'[call'[u].slot] = {}
      BY <1>0, <2>1, <2>2, <3>1 DEF Parts, SlotsClean, maps, NoCall
    <3>2. ASSUME NEW u \in Threads, Initializing(u)' PROVE \A d \in devs'[call'[u].slot] : d < call'[u].dev
      BY <1>0, <2>1, <2>2, <3>2 DEF Parts, SlotsClean, maps, Initializing, NoCall
    <3> QED BY <2>6, <3>1, <3>2, KeepsObjectsStep DEF SlotsClean
  <2>8. MemoryCurrent'
    BY <1>0, <2>1, <2>2, MemoryStep DEF maps, Builds, NoCall
  <2>9. SoleDiscovery'
    <3>1. \A u \in Threads : Initializing(u)' => Initializing(u)
      BY <2>2 DEF Initializing, NoCall
    <3>2. \A u \in Threads : call'[u].step = "add" => call'[u] = call[u]
      BY <2>2 DEF NoCall
    <3> QED BY <1>0, <2>1, <3>1, <3>2 DEF Parts, SoleDiscovery, maps
  <2>10. FreshLives'
    <3>1. ~fresh[s]
      BY <1>0, <1>1 DEF Parts, FreshLives
    <3>2. ASSUME NEW x \in Slots, fresh'[x], Referenced(x, m_sessions, call) PROVE Referenced(x, m_sessions', call')
      BY <2>1, <2>2, <3>1, <3>2 DEF Referenced, maps
    <3>3. \A u \in Threads : call'[u].step \in {"insert", "destroy"} => call'[u] = call[u]
      BY <2>2 DEF NoCall
    <3> QED BY <2>1, <2>4, <3>2, <3>3, KeepsFreshStep DEF KeepsFresh, maps
  <2> QED BY <2>3, <2>4, <2>5, <2>6, <2>7, <2>8, <2>9, <2>10, KeepsObjectsStep DEF IInv
<1> QED BY <1>2, <1>3 DEF OpenInsert

(* The handle computed for the next device is unused at that moment. *)
LEMMA DiscoverStep ==
  ASSUME IInv, NEW t \in Threads, Discover(t)
  PROVE  IInv'
<1> USE SlotsAssumption
<1> DEFINE c == call[t]
           unique == getUniqueHandle(Keys(m_objects, NoObject))
<1>0. Parts
  BY DEF IInv, Parts
<1>1. c \in Calls /\ c.step = "discover" /\ c.dev \in Devices /\ Builds(t) /\ c.slot \in Slots
  BY <1>0, Building DEF Discover, Parts, TypeOK
<1>2. unique \in Handles \cup {SSI_NULL_HANDLE} /\ unique \notin Keys(m_objects, NoObject)
  BY UniqueHandle DEF Keys
<1> HIDE DEF unique
<1>3. /\ UNCHANGED <<ctx, hw, maps, mem, fresh>>
      /\ \/ /\ call' = [call EXCEPT ![t] = [c EXCEPT !.step = "add", !.unique = unique]]
            /\ excused' = (excused \/ unique = SSI_NULL_HANDLE)
         \/ call' = [call EXCEPT ![t].dev = c.dev + 1] /\ excused' = excused
  BY DEF Discover, unique
<1>4. /\ call' \in [Threads -> Calls]
      /\ call'[t].op = c.op /\ call'[t].slot = c.slot
      /\ \/ /\ call'[t].step = "add" /\ call'[t].dev = c.dev /\ call'[t].unique = unique
            /\ excused' = (excused \/ unique = SSI_NULL_HANDLE)
         \/ call'[t].step = "discover" /\ call'[t].dev = c.dev + 1 /\ excused' = excused
      /\ \A u \in Threads : u # t => call'[u] = call[u]
  <2>1. [c EXCEPT !.step = "add", !.unique = unique] \in Calls
    BY <1>1, <1>2 DEF Calls
  <2>2. [c EXCEPT !.dev = c.dev + 1] \in Calls
    BY <1>1, NumDevicesAssumption DEF Calls, Devices
  <2>3. CASE /\ call' = [call EXCEPT ![t] = [c EXCEPT !.step = "add", !.unique = unique]]
             /\ excused' = (excused \/ unique = SSI_NULL_HANDLE)
    <3>1. call'[t] = [c EXCEPT !.step = "add", !.unique = unique] /\ \A u \in Threads : u # t => call'[u] = call[u]
      BY <1>0, <2>3 DEF Parts, TypeOK
    <3>2. call' \in [Threads -> Calls]
      BY <1>0, <2>1, <2>3 DEF Parts, TypeOK
    <3> QED BY <1>1, <2>3, <3>1, <3>2 DEF Calls
  <2>4. CASE call' = [call EXCEPT ![t].dev = c.dev + 1] /\ excused' = excused
    <3>1. call' = [call EXCEPT ![t] = [c EXCEPT !.dev = c.dev + 1]]
      BY <2>4
    <3>2. call'[t] = [c EXCEPT !.dev = c.dev + 1] /\ \A u \in Threads : u # t => call'[u] = call[u]
      BY <1>0, <3>1 DEF Parts, TypeOK
    <3>3. call' \in [Threads -> Calls]
      BY <1>0, <2>2, <3>1 DEF Parts, TypeOK
    <3> QED BY <1>1, <2>4, <3>2, <3>3 DEF Calls
  <2> QED BY <1>3, <2>3, <2>4
<1>5. TypeOK'
  BY <1>0, <1>3, <1>4 DEF Parts, TypeOK, maps
<1>6. CallsWellFormed'
  <2>1. c.dev + 1 \in 1 .. NumDevices + 1
    BY <1>1, NumDevicesAssumption DEF Devices
  <2> QED BY <1>0, <1>1, <1>4, <2>1 DEF Parts, CallsWellFormed, Builds
<1>7. \A u \in Threads : /\ Initializing(u)' <=> Initializing(u)
                         /\ Builds(u)' <=> Builds(u)
                         /\ Owns(u)' <=> Owns(u)
                         /\ call'[u].slot = call[u].slot /\ call'[u].op = call[u].op
                         /\ call'[u].step = "insert" <=> call[u].step = "insert"
                         /\ call'[u].step = "destroy" <=> call[u].step = "destroy"
  BY <1>1, <1>4 DEF Initializing, Builds, Owns
<1>8. SlotsOwned'
  BY <1>0, <1>3, <1>7 DEF Parts, SlotsOwned, maps
<1>9. KeepsObjects
  BY <1>0, <1>3, <1>4, <1>7 DEF KeepsObjects, Referenced, maps, Parts, TypeOK
<1>10. SlotsClean'
  <2>1. ASSUME NEW u \in Threads, call'[u].step = "insert" PROVE devs'[call'[u].slot] = {}
    BY <1>0, <1>3, <1>7, <2>1 DEF Parts, SlotsClean, maps
  <2>2. ASSUME NEW u \in Threads, Initializing(u)' PROVE \A d \in devs'[call'[u].slot] : d < call'[u].dev
    <3>1. \A d \in devs[call[u].slot] : d < call[u].dev
      BY <1>0, <1>7, <2>2 DEF Parts, SlotsClean
    <3>2. CASE u # t
      BY <1>3, <1>4, <3>1, <3>2 DEF maps
    <3>3. CASE u = t
      <4>1. call'[t].dev \in {c.dev, c.dev + 1} /\ c.dev \in Int /\ devs[c.slot] \subseteq Int
        BY <1>0, <1>1, <1>4 DEF Parts, TypeOK, Devices
      <4> QED BY <1>3, <1>4, <3>1, <3>3, <4>1 DEF maps
    <3> QED BY <3>2, <3>3
  <2> QED BY <1>9, <2>1, <2>2, KeepsObjectsStep DEF SlotsClean
<1>11. MemoryCurrent'
  BY <1>3, <1>7, MemoryStep DEF maps
<1>12. SoleDiscovery'
  <2>2. ASSUME ~excused', NEW u \in Threads, call'[u].step = "add"
        PROVE  Inserts(call'[u].unique, m_objects', NoObject)
    <3>1. ~excused
      BY <1>9, <2>2 DEF KeepsObjects
    <3>2. CASE u = t
      <4>1. call'[t].unique = unique /\ excused' = (excused \/ unique = SSI_NULL_HANDLE)
        BY <1>4, <2>2, <3>2
      <4>2. unique # SSI_NULL_HANDLE
        BY <2>2, <4>1
      <4>3. m_objects[unique] = NoObject
        BY <1>2, <4>2 DEF Keys
      <4> QED BY <1>3, <3>2, <4>1, <4>2, <4>3 DEF Inserts, maps
    <3>3. CASE u # t
      BY <1>0, <1>3, <1>4, <2>2, <3>1, <3>3 DEF Parts, SoleDiscovery, maps
    <3> QED BY <3>2, <3>3
  <2>3. ~excused' => ~excused
    BY <1>9 DEF KeepsObjects
  <2> QED BY <1>0, <1>7, <2>2, <2>3 DEF Parts, SoleDiscovery
<1>13. FreshLives'
  <2>1. fresh' = fresh /\ devs' = devs /\ m_sessions' = m_sessions
    BY <1>3 DEF maps
  <2>2. \A x \in Slots : Referenced(x, m_sessions, call) => Referenced(x, m_sessions', call')
    BY <1>7, <2>1 DEF Referenced
  <2> QED BY <1>6, <1>7, <2>1, <2>2, KeepsFreshStep DEF KeepsFresh
<1> QED BY <1>5, <1>6, <1>8, <1>9, <1>10, <1>11, <1>12, <1>13, KeepsObjectsStep DEF IInv

(* An object is registered under a free handle or gets none. *)
LEMMA AddStep ==
  ASSUME IInv, NEW t \in Threads, Add(t)
  PROVE  IInv'
<1> USE SlotsAssumption
<1> DEFINE c == call[t]
           s == c.slot
           o == [slot |-> s, dev |-> c.dev]
           n == [c EXCEPT !.step = "discover", !.dev = c.dev + 1, !.unique = SSI_NULL_HANDLE]
           ins == Inserts(c.unique, m_objects, NoObject)
<1>0. Parts
  BY DEF IInv, Parts
<1>1. /\ c \in Calls /\ c.step = "add" /\ c.dev \in Devices /\ Builds(t) /\ s \in Slots
      /\ Initializing(t) /\ c.dev \in Int
  BY <1>0, Building DEF Add, Parts, TypeOK, CallsWellFormed, Initializing, Devices
<1>2. c.dev \notin devs[s]
  <2>1. \A d \in devs[s] : d < c.dev
    BY <1>0, <1>1 DEF Parts, SlotsClean
  <2> QED BY <1>1, <2>1
<1>3. PICK registered \in {ins, FALSE}, listed \in BOOLEAN :
        /\ m_objects' = IF ~registered THEN m_objects
                        ELSE [m_objects EXCEPT ![c.unique] = IF listed THEN o ELSE Orphan]
        /\ m_handle' = IF registered /\ listed
                       THEN [m_handle EXCEPT ![s][c.dev] = c.unique] ELSE m_handle
        /\ devs' = IF listed THEN [devs EXCEPT ![s] = @ \cup {c.dev}] ELSE devs
        /\ excused' = (excused \/ ~listed \/ registered # ins)
  BY DEF Add
<1>a. UNCHANGED <<ctx, hw, m_sessions, mem, fresh>> /\ call' = [call EXCEPT ![t] = n]
  BY DEF Add
<1>b. registered \in BOOLEAN /\ (registered => ins) /\ (excused => excused')
  BY <1>3 DEF Inserts
<1>4. /\ n \in Calls /\ n.op = c.op /\ n.slot = s /\ n.step = "discover" /\ n.dev = c.dev + 1
  <2>1. c.dev + 1 \in 0 .. NumDevices + 1
    BY <1>1, NumDevicesAssumption DEF Devices
  <2> QED BY <1>1, <2>1 DEF Calls
<1> HIDE DEF n
<1>5. call'[t] = n /\ call' \in [Threads -> Calls] /\ \A u \in Threads : u # t => call'[u] = call[u]
  BY <1>0, <1>a, <1>4 DEF Parts, TypeOK
<1>6. ins => c.unique \in Handles /\ c.unique # SSI_NULL_HANDLE /\ m_objects[c.unique] = NoObject
  BY <1>1 DEF Inserts, Calls
<1> HIDE DEF ins, s, c
<1>7. /\ devs' \in [Slots -> SUBSET Devices]
      /\ devs'[s] = IF listed THEN devs[s] \cup {c.dev} ELSE devs[s]
      /\ \A x \in Slots : x # s => devs'[x] = devs[x]
  BY <1>0, <1>1, <1>3 DEF Parts, TypeOK
<1>8. /\ m_handle' \in [Slots -> [Devices -> Handles \cup {SSI_NULL_HANDLE}]]
      /\ \A x \in Slots, d \in Devices : x # s \/ d # c.dev => m_handle'[x][d] = m_handle[x][d]
      /\ \A x \in Slots : x # s => m_handle'[x] = m_handle[x]
      /\ m_handle'[s][c.dev] = IF registered /\ listed THEN c.unique ELSE SSI_NULL_HANDLE
  <2>1. m_handle[s][c.dev] = SSI_NULL_HANDLE
    BY <1>0, <1>1, <1>2 DEF Parts, SlotsClean
  <2>2. CASE registered /\ listed
    <3>1. m_handle' = [m_handle EXCEPT ![s] = [m_handle[s] EXCEPT ![c.dev] = c.unique]]
      BY <1>3, <2>2
    <3>2. [m_handle[s] EXCEPT ![c.dev] = c.unique] \in [Devices -> Handles \cup {SSI_NULL_HANDLE}]
      BY <1>0, <1>1, <1>6, <1>b, <2>2 DEF Parts, TypeOK
    <3>3. /\ m_handle'[s] = [m_handle[s] EXCEPT ![c.dev] = c.unique]
          /\ \A x \in Slots : x # s => m_handle'[x] = m_handle[x]
          /\ m_handle' \in [Slots -> [Devices -> Handles \cup {SSI_NULL_HANDLE}]]
      BY <1>0, <1>1, <3>1, <3>2 DEF Parts, TypeOK
    <3>4. m_handle'[s][c.dev] = c.unique /\ \A d \in Devices : d # c.dev => m_handle'[s][d] = m_handle[s][d]
      BY <1>0, <1>1, <3>3 DEF Parts, TypeOK
    <3> QED BY <2>2, <3>3, <3>4
  <2>3. CASE ~(registered /\ listed)
    <3>1. m_handle' = m_handle
      BY <1>3, <2>3
    <3> QED BY <1>0, <1>1, <2>1, <2>3, <3>1 DEF Parts, TypeOK
  <2> QED BY <2>2, <2>3
<1>9. /\ m_objects' \in [Handles -> Objects \cup {Orphan, NoObject}]
      /\ registered => m_objects'[c.unique] = IF listed THEN o ELSE Orphan
      /\ \A h \in Handles : ~registered \/ h # c.unique => m_objects'[h] = m_objects[h]
  <2>1. o \in Objects
    BY <1>1 DEF Objects
  <2> HIDE DEF o
  <2> QED BY <1>0, <1>3, <1>6, <1>b, <2>1 DEF Parts, TypeOK
<1>10. TypeOK'
  <2>1. excused' \in BOOLEAN
    BY <1>3
  <2> QED BY <1>0, <1>a, <1>5, <1>7, <1>8, <1>9, <2>1 DEF Parts, TypeOK
<1>11. CallsWellFormed'
  <2>1. c.dev + 1 \in 1 .. NumDevices + 1
    BY <1>1, NumDevicesAssumption DEF Devices
  <2> QED BY <1>0, <1>1, <1>4, <1>5, <2>1 DEF Parts, CallsWellFormed, Builds, c, s
<1>12. \A u \in Threads : /\ Initializing(u)' <=> Initializing(u)
                          /\ Builds(u)' <=> Builds(u)
                          /\ Owns(u)' <=> Owns(u)
                          /\ call'[u].slot = call[u].slot /\ call'[u].op = call[u].op
                          /\ call'[u].step = "insert" <=> call[u].step = "insert"
                          /\ call'[u].step = "destroy" <=> call[u].step = "destroy"
  BY <1>1, <1>4, <1>5 DEF Initializing, Builds, Owns, c, s
<1>13. SlotsOwned'
  BY <1>0, <1>a, <1>12 DEF Parts, SlotsOwned
<1>14. \A x \in Slots : Referenced(x, m_sessions', call') <=> Referenced(x, m_sessions, call)
  BY <1>a, <1>12 DEF Referenced
<1>15. Referenced(s, m_sessions, call)
  BY DEF Referenced, s, c
<1>16. /\ \A u \in Threads : u # t => call[u].slot # s
       /\ \A u \in Threads : call[u].step \in {"insert", "discover", "add", "destroy"} => call[u].slot \in Slots
  BY <1>0, <1>1 DEF Parts, SlotsOwned, CallsWellFormed, Builds, Owns, NoCall, c, s
<1>17. SlotsClean'
  <2>1. ASSUME NEW x \in Slots, NEW d \in Devices, d \notin devs'[x] PROVE m_handle'[x][d] = SSI_NULL_HANDLE
    BY <1>0, <1>7, <1>8, <2>1 DEF Parts, SlotsClean
  <2>2. ASSUME NEW x \in Slots, ~Referenced(x, m_sessions', call') PROVE devs'[x] = {}
    BY <1>0, <1>7, <1>14, <1>15, <2>2 DEF Parts, SlotsClean
  <2>3. ASSUME NEW u \in Threads, call'[u].step = "insert" PROVE devs'[call'[u].slot] = {}
    BY <1>0, <1>4, <1>5, <1>7, <1>16, <2>3 DEF Parts, SlotsClean
  <2>4. ASSUME NEW u \in Threads, Initializing(u)' PROVE \A d \in devs'[call'[u].slot] : d < call'[u].dev
    <3>1. \A d \in devs[call[u].slot] : d < call[u].dev
      BY <1>0, <1>12, <2>4 DEF Parts, SlotsClean
    <3>2. CASE u # t
      BY <1>5, <1>7, <1>12, <1>16, <2>4, <3>1, <3>2 DEF Initializing
    <3>3. CASE u = t
      <4>1. devs[s] \subseteq Int
        BY <1>0, <1>1 DEF Parts, TypeOK, Devices
      <4> QED BY <1>1, <1>4, <1>5, <1>7, <3>1, <3>3, <4>1 DEF s, c
    <3> QED BY <3>2, <3>3
  <2> QED BY <2>1, <2>2, <2>3, <2>4 DEF SlotsClean
<1>18. HandlesUnique'
  <2> SUFFICES ASSUME NEW x \in Slots, NEW d \in devs'[x], m_handle'[x][d] # SSI_NULL_HANDLE
               PROVE  m_objects'[m_handle'[x][d]] = [slot |-> x, dev |-> d]
    BY DEF HandlesUnique
  <2>1. CASE x = s /\ d = c.dev
    BY <1>6, <1>7, <1>8, <1>9, <1>2, <1>b, <2>1
  <2>2. CASE x # s \/ d # c.dev
    <3>1. d \in devs[x] /\ d \in Devices /\ m_handle'[x][d] = m_handle[x][d] /\ m_handle[x][d] \in Handles
      BY <1>0, <1>7, <1>8, <2>2 DEF Parts, TypeOK
    <3>2. m_objects[m_handle[x][d]] = [slot |-> x, dev |-> d]
      BY <1>0, <3>1 DEF Parts, HandlesUnique
    <3>3. m_objects[m_handle[x][d]] # NoObject
      BY <3>2 DEF NoObject, NoSlot
    <3> QED BY <1>6, <1>9, <1>b, <3>1, <3>2, <3>3
  <2> QED BY <2>1, <2>2
<1>19. NoStaleObject'
  <2> SUFFICES ASSUME NEW h \in Handles, m_objects'[h] # NoObject
               PROVE  \/ m_objects'[h] = Orphan /\ excused'
                      \/ /\ m_objects'[h] # Orphan
                         /\ m_objects'[h].dev \in devs'[m_objects'[h].slot]
                         /\ m_handle'[m_objects'[h].slot][m_objects'[h].dev] = h
                         /\ Referenced(m_objects'[h].slot, m_sessions', call')
    BY DEF NoStaleObject
  <2>0. o # Orphan
    BY <1>1 DEF Orphan, NoSlot
  <2>1. CASE registered /\ h = c.unique /\ listed
    BY <1>1, <1>7, <1>8, <1>9, <1>14, <1>15, <2>0, <2>1
  <2>2. CASE registered /\ h = c.unique /\ ~listed
    BY <1>3, <1>9, <2>2
  <2>3. CASE ~(registered /\ h = c.unique)
    <3>1. m_objects'[h] = m_objects[h]
      BY <1>9, <2>3
    <3>2. CASE m_objects[h] = Orphan
      BY <1>0, <1>b, <3>1, <3>2 DEF Parts, NoStaleObject
    <3>3. CASE m_objects[h] # Orphan
      <4>1. m_objects[h].slot \in Slots /\ m_objects[h].dev \in Devices
        BY <1>0, <3>1, <3>3 DEF Parts, TypeOK, Objects
      <4>2. /\ m_objects[h].dev \in devs[m_objects[h].slot]
            /\ m_handle[m_objects[h].slot][m_objects[h].dev] = h
            /\ Referenced(m_objects[h].slot, m_sessions, call)
        BY <1>0, <3>1, <3>3 DEF Parts, NoStaleObject
      <4>3. m_objects[h].slot # s \/ m_objects[h].dev # c.dev
        BY <1>2, <4>2
      <4> QED BY <1>7, <1>8, <1>14, <3>1, <3>3, <4>1, <4>2, <4>3
    <3> QED BY <3>2, <3>3
  <2> QED BY <2>1, <2>2, <2>3
<1>20. MemoryCurrent'
  <2> SUFFICES ASSUME NEW x \in Slots, \E h \in Handles : m_sessions[h] = x,
                      \A u \in Threads : Builds(u) => call[u].slot # x
               PROVE  devs'[x] = devs[x] /\ m_handle'[x] = m_handle[x]
    BY <1>a, <1>12, MemoryStep
  <2>1. x # s
    BY <1>1 DEF s, c
  <2> QED BY <1>7, <1>8, <2>1
<1>21. SoleDiscovery'
  <2>1. ASSUME ~excused, NEW u \in Threads, call'[u].step = "add" PROVE FALSE
    <3>1. u # t /\ Initializing(u)
      BY <1>4, <1>5, <2>1 DEF Initializing
    <3> QED BY <1>0, <1>1, <2>1, <3>1 DEF Parts, SoleDiscovery
  <2> QED BY <1>0, <1>b, <1>12, <2>1 DEF Parts, SoleDiscovery
<1>22. HandlesAssigned'
  <2> SUFFICES ASSUME ~excused', NEW x \in Slots, NEW d \in devs'[x] PROVE m_handle'[x][d] # SSI_NULL_HANDLE
    BY DEF HandlesAssigned
  <2>1. ~excused /\ listed /\ registered = ins
    BY <1>3
  <2>2. ins
    BY <1>0, <1>1, <2>1 DEF Parts, SoleDiscovery, ins, c
  <2>3. d \in Devices
    BY <1>7
  <2> QED BY <1>0, <1>6, <1>7, <1>8, <2>1, <2>2, <2>3 DEF Parts, HandlesAssigned
<1>23. FreshLives'
  <2>1. ASSUME NEW u \in Threads, call'[u].step \in {"insert", "destroy"}
        PROVE  call'[u].step = call[u].step /\ call'[u].slot = call[u].slot /\ devs'[call[u].slot] = devs[call[u].slot]
    BY <1>4, <1>5, <1>7, <1>16, <2>1
  <2> QED BY <1>a, <1>11, <1>14, <2>1, KeepsFreshStep DEF KeepsFresh
<1> QED BY <1>10, <1>11, <1>13, <1>17, <1>18, <1>19, <1>20, <1>21, <1>22, <1>23 DEF IInv

(* An opened Session keeps its objects and the SessionManager keeps it. *)
LEMMA OpenReturnsStep ==
  ASSUME IInv, NEW t \in Threads, OpenReturns(t)
  PROVE  IInv'
<1> USE SlotsAssumption
<1>0. Parts
  BY DEF IInv, Parts
<1>1. /\ call[t].op = "open" /\ Initializing(t) /\ call[t].slot \in Slots
      /\ \E h \in Handles : m_sessions[h] = call[t].slot
      /\ call' = [call EXCEPT ![t] = NoCall]
      /\ UNCHANGED <<ctx, hw, m_sessions, m_objects, devs, m_handle, mem, fresh, excused>>
  BY <1>0, Building DEF OpenReturns, Discovered, Parts, SlotsOwned, Initializing, maps
<1>2. call' \in [Threads -> Calls] /\ call'[t] = NoCall /\ \A u \in Threads : u # t => call'[u] = call[u]
  BY <1>0, <1>1, NoCallType DEF Parts, TypeOK
<1>3. TypeOK'
  BY <1>0, <1>1, <1>2 DEF Parts, TypeOK
<1>4. CallsWellFormed'
  BY <1>0, <1>2 DEF Parts, CallsWellFormed, NoCall
<1>5. \A u \in Threads : u # t \/ Owns(u)' \/ Builds(u)' \/ Initializing(u)' \/ call'[u].step = "insert" \/ call'[u].step = "add"
                         => call'[u] = call[u]
  BY <1>2 DEF NoCall, Owns, Builds, Initializing
<1>6. SlotsOwned'
  <2>1. ASSUME NEW v \in Threads, NEW u \in Threads, v # u, Owns(v)' PROVE call'[u].slot # call'[v].slot
    <3>1. call'[v] = call[v] /\ Owns(v) /\ call[v].slot \in Slots
      BY <1>0, <1>5, <2>1 DEF Owns, Parts, CallsWellFormed
    <3> QED BY <1>0, <1>2, <2>1, <3>1 DEF Parts, SlotsOwned, NoCall, NoSlot
  <2>2. ASSUME NEW v \in Threads, call'[v].op \in {"operate", "destroy"} \/ call'[v].step = "insert", NEW h \in Handles
        PROVE  m_sessions'[h] # call'[v].slot
    BY <1>0, <1>1, <1>5, <2>2 DEF Parts, SlotsOwned, Owns
  <2>3. ASSUME NEW v \in Threads, call'[v].op = "open", Initializing(v)'
        PROVE  \E h \in Handles : m_sessions'[h] = call'[v].slot
    <3>1. call'[v] = call[v] /\ Initializing(v)
      BY <1>5, <2>3 DEF Initializing
    <3> QED BY <1>0, <1>1, <2>3, <3>1 DEF Parts, SlotsOwned
  <2> QED BY <2>1, <2>2, <2>3 DEF SlotsOwned
<1>7. KeepsObjects
  BY <1>1, <1>2 DEF KeepsObjects, Referenced
<1>8. SlotsClean'
  <2>1. ASSUME NEW u \in Threads, call'[u].step = "insert" PROVE devs'[call'[u].slot] = {}
    BY <1>0, <1>1, <1>5, <2>1 DEF Parts, SlotsClean
  <2>2. ASSUME NEW u \in Threads, Initializing(u)' PROVE \A d \in devs'[call'[u].slot] : d < call'[u].dev
    <3>1. call'[u] = call[u] /\ Initializing(u)
      BY <1>5, <2>2 DEF Initializing
    <3> QED BY <1>0, <1>1, <3>1 DEF Parts, SlotsClean
  <2> QED BY <1>7, <2>1, <2>2, KeepsObjectsStep DEF SlotsClean
<1>9. MemoryCurrent'
  <2>1. \A u \in Threads : Builds(u)' => call'[u] = call[u] /\ Builds(u)
    BY <1>5 DEF Builds
  <2> QED BY <1>1, <2>1, MemoryStep
<1>10. SoleDiscovery'
  <2>1. \A u \in Threads : Initializing(u)' => Initializing(u)
    BY <1>5 DEF Initializing
  <2> QED BY <1>0, <1>1, <1>5, <2>1 DEF Parts, SoleDiscovery
<1>11. FreshLives'
  <2>1. \A x \in Slots : Referenced(x, m_sessions, call) => Referenced(x, m_sessions', call')
    BY <1>1, <1>2 DEF Referenced
  <2>2. \A u \in Threads : call'[u].step \in {"insert", "destroy"} => call'[u] = call[u]
    BY <1>2 DEF NoCall
  <2> QED BY <1>1, <1>4, <2>1, <2>2, KeepsFreshStep DEF KeepsFresh
<1> QED BY <1>11, <1>3, <1>4, <1>6, <1>7, <1>8, <1>9, <1>10, KeepsObjectsStep DEF IInv

(* SsiGet...Handles takes a reference to an open Session. *)
LEMMA ReadCallStep ==
  ASSUME IInv, NEW t \in Threads, ReadCall(t)
  PROVE  IInv'
<1> USE SlotsAssumption
<1>0. Parts
  BY DEF IInv, Parts
<1>1. PICK h \in Handles :
        /\ Opened(h)
        /\ call' = [call EXCEPT ![t] = [NoCall EXCEPT !.op = "read", !.step = "read", !.slot = m_sessions[h]]]
  BY DEF ReadCall
<1> DEFINE s == m_sessions[h]
           n == [NoCall EXCEPT !.op = "read", !.step = "read", !.slot = s]
<1>2. UNCHANGED <<ctx, hw, m_sessions, m_objects, devs, m_handle, mem, fresh, excused>> /\ call[t] = NoCall
  BY DEF ReadCall, maps, Idle
<1>3. s \in Slots /\ \A u \in Threads : Owns(u) => call[u].slot # s
  <2>1. s \in Slots
    BY <1>0, <1>1 DEF Opened, Parts, TypeOK
  <2> QED BY <1>0, <1>1, <2>1 DEF Opened, Parts, SlotsOwned, Owns
<1>4. n \in Calls /\ n.op = "read" /\ n.step = "read" /\ n.slot = s
  BY <1>3, NoCallType DEF Calls
<1> HIDE DEF n
<1>5. call'[t] = n /\ call' \in [Threads -> Calls] /\ \A u \in Threads : u # t => call'[u] = call[u]
  BY <1>0, <1>1, <1>4 DEF Parts, TypeOK, n
<1>6. TypeOK'
  BY <1>0, <1>2, <1>5 DEF Parts, TypeOK
<1>7. CallsWellFormed'
  BY <1>0, <1>3, <1>4, <1>5 DEF Parts, CallsWellFormed
<1>8. \A u \in Threads : Owns(u)' \/ Builds(u)' \/ Initializing(u)' \/ call'[u].step = "insert" \/ call'[u].step = "add"
                         => call'[u] = call[u] /\ u # t
  BY <1>4, <1>5 DEF Owns, Builds, Initializing
<1>9. SlotsOwned'
  <2>1. ASSUME NEW v \in Threads, NEW u \in Threads, v # u, Owns(v)' PROVE call'[u].slot # call'[v].slot
    <3>1. call'[v] = call[v] /\ Owns(v)
      BY <1>8, <2>1 DEF Owns
    <3> QED BY <1>0, <1>3, <1>4, <1>5, <2>1, <3>1 DEF Parts, SlotsOwned
  <2>2. ASSUME NEW v \in Threads, call'[v].op \in {"operate", "destroy"} \/ call'[v].step = "insert", NEW k \in Handles
        PROVE  m_sessions'[k] # call'[v].slot
    BY <1>0, <1>2, <1>8, <2>2 DEF Parts, SlotsOwned, Owns
  <2>3. ASSUME NEW v \in Threads, call'[v].op = "open", Initializing(v)'
        PROVE  \E k \in Handles : m_sessions'[k] = call'[v].slot
    <3>1. call'[v] = call[v] /\ Initializing(v)
      BY <1>8, <2>3 DEF Initializing
    <3> QED BY <1>0, <1>2, <2>3, <3>1 DEF Parts, SlotsOwned
  <2> QED BY <2>1, <2>2, <2>3 DEF SlotsOwned
<1>10. KeepsObjects
  BY <1>2, <1>5 DEF KeepsObjects, Referenced, NoCall, NoSlot
<1>11. SlotsClean'
  <2>1. ASSUME NEW u \in Threads, call'[u].step = "insert" PROVE devs'[call'[u].slot] = {}
    BY <1>0, <1>2, <1>8, <2>1 DEF Parts, SlotsClean
  <2>2. ASSUME NEW u \in Threads, Initializing(u)' PROVE \A d \in devs'[call'[u].slot] : d < call'[u].dev
    <3>1. call'[u] = call[u] /\ Initializing(u)
      BY <1>8, <2>2 DEF Initializing
    <3> QED BY <1>0, <1>2, <3>1 DEF Parts, SlotsClean
  <2> QED BY <1>10, <2>1, <2>2, KeepsObjectsStep DEF SlotsClean
<1>12. MemoryCurrent'
  <2>1. \A u \in Threads : Builds(u)' => call'[u] = call[u] /\ Builds(u)
    BY <1>8 DEF Builds
  <2> QED BY <1>2, <2>1, MemoryStep
<1>13. SoleDiscovery'
  <2>1. \A u \in Threads : Initializing(u)' => Initializing(u)
    BY <1>8 DEF Initializing
  <2> QED BY <1>0, <1>2, <1>8, <2>1 DEF Parts, SoleDiscovery
<1>14. FreshLives'
  <2>1. \A x \in Slots : Referenced(x, m_sessions, call) => Referenced(x, m_sessions', call')
    BY <1>2, <1>5 DEF Referenced, NoCall, NoSlot
  <2>2. \A u \in Threads : call'[u].step \in {"insert", "destroy"} => call'[u] = call[u]
    BY <1>4, <1>5
  <2> QED BY <1>2, <1>7, <2>1, <2>2, KeepsFreshStep DEF KeepsFresh
<1> QED BY <1>14, <1>6, <1>7, <1>9, <1>10, <1>11, <1>12, <1>13, KeepsObjectsStep DEF IInv

-----------------------------------------------------------------------------
(* The steps that let a Session go. *)

(* A call ends and its reference goes; Return is a part of three actions. *)
LEMMA ReturnStep ==
  ASSUME IInv, NEW t \in Threads, NEW sessions, Return(t, sessions),
         call[t].op \in {"open", "operate", "read"}, excused' = excused,
         sessions = m_sessions \/ (call[t].step = "discover" /\ sessions = Without(call[t].slot))
  PROVE  LetsGo(t, call[t].slot) /\ call[t].slot \in Slots
<1> USE SlotsAssumption
<1> DEFINE s == call[t].slot
<1>0. Parts
  BY DEF IInv, Parts
<1>1. s \in Slots
  BY <1>0 DEF Parts, CallsWellFormed
<1>2. m_sessions' = sessions /\ UNCHANGED <<m_objects, devs, m_handle, excused>>
  BY DEF Return
<1>3. Release(t, s, m_sessions', [call EXCEPT ![t] = NoCall])
  BY <1>2 DEF Return
<1>4. /\ m_sessions' \in [Handles -> Slots \cup {NoSlot}]
      /\ \A h \in Handles : m_sessions'[h] = m_sessions[h] \/ (m_sessions'[h] = NoSlot /\ m_sessions[h] = s)
  BY <1>0, <1>2 DEF Parts, TypeOK, Without
<1>5. \A u \in Threads : u # t /\ Builds(u) => call[u].slot # s
  BY <1>0 DEF Parts, SlotsOwned, Builds, Owns
<1> HIDE DEF s
<1> DEFINE calls == [call EXCEPT ![t] = NoCall]
<1>6. Release(t, s, m_sessions', calls) /\ calls = [call EXCEPT ![t] = NoCall] /\ call[t].slot \in {s, NoSlot}
  BY <1>3 DEF s
<1> HIDE DEF calls
<1>7. LetsGo(t, s)
  BY <1>1, <1>2, <1>4, <1>5, <1>6, ReleaseLetsGo
<1> QED BY <1>1, <1>7 DEF s

(* SsiSessionClose takes one entry and lets its Session go. *)
LEMMA CloseLetsGo ==
  ASSUME IInv, NEW t \in Threads, Close(t)
  PROVE  \E h \in Handles :
           /\ m_sessions[h] \in Slots /\ LetsGo(t, m_sessions[h])
           /\ \A u \in Threads : Owns(u) => call[u].slot # m_sessions[h]
           /\ mem' = IF mem.slot = m_sessions[h] THEN [mem EXCEPT !.slot = NoSlot] ELSE mem
<1> USE SlotsAssumption
<1>0. Parts
  BY DEF IInv, Parts
<1>1. PICK h \in Handles :
        /\ Opened(h)
        /\ m_sessions' = [m_sessions EXCEPT ![h] = NoSlot]
        /\ Release(t, m_sessions[h], [m_sessions EXCEPT ![h] = NoSlot], call)
        /\ mem' = IF mem.slot = m_sessions[h] THEN [mem EXCEPT !.slot = NoSlot] ELSE mem
  BY DEF Close
<1>2. UNCHANGED <<m_objects, devs, m_handle, excused>> /\ call[t] = NoCall
  BY DEF Close, Idle
<1> DEFINE s == m_sessions[h]
<1>3. s \in Slots
  BY <1>0, <1>1 DEF Opened, Parts, TypeOK
<1>4. \A u \in Threads : Owns(u) => call[u].slot # s
  BY <1>0, <1>1, <1>3 DEF Opened, Parts, SlotsOwned, Owns
<1>5. /\ m_sessions' \in [Handles -> Slots \cup {NoSlot}]
      /\ \A k \in Handles : m_sessions'[k] = m_sessions[k] \/ (m_sessions'[k] = NoSlot /\ m_sessions[k] = s)
  BY <1>0, <1>1 DEF Parts, TypeOK
<1>6. Release(t, s, m_sessions', call)
  BY <1>1
<1>7. call = [call EXCEPT ![t] = NoCall] /\ call[t].slot \in {s, NoSlot}
  BY <1>0, <1>2 DEF Parts, TypeOK, NoCall
<1>8. LetsGo(t, s)
  <2>1. \A u \in Threads : u # t /\ Builds(u) => call[u].slot # s
    BY <1>4 DEF Builds, Owns
  <2> HIDE DEF s
  <2> QED BY <1>2, <1>3, <1>5, <1>6, <1>7, <2>1, ReleaseLetsGo
<1> QED BY <1>1, <1>3, <1>4, <1>8

(* The memory of the consumer outlives every Session but its own. *)
LEMMA MemoryLetsGo ==
  ASSUME IInv, NEW t \in Threads, NEW s \in Slots, LetsGo(t, s), mem' = mem,
         s # mem.slot \/ m_sessions' = m_sessions
  PROVE  MemoryCurrent'
<1> SUFFICES ASSUME mem.slot # NoSlot PROVE MemoryCurrent'
  BY DEF MemoryCurrent
<1>1. /\ \E h \in Handles : m_sessions[h] = mem.slot
      /\ \A u \in Threads : Builds(u) => call[u].slot # mem.slot
      /\ mem.slot \in Slots /\ mem.dev \in devs[mem.slot]
      /\ m_handle[mem.slot][mem.dev] = mem.handle
  BY DEF IInv, MemoryCurrent
<1>2. \E h \in Handles : m_sessions'[h] = mem.slot
  BY <1>1 DEF LetsGo
<1>3. \A u \in Threads : Builds(u)' => u # t /\ call'[u] = call[u]
  BY DEF LetsGo, Builds, NoCall
<1>4. \A u \in Threads : Builds(u)' => call'[u].slot # mem.slot
  BY <1>1, <1>3 DEF Builds
<1> QED BY <1>1, <1>2, <1>4 DEF MemoryCurrent, LetsGo

(* What remains to be said of a step that lets a Session go. *)
LEMMA LetsGoIInv ==
  ASSUME IInv, NEW t \in Threads, NEW s \in Slots, LetsGo(t, s), UNCHANGED <<ctx, hw>>, MemoryCurrent',
         mem' \in [handle : Handles \cup {SSI_NULL_HANDLE}, dev : Devices \cup {0},
                   slot : Slots \cup {NoSlot}, again : BOOLEAN]
  PROVE  IInv'
<1>1. TypeOK'
  BY DEF IInv, TypeOK, LetsGo
<1> QED BY <1>1, LetsGoStep DEF IInv

(* A Session whose discovery failed is let go. *)
LEMMA ThrowsStep ==
  ASSUME IInv, NEW t \in Threads, InitializeThrows(t)
  PROVE  IInv'
<1> DEFINE s == call[t].slot
<1>0. Parts
  BY DEF IInv, Parts
<1>1. /\ Return(t, Without(s)) /\ call[t].step = "discover" /\ Builds(t)
      /\ UNCHANGED <<ctx, hw, mem, excused>>
  BY <1>0, Building DEF InitializeThrows, Parts
<1>2. LetsGo(t, s) /\ s \in Slots
  BY <1>1, ReturnStep DEF Builds
<1>3. mem.slot # s
  BY <1>0, <1>1, <1>2, SlotsAssumption DEF Parts, MemoryCurrent, NoSlot
<1>4. MemoryCurrent'
  BY <1>1, <1>2, <1>3, MemoryLetsGo
<1> QED BY <1>0, <1>1, <1>2, <1>4, LetsGoIInv DEF Parts, TypeOK

(* A temporary Session is let go. *)
LEMMA OperateStep ==
  ASSUME IInv, NEW t \in Threads, Operate(t)
  PROVE  IInv'
<1>1. Return(t, m_sessions) /\ call[t].op = "operate" /\ UNCHANGED <<ctx, hw, mem, excused>>
  BY DEF Operate
<1>2. LetsGo(t, call[t].slot) /\ call[t].slot \in Slots /\ m_sessions' = m_sessions
  BY <1>1, ReturnStep DEF Return
<1>3. MemoryCurrent'
  BY <1>1, <1>2, MemoryLetsGo
<1> QED BY <1>1, <1>2, <1>3, LetsGoIInv DEF IInv, TypeOK

(* What the consumer reads is registered under the handle it reads. *)
LEMMA ReadStep ==
  ASSUME IInv, NEW t \in Threads, Read(t)
  PROVE  IInv'
<1> USE SlotsAssumption
<1> DEFINE s == call[t].slot
           open == \E h \in Handles : m_sessions[h] = s
           note(d) == [handle |-> m_handle[s][d], dev |-> d,
                       slot |-> IF open THEN s ELSE NoSlot, again |-> fresh[s]]
<1>0. Parts
  BY DEF IInv, Parts
<1>1. /\ Return(t, m_sessions) /\ call[t].op = "read" /\ UNCHANGED <<ctx, hw, excused>>
      /\ mem' = mem \/ \E d \in devs[s] : mem' = note(d)
  BY <1>0 DEF Read, Parts, CallsWellFormed
<1>2. LetsGo(t, s) /\ s \in Slots /\ m_sessions' = m_sessions
  BY <1>1, ReturnStep DEF Return
<1>3. MemoryCurrent' /\ mem' \in [handle : Handles \cup {SSI_NULL_HANDLE}, dev : Devices \cup {0},
                                  slot : Slots \cup {NoSlot}, again : BOOLEAN]
  <2>1. CASE mem' = mem
    BY <1>0, <1>2, <2>1, MemoryLetsGo DEF Parts, TypeOK
  <2>2. CASE \E d \in devs[s] : mem' = note(d)
    <3>1. PICK d \in devs[s] : mem' = note(d)
      BY <2>2
    <3>2. d \in Devices /\ m_handle[s][d] \in Handles \cup {SSI_NULL_HANDLE} /\ fresh[s] \in BOOLEAN
      BY <1>0, <1>2 DEF Parts, TypeOK
    <3>3. mem' \in [handle : Handles \cup {SSI_NULL_HANDLE}, dev : Devices \cup {0},
                    slot : Slots \cup {NoSlot}, again : BOOLEAN]
      BY <1>2, <3>1, <3>2
    <3>4. devs' = devs /\ m_handle' = m_handle /\ \A u \in Threads : Builds(u)' => call'[u].slot # s
      BY <1>2 DEF LetsGo
    <3>5. MemoryCurrent'
      BY <1>2, <3>1, <3>4 DEF MemoryCurrent
    <3> QED BY <3>3, <3>5
  <2> QED BY <1>1, <2>1, <2>2
<1> QED BY <1>1, <1>2, <1>3, LetsGoIInv

(* A closed Session is let go; a handle of it is remembered as one. *)
LEMMA CloseStep ==
  ASSUME IInv, NEW t \in Threads, Close(t)
  PROVE  IInv'
<1>0. TypeOK
  BY DEF IInv
<1>1. PICK h \in Handles :
        /\ m_sessions[h] \in Slots /\ LetsGo(t, m_sessions[h])
        /\ mem' = IF mem.slot = m_sessions[h] THEN [mem EXCEPT !.slot = NoSlot] ELSE mem
  BY CloseLetsGo
<1>2. MemoryCurrent'
  <2>1. CASE mem.slot = m_sessions[h]
    BY <1>0, <1>1, <2>1 DEF MemoryCurrent, TypeOK
  <2>2. CASE mem.slot # m_sessions[h]
    BY <1>1, <2>2, MemoryLetsGo
  <2> QED BY <2>1, <2>2
<1>3. mem' \in [handle : Handles \cup {SSI_NULL_HANDLE}, dev : Devices \cup {0},
                slot : Slots \cup {NoSlot}, again : BOOLEAN]
  BY <1>0, <1>1 DEF TypeOK
<1>4. UNCHANGED <<ctx, hw>>
  BY DEF Close
<1> QED BY <1>1, <1>2, <1>3, <1>4, LetsGoIInv

-----------------------------------------------------------------------------
(* ~Session *)

(* What one step of ~Session changes: the one object, in its Session and    *)
(* under its handle.                                                        *)
Destroys(t, s, d) ==
  /\ d \in devs[s]
  /\ call[t].step = "destroy" /\ call[t].op = "destroy" /\ call[t].slot = s
  /\ \A u \in Threads : u # t => call[u].slot # s
  /\ (\A h \in Handles : m_sessions[h] # s) /\ ~fresh[s]
  /\ UNCHANGED <<ctx, hw, m_sessions, mem, fresh, excused>>
  /\ m_objects' \in [Handles -> Objects \cup {Orphan, NoObject}]
  /\ \A h \in Handles : m_objects'[h] = IF h = m_handle[s][d] THEN NoObject ELSE m_objects[h]
  /\ m_handle' \in [Slots -> [Devices -> Handles \cup {SSI_NULL_HANDLE}]]
  /\ m_handle'[s][d] = SSI_NULL_HANDLE
  /\ \A x \in Slots, e \in Devices : x # s \/ e # d => m_handle'[x][e] = m_handle[x][e]
  /\ \A x \in Slots : x # s => m_handle'[x] = m_handle[x]
  /\ devs' = [devs EXCEPT ![s] = @ \ {d}]
  /\ call' \in [Threads -> Calls] /\ \A u \in Threads : u # t => call'[u] = call[u]
  /\ \/ call'[t] = NoCall /\ devs'[s] = {}
     \/ call'[t] = call[t] /\ devs'[s] # {}

LEMMA DestroyOne ==
  ASSUME IInv, NEW t \in Threads, Destroy(t)
  PROVE  \E s \in Slots, d \in Devices : Destroys(t, s, d)
<1> USE SlotsAssumption
<1> DEFINE s == call[t].slot
           d == First(s)
           h == m_handle[s][d]
<1>0. Parts
  BY DEF IInv, Parts
<1>1. call[t].step = "destroy" /\ call[t].op = "destroy" /\ s \in Slots
  BY <1>0 DEF Destroy, Parts, CallsWellFormed
<1>2. /\ \A u \in Threads : u # t => call[u].slot # s
      /\ \A k \in Handles : m_sessions[k] # s
      /\ ~fresh[s] /\ devs[s] # {}
  BY <1>0, <1>1 DEF Parts, SlotsOwned, FreshLives, Owns
<1>3. d \in devs[s] /\ d \in Devices
  BY <1>0, <1>1, <1>2, FirstOwn DEF Parts
<1>4. h \in Handles => m_objects[h] = [slot |-> s, dev |-> d]
  <2>1. h \in Handles => h # SSI_NULL_HANDLE
    BY DEF Handles, SSI_NULL_HANDLE
  <2> QED BY <1>0, <1>1, <1>3, <2>1 DEF Parts, HandlesUnique
<1>5. /\ m_objects' = [x \in Handles |-> IF x = h THEN NoObject ELSE m_objects[x]]
      /\ m_handle' = [x \in Slots |-> [e \in Devices |->
           IF \/ x = s /\ e = d
              \/ h \in Handles /\ m_objects[h] = [slot |-> x, dev |-> e]
           THEN SSI_NULL_HANDLE ELSE m_handle[x][e]]]
      /\ devs' = [devs EXCEPT ![s] = devs[s] \ {d}]
      /\ call' = IF devs[s] \ {d} = {} THEN [call EXCEPT ![t] = NoCall] ELSE call
      /\ UNCHANGED <<ctx, hw, m_sessions, mem, fresh, excused>>
  BY DEF Destroy, Remove
<1> HIDE DEF s, d, h
<1>6. /\ m_objects' \in [Handles -> Objects \cup {Orphan, NoObject}]
      /\ \A k \in Handles : m_objects'[k] = IF k = h THEN NoObject ELSE m_objects[k]
  BY <1>0, <1>5 DEF Parts, TypeOK
<1>7. \A x \in Slots, e \in Devices :
        m_handle'[x][e] = IF x = s /\ e = d THEN SSI_NULL_HANDLE ELSE m_handle[x][e]
  <2> SUFFICES ASSUME NEW x \in Slots, NEW e \in Devices
               PROVE  m_handle'[x][e] = IF x = s /\ e = d THEN SSI_NULL_HANDLE ELSE m_handle[x][e]
    OBVIOUS
  <2>1. h \in Handles /\ m_objects[h] = [slot |-> x, dev |-> e] => x = s /\ e = d
    BY <1>4
  <2>2. m_handle'[x][e] = IF \/ x = s /\ e = d
                             \/ h \in Handles /\ m_objects[h] = [slot |-> x, dev |-> e]
                          THEN SSI_NULL_HANDLE ELSE m_handle[x][e]
    BY <1>5
  <2> QED BY <2>1, <2>2
<1>8. m_handle \in [Slots -> [Devices -> Handles \cup {SSI_NULL_HANDLE}]]
  BY <1>0 DEF Parts, TypeOK
<1>9. m_handle' \in [Slots -> [Devices -> Handles \cup {SSI_NULL_HANDLE}]]
  <2>1. \A x \in Slots, e \in Devices : m_handle'[x][e] \in Handles \cup {SSI_NULL_HANDLE}
    BY <1>7, <1>8
  <2>2. m_handle' = [x \in Slots |-> [e \in Devices |-> m_handle'[x][e]]]
    BY <1>5
  <2> QED BY <2>1, <2>2
<1>10. ASSUME NEW x \in Slots, x # s PROVE m_handle'[x] = m_handle[x]
  <2>1. m_handle'[x] \in [Devices -> Handles \cup {SSI_NULL_HANDLE}] /\ m_handle[x] \in [Devices -> Handles \cup {SSI_NULL_HANDLE}]
    BY <1>8, <1>9
  <2> QED BY <1>7, <1>10, <2>1
<1>11. devs'[s] = devs[s] \ {d}
  BY <1>0, <1>1, <1>5 DEF Parts, TypeOK
<1>12. /\ call' \in [Threads -> Calls] /\ \A u \in Threads : u # t => call'[u] = call[u]
       /\ \/ call'[t] = NoCall /\ devs'[s] = {}
          \/ call'[t] = call[t] /\ devs'[s] # {}
  BY <1>0, <1>5, <1>11, NoCallType DEF Parts, TypeOK
<1>13. call[t].slot = s /\ h = m_handle[s][d]
  BY DEF s, h
<1>14. Destroys(t, s, d)
  <2>1. \A k \in Handles : m_objects'[k] = IF k = m_handle[s][d] THEN NoObject ELSE m_objects[k]
    BY <1>6, <1>13
  <2>2. /\ m_handle'[s][d] = SSI_NULL_HANDLE
        /\ \A x \in Slots, e \in Devices : x # s \/ e # d => m_handle'[x][e] = m_handle[x][e]
    BY <1>1, <1>3, <1>7
  <2>3. devs' = [devs EXCEPT ![s] = @ \ {d}]
    BY <1>5
  <2>4. UNCHANGED <<ctx, hw, m_sessions, mem, fresh, excused>>
    BY <1>5
  <2> QED BY <1>1, <1>2, <1>3, <1>6, <1>9, <1>10, <1>12, <1>13, <2>1, <2>2, <2>3, <2>4 DEF Destroys
<1> QED BY <1>1, <1>3, <1>14

(* An object that goes takes its handle with it, and nothing else. *)
LEMMA DestroyStep ==
  ASSUME IInv, NEW t \in Threads, Destroy(t)
  PROVE  IInv'
<1> USE SlotsAssumption
<1>0. Parts
  BY DEF IInv, Parts
<1>1. PICK s \in Slots, d \in Devices : Destroys(t, s, d)
  BY DestroyOne
<1>2. d \in devs[s] /\ m_handle[s][d] \in Handles \cup {SSI_NULL_HANDLE}
  BY <1>0, <1>1 DEF Destroys, Parts, TypeOK
<1>3. /\ devs' \in [Slots -> SUBSET Devices] /\ devs'[s] = devs[s] \ {d}
      /\ \A x \in Slots : x # s => devs'[x] = devs[x]
      /\ \A x \in Slots : devs'[x] \subseteq devs[x]
  BY <1>0, <1>1 DEF Destroys, Parts, TypeOK
<1>4. /\ call[t].step = "destroy" /\ call[t].op = "destroy" /\ call[t].slot = s
      /\ \A u \in Threads : u # t => call'[u] = call[u] /\ call[u].slot # s
      /\ \A h \in Handles : m_sessions[h] # s
      /\ UNCHANGED <<ctx, hw, m_sessions, mem, fresh, excused>> /\ ~fresh[s]
      /\ \/ call'[t] = NoCall /\ devs'[s] = {}
         \/ call'[t] = call[t] /\ devs'[s] # {}
  BY <1>1 DEF Destroys
<1>5. \A x \in Slots : \A e \in devs'[x] : (x # s \/ e # d) /\ m_handle'[x][e] = m_handle[x][e] /\ e \in devs[x] /\ e \in Devices
  BY <1>1, <1>3 DEF Destroys
<1>6. TypeOK'
  BY <1>0, <1>1, <1>3 DEF Destroys, Parts, TypeOK
<1>7. CallsWellFormed'
  BY <1>0, <1>4 DEF Parts, CallsWellFormed, NoCall
<1>8. \A u \in Threads : /\ Builds(u)' \/ Initializing(u)' \/ call'[u].step \in {"insert", "add"} => u # t /\ call'[u] = call[u]
                         /\ Owns(u)' => call'[u] = call[u]
  BY <1>4 DEF Builds, Owns, Initializing, NoCall
<1>9. SlotsOwned'
  <2>1. ASSUME NEW v \in Threads, NEW u \in Threads, v # u, Owns(v)' PROVE call'[u].slot # call'[v].slot
    <3>1. call'[v] = call[v] /\ Owns(v) /\ call[v].slot \in Slots
      BY <1>0, <1>8, <2>1 DEF Owns, Parts, CallsWellFormed
    <3> QED BY <1>0, <1>4, <2>1, <3>1 DEF Parts, SlotsOwned, NoCall, NoSlot
  <2>2. ASSUME NEW v \in Threads, call'[v].op \in {"operate", "destroy"} \/ call'[v].step = "insert", NEW h \in Handles
        PROVE  m_sessions'[h] # call'[v].slot
    <3>1. call'[v] = call[v]
      BY <1>4, <2>2 DEF NoCall
    <3> QED BY <1>0, <1>4, <2>2, <3>1 DEF Parts, SlotsOwned
  <2>3. ASSUME NEW v \in Threads, call'[v].op = "open", Initializing(v)'
        PROVE  \E h \in Handles : m_sessions'[h] = call'[v].slot
    <3>1. call'[v] = call[v] /\ Initializing(v)
      BY <1>8, <2>3 DEF Initializing
    <3> QED BY <1>0, <1>4, <2>3, <3>1 DEF Parts, SlotsOwned
  <2> QED BY <2>1, <2>2, <2>3 DEF SlotsOwned
<1>10. \A x \in Slots : x # s /\ Referenced(x, m_sessions, call) => Referenced(x, m_sessions', call')
  BY <1>4 DEF Referenced
<1>11. \A x \in Slots : Referenced(x, m_sessions', call') => Referenced(x, m_sessions, call)
  BY <1>4 DEF Referenced, NoCall, NoSlot
<1>12. SlotsClean'
  <2>1. ASSUME NEW x \in Slots, NEW e \in Devices, e \notin devs'[x] PROVE m_handle'[x][e] = SSI_NULL_HANDLE
    <3>1. CASE x = s /\ e = d
      BY <1>1, <3>1 DEF Destroys
    <3>2. CASE x # s \/ e # d
      <4>1. m_handle'[x][e] = m_handle[x][e]
        BY <1>1, <3>2 DEF Destroys
      <4>2. e \notin devs[x]
        BY <1>3, <2>1, <3>2
      <4> QED BY <1>0, <4>1, <4>2 DEF Parts, SlotsClean
    <3> QED BY <3>1, <3>2
  <2>2. ASSUME NEW x \in Slots, ~Referenced(x, m_sessions', call') PROVE devs'[x] = {}
    <3>1. CASE x = s
      BY <1>4, <2>2, <3>1 DEF Referenced
    <3>2. CASE x # s
      BY <1>0, <1>3, <1>10, <2>2, <3>2 DEF Parts, SlotsClean
    <3> QED BY <3>1, <3>2
  <2>3. ASSUME NEW u \in Threads, call'[u].step = "insert" PROVE devs'[call'[u].slot] = {}
    <3>1. u # t /\ call'[u] = call[u] /\ call[u].slot # s
      BY <1>4, <1>8, <2>3
    <3>2. call[u].slot \in Slots
      BY <1>0, <2>3, <3>1, Building DEF Parts
    <3> QED BY <1>0, <1>3, <2>3, <3>1, <3>2 DEF Parts, SlotsClean
  <2>4. ASSUME NEW u \in Threads, Initializing(u)' PROVE \A e \in devs'[call'[u].slot] : e < call'[u].dev
    <3>1. u # t /\ call'[u] = call[u] /\ call[u].slot # s /\ Initializing(u)
      BY <1>4, <1>8, <2>4 DEF Initializing
    <3>2. call[u].slot \in Slots
      BY <1>0, <3>1, Building DEF Parts, Initializing
    <3> QED BY <1>0, <1>3, <3>1, <3>2 DEF Parts, SlotsClean
  <2> QED BY <2>1, <2>2, <2>3, <2>4 DEF SlotsClean
<1>13. FreshLives'
  <2>1. ASSUME NEW u \in Threads, call'[u].step \in {"insert", "destroy"}
        PROVE  \/ call'[u].step = call[u].step /\ call'[u].slot = call[u].slot /\ devs'[call[u].slot] = devs[call[u].slot]
               \/ ~fresh'[call'[u].slot] /\ (call'[u].step = "destroy" => devs'[call'[u].slot] # {})
    <3>1. CASE u = t
      BY <1>4, <2>1, <3>1 DEF NoCall
    <3>2. CASE u # t
      <4>1. call'[u] = call[u] /\ call[u].slot # s /\ call[u].slot \in Slots
        BY <1>0, <1>4, <2>1, <3>2 DEF Parts, CallsWellFormed, NoCall
      <4> QED BY <1>3, <4>1
    <3> QED BY <3>1, <3>2
  <2> QED BY <1>4, <1>7, <1>10, <2>1, KeepsFreshStep DEF KeepsFresh
<1>14. HandlesUnique'
  <2> SUFFICES ASSUME NEW x \in Slots, NEW e \in devs'[x], m_handle'[x][e] # SSI_NULL_HANDLE
               PROVE  m_objects'[m_handle'[x][e]] = [slot |-> x, dev |-> e]
    BY DEF HandlesUnique
  <2>1. /\ x # s \/ e # d
        /\ m_handle'[x][e] = m_handle[x][e] /\ e \in devs[x] /\ m_handle[x][e] \in Handles
    BY <1>0, <1>5 DEF Parts, TypeOK
  <2>2. m_objects[m_handle[x][e]] = [slot |-> x, dev |-> e]
    BY <1>0, <2>1 DEF Parts, HandlesUnique
  <2>3. m_handle[s][d] # SSI_NULL_HANDLE => m_objects[m_handle[s][d]] = [slot |-> s, dev |-> d]
    BY <1>0, <1>2 DEF Parts, HandlesUnique
  <2>4. m_handle[x][e] # m_handle[s][d]
    BY <2>1, <2>2, <2>3
  <2> QED BY <1>1, <2>1, <2>2, <2>4 DEF Destroys
<1>15. NoStaleObject'
  <2> SUFFICES ASSUME NEW h \in Handles, m_objects'[h] # NoObject
               PROVE  \/ m_objects'[h] = Orphan /\ excused'
                      \/ /\ m_objects'[h] # Orphan
                         /\ m_objects'[h].dev \in devs'[m_objects'[h].slot]
                         /\ m_handle'[m_objects'[h].slot][m_objects'[h].dev] = h
                         /\ Referenced(m_objects'[h].slot, m_sessions', call')
    BY DEF NoStaleObject
  <2>1. m_objects'[h] = m_objects[h] /\ h # m_handle[s][d]
    BY <1>1 DEF Destroys
  <2>2. CASE m_objects[h] = Orphan
    BY <1>0, <1>4, <2>1, <2>2 DEF Parts, NoStaleObject
  <2>3. CASE m_objects[h] # Orphan
    <3> DEFINE x == m_objects[h].slot
               e == m_objects[h].dev
    <3>1. x \in Slots /\ e \in Devices
      BY <1>0, <2>1, <2>3 DEF Parts, TypeOK, Objects
    <3>2. e \in devs[x] /\ m_handle[x][e] = h /\ Referenced(x, m_sessions, call)
      BY <1>0, <2>1, <2>3 DEF Parts, NoStaleObject
    <3> HIDE DEF x, e
    <3>3. x # s \/ e # d
      BY <2>1, <3>2
    <3>4. m_handle'[x][e] = h /\ e \in devs'[x]
      BY <1>1, <1>3, <3>1, <3>2, <3>3 DEF Destroys
    <3>5. Referenced(x, m_sessions', call')
      <4>1. CASE x = s
        <5>1. call'[t].slot = s
          BY <1>4, <3>4, <4>1
        <5> QED BY <4>1, <5>1 DEF Referenced
      <4>2. CASE x # s
        BY <1>10, <3>1, <3>2, <4>2
      <4> QED BY <4>1, <4>2
    <3> QED BY <2>1, <2>3, <3>4, <3>5 DEF x, e
  <2> QED BY <2>2, <2>3
<1>16. MemoryCurrent'
  <2> SUFFICES ASSUME NEW x \in Slots, \E h \in Handles : m_sessions[h] = x,
                      \A u \in Threads : Builds(u) => call[u].slot # x
               PROVE  /\ \A u \in Threads : Builds(u)' => call'[u].slot # x
                      /\ devs'[x] = devs[x] /\ m_handle'[x] = m_handle[x]
    BY <1>4, MemoryStep
  <2>1. x # s
    BY <1>4
  <2>2. \A u \in Threads : Builds(u)' => call'[u] = call[u] /\ Builds(u)
    BY <1>8 DEF Builds
  <2> QED BY <1>1, <1>3, <2>1, <2>2 DEF Destroys
<1>17. SoleDiscovery'
  <2>1. \A u \in Threads : Initializing(u)' => Initializing(u)
    BY <1>8 DEF Initializing
  <2>2. ASSUME ~excused, NEW u \in Threads, call'[u].step = "add" PROVE Inserts(call'[u].unique, m_objects', NoObject)
    <3>1. call'[u] = call[u] /\ Inserts(call[u].unique, m_objects, NoObject)
      BY <1>0, <1>8, <2>2 DEF Parts, SoleDiscovery
    <3>2. call[u].unique \in Handles
      BY <1>0, <3>1 DEF Parts, TypeOK, Calls, Inserts
    <3> QED BY <1>1, <3>1, <3>2 DEF Destroys, Inserts
  <2> QED BY <1>0, <1>4, <2>1, <2>2 DEF Parts, SoleDiscovery
<1>18. HandlesAssigned'
  BY <1>0, <1>4, <1>5 DEF Parts, HandlesAssigned
<1> QED BY <1>6, <1>7, <1>9, <1>12, <1>13, <1>14, <1>15, <1>16, <1>17, <1>18 DEF IInv

-----------------------------------------------------------------------------
(* The theorems. *)

(* The invariant holds when the process starts. *)
LEMMA InitIInv == Init => IInv
<1> USE SlotsAssumption
<1> SUFFICES ASSUME Init PROVE IInv
  OBVIOUS
<1>1. TypeOK
  BY NoCallType DEF Init, TypeOK, NoMem, NoSlot, SSI_NULL_HANDLE
<1>2. CallsWellFormed /\ SlotsOwned
  BY DEF Init, CallsWellFormed, SlotsOwned, NoCall, Owns, Initializing
<1>3. SlotsClean /\ FreshLives /\ HandlesUnique /\ NoStaleObject /\ HandlesAssigned
  BY DEF Init, SlotsClean, FreshLives, HandlesUnique, NoStaleObject, HandlesAssigned, NoCall, Initializing
<1>4. MemoryCurrent /\ SoleDiscovery
  BY DEF Init, MemoryCurrent, SoleDiscovery, NoMem, NoCall, Initializing
<1> QED BY <1>1, <1>2, <1>3, <1>4 DEF IInv

(* Every step keeps the invariant. *)
LEMMA NextIInv == IInv /\ [Next]_vars => IInv'
<1> SUFFICES ASSUME IInv, [Next]_vars PROVE IInv'
  OBVIOUS
<1>1. CASE Next
  BY <1>1, SystemStep, OpenCallStep, OpenInsertStep, OperateCallStep, DiscoverStep, AddStep,
     ThrowsStep, OpenReturnsStep, OperateStep, ReadCallStep, ReadStep, CloseStep, DestroyStep DEF Next
<1>2. CASE UNCHANGED vars
  <2>1. TypeOK' /\ CallsWellFormed' /\ SlotsOwned' /\ MemoryCurrent' /\ SoleDiscovery'
    BY <1>2 DEF IInv, vars, maps, TypeOK, CallsWellFormed, SlotsOwned, MemoryCurrent, SoleDiscovery, Builds, Owns, Initializing
  <2>2. SlotsClean' /\ FreshLives' /\ HandlesUnique' /\ NoStaleObject' /\ HandlesAssigned'
    BY <1>2 DEF IInv, vars, maps, SlotsClean, FreshLives, HandlesUnique, NoStaleObject, HandlesAssigned, Initializing, Referenced
  <2> QED BY <2>1, <2>2 DEF IInv
<1> QED BY <1>1, <1>2

(* The inductive invariant of SessionHandles. *)
THEOREM Invariance == Spec => []IInv
BY InitIInv, NextIInv, PTL DEF Spec

(* Every variable keeps its type; in particular the handle computed is      *)
(* always one an SSI_Handle can hold.                                       *)
THEOREM TypeCorrect == Spec => []TypeOK
<1>1. IInv => TypeOK
  BY DEF IInv
<1> QED BY <1>1, Invariance, PTL

(* No two live objects share a handle, whatever the threads do. *)
THEOREM HandlesStayUnique == Spec => []HandlesUnique
<1>1. IInv => HandlesUnique
  BY DEF IInv
<1> QED BY <1>1, Invariance, PTL

(* No object stays registered after its Session. *)
THEOREM NoObjectLeaks == Spec => []NoStaleObject
<1>1. IInv => NoStaleObject
  BY DEF IInv
<1> QED BY <1>1, Invariance, PTL

(* Discoveries that do not overlap give every device a handle. *)
THEOREM SoleDiscoveryAssigns == Spec => []HandlesAssigned
<1>1. IInv => HandlesAssigned
  BY DEF IInv
<1> QED BY <1>1, Invariance, PTL

(* SsiSessionOpen.3 says that a handle is valid across all sessions.  In    *)
(* the code it never is: while the session it came from stays open, the     *)
(* handle is taken by the object of that session, so no object of a         *)
(* temporary session has it, and every operation with it is refused.        *)
OpenHandleRefused ==
  \A t \in Threads :
    LooksUp(t) /\ mem.slot # NoSlot /\ mem.handle # SSI_NULL_HANDLE => Found(call[t].slot, mem.handle) = {}

THEOREM OpenHandlesAreRefused == Spec => []OpenHandleRefused
<1>1. IInv => OpenHandleRefused
  <2> SUFFICES ASSUME IInv, NEW t \in Threads, LooksUp(t), mem.slot # NoSlot, mem.handle # SSI_NULL_HANDLE,
                      NEW d \in Found(call[t].slot, mem.handle)
               PROVE  FALSE
    BY DEF OpenHandleRefused
  <2>1. /\ mem.slot \in Slots /\ mem.dev \in devs[mem.slot]
        /\ m_handle[mem.slot][mem.dev] = mem.handle
        /\ \A u \in Threads : Builds(u) => call[u].slot # mem.slot
    BY DEF IInv, MemoryCurrent
  <2>2. Builds(t) /\ call[t].slot \in Slots /\ call[t].slot # mem.slot
    BY <2>1 DEF LooksUp, Builds, IInv, CallsWellFormed
  <2>3. d \in devs[call[t].slot] /\ m_handle[call[t].slot][d] = mem.handle
    BY DEF Found
  <2>4. m_objects[mem.handle] = [slot |-> mem.slot, dev |-> mem.dev]
    BY <2>1 DEF IInv, HandlesUnique
  <2>5. m_objects[mem.handle] = [slot |-> call[t].slot, dev |-> d]
    BY <2>2, <2>3 DEF IInv, HandlesUnique
  <2> QED BY <2>2, <2>4, <2>5
<1> QED BY <1>1, Invariance, PTL

(* An open session is a snapshot. *)
THEOREM SessionsAreSnapshots == Spec => SnapshotStable
<1> DEFINE Stable == \A s \in Slots : Settled(s) => devs'[s] = devs[s] /\ m_handle'[s] = m_handle[s]
<1>1. IInv /\ [Next]_vars => [Stable]_vars
  <2> SUFFICES ASSUME IInv, Next, NEW s \in Slots, Settled(s)
               PROVE  devs'[s] = devs[s] /\ m_handle'[s] = m_handle[s]
    OBVIOUS
  <2>0. TypeOK /\ CallsWellFormed /\ SlotsOwned
    BY DEF IInv
  <2>1. ASSUME NEW t \in Threads, Owns(t) PROVE call[t].slot # s
    <3>1. CASE \E h \in Handles : Opened(h) /\ m_sessions[h] = s
      BY <2>0, <2>1, <3>1 DEF Opened, SlotsOwned, Owns
    <3>2. CASE \E u \in Threads : call[u].op = "read" /\ call[u].slot = s
      BY <2>0, <2>1, <3>2 DEF SlotsOwned, Owns
    <3> QED BY <3>1, <3>2 DEF Settled
  <2>2. ASSUME NEW t \in Threads, Add(t) PROVE devs'[s] = devs[s] /\ m_handle'[s] = m_handle[s]
    <3>1. call[t].slot # s /\ call[t].slot \in Slots
      BY <2>0, <2>1, <2>2, Building DEF Add, Builds, Owns
    <3> QED BY <2>0, <2>2, <3>1 DEF Add, TypeOK
  <2>3. ASSUME NEW t \in Threads, Destroy(t) PROVE devs'[s] = devs[s] /\ m_handle'[s] = m_handle[s]
    <3>1. PICK x \in Slots, d \in Devices : Destroys(t, x, d)
      BY <2>3, DestroyOne
    <3>2. x # s
      BY <2>1, <3>1 DEF Destroys, Owns
    <3> QED BY <2>0, <3>1, <3>2 DEF Destroys, TypeOK
  <2>4. CASE SsiInitialize \/ SsiFinalize \/ Hotplug
    BY <2>4 DEF SsiInitialize, SsiFinalize, Hotplug, maps
  <2>5. ASSUME NEW t \in Threads,
               \/ OpenCall(t) \/ OpenInsert(t) \/ OperateCall(t) \/ Discover(t) \/ OpenReturns(t) \/ ReadCall(t)
               \/ InitializeThrows(t) \/ Operate(t) \/ Read(t) \/ Close(t)
        PROVE  UNCHANGED <<devs, m_handle>>
    BY <2>5 DEF OpenCall, OpenInsert, OperateCall, Discover, OpenReturns, ReadCall, InitializeThrows, Operate,
       Read, Close, Return, maps
  <2> QED BY <2>2, <2>3, <2>4, <2>5 DEF Next
<1> QED BY <1>1, Invariance, PTL DEF Spec, SnapshotStable

-----------------------------------------------------------------------------
(* Two discoveries number alike *)

(* The place of a device among those in the system *)
Rank(d) == Cardinality({e \in hw : e <= d})
Before(d) == {e \in hw : e < d}

Numbered(s) == \A d \in devs[s] : m_handle[s][d] = Rank(d)
Complete(s) == (\A t \in Threads : Initializing(t) => call[t].slot # s) => devs[s] = hw

(* A discovery that has begun with no handle in use has what comes before   *)
(* its next device, and only that has handles.                              *)
Ordered(t) ==
  /\ devs[call[t].slot] = Before(call[t].dev)
  /\ Keys(m_objects, NoObject) = 1 .. Cardinality(devs[call[t].slot])
  /\ \A h \in Handles : m_objects[h] # NoObject => m_objects[h].slot = call[t].slot
  /\ call[t].step = "add" =>
       call[t].dev \in hw /\ call[t].unique = Cardinality(devs[call[t].slot]) + 1

FreshOnes ==
  /\ \A s \in Slots : fresh[s] => Numbered(s) /\ Complete(s)
  /\ \A t \in Threads : Initializing(t) /\ fresh[call[t].slot] => Ordered(t)

Remembered == mem.again => mem.dev \in hw /\ mem.handle = Rank(mem.dev)

Alike == ~excused => FreshOnes /\ Remembered

LEMMA HwFinite ==
  ASSUME TypeOK, NEW S, S \subseteq hw
  PROVE  IsFiniteSet(S) /\ Cardinality(S) \in Nat
<1>1. IsFiniteSet(Devices)
  BY NumDevicesAssumption, FS_Interval DEF Devices
<1>2. S \subseteq Devices
  BY DEF TypeOK
<1> QED BY <1>1, <1>2, FS_Subset, FS_CardinalityType

(* A device comes one after those before it, ... *)
LEMMA RankNext ==
  ASSUME TypeOK, NEW d \in hw
  PROVE  Rank(d) = Cardinality(Before(d)) + 1
<1>1. d \in Nat /\ \A e \in hw : e \in Nat
  BY NumDevicesAssumption DEF TypeOK, Devices
<1>a. (\A e \in hw : e <= d <=> e < d \/ e = d) /\ ~(d < d)
  BY <1>1
<1>b. {e \in hw : e <= d} = {e \in hw : e < d} \cup {d}
  BY <1>a, Zenon
<1>2. {e \in hw : e <= d} = Before(d) \cup {d} /\ d \notin Before(d)
  BY <1>a, <1>b DEF Before
<1>3. IsFiniteSet(Before(d))
  BY HwFinite DEF Before
<1> QED BY <1>2, <1>3, FS_AddElement DEF Rank

(* ... and no two come at the same place. *)
LEMMA RankInjective ==
  ASSUME TypeOK, NEW d \in hw, NEW e \in hw, Rank(d) = Rank(e)
  PROVE  d = e
<1>1. \A z \in hw : z \in Nat
  BY NumDevicesAssumption DEF TypeOK, Devices
<1>2. ASSUME NEW x \in hw, NEW y \in hw, x < y, Rank(x) = Rank(y) PROVE FALSE
  <2> DEFINE X == {z \in hw : z <= x}
             Y == {z \in hw : z <= y}
  <2>0. \A z \in hw : z <= x => z <= y
    BY <1>1, <1>2
  <2>a. y <= y /\ ~(y <= x)
    BY <1>1, <1>2
  <2>1. X \subseteq Y /\ y \in Y /\ y \notin X
    BY <2>0, <2>a
  <2>2. IsFiniteSet(Y)
    BY HwFinite
  <2>3. Cardinality(Y) = Cardinality(X)
    BY <1>2 DEF Rank
  <2> HIDE DEF X, Y
  <2>4. Y = X
    BY <2>1, <2>2, <2>3, FS_Subset
  <2> QED BY <2>1, <2>4
<1> QED BY <1>1, <1>2

(* The handles being the first ones, the next is one more, or none is left. *)
LEMMA NextHandle ==
  ASSUME NEW n \in Nat, NEW keys, keys \subseteq Handles, keys = 1 .. n
  PROVE  getUniqueHandle(keys) \in {n + 1, SSI_NULL_HANDLE}
<1> USE MaxHandleAssumption
<1>1. CASE MaxHandle \in keys
  BY <1>1 DEF getUniqueHandle
<1>2. CASE MaxHandle \notin keys
  <2>1. n < MaxHandle
    BY <1>2
  <2>2. n \in keys \cup {0} /\ \A k \in keys : k < n + 1
    OBVIOUS
  <2>3. n + 1 \in Handles
    BY <2>1 DEF Handles
  <2>4. \A h \in Handles : h - 1 \in keys \cup {0} /\ (\A k \in keys : k < h) => h = n + 1
    <3> SUFFICES ASSUME NEW h \in Handles, h - 1 \in keys \cup {0}, \A k \in keys : k < h PROVE h = n + 1
      OBVIOUS
    <3>1. h \in Nat /\ h <= n + 1
      BY DEF Handles
    <3>2. n = 0 \/ n \in keys
      OBVIOUS
    <3> QED BY <3>1, <3>2 DEF Handles
  <2>5. \E h \in Handles : h - 1 \in keys \cup {0} /\ \A k \in keys : k < h
    BY <2>2, <2>3
  <2> DEFINE u == CHOOSE h \in Handles : h - 1 \in keys \cup {0} /\ \A k \in keys : k < h
  <2>6. u \in Handles /\ u - 1 \in keys \cup {0} /\ \A k \in keys : k < u
    BY <2>5, Zenon
  <2>7. getUniqueHandle(keys) = u
    BY <1>2 DEF getUniqueHandle
  <2> QED BY <2>4, <2>6, <2>7
<1> QED BY <1>1, <1>2

(* A discovery that is done has found what is in the system. *)
LEMMA AllFound ==
  ASSUME TypeOK, FreshOnes, NEW t \in Threads, Discovered(t), fresh[call[t].slot]
  PROVE  devs[call[t].slot] = hw
<1>1. devs[call[t].slot] = Before(NumDevices + 1)
  BY DEF FreshOnes, Ordered, Discovered, Initializing
<1>2. \A e \in hw : e \in Nat /\ e < NumDevices + 1
  BY NumDevicesAssumption DEF TypeOK, Devices
<1> QED BY <1>1, <1>2 DEF Before

(* A step that leaves the objects and the discoveries alone. *)
LEMMA SameDiscoveries ==
  ASSUME FreshOnes, UNCHANGED <<hw, maps, fresh>>,
         \A u \in Threads : Initializing(u)' <=> Initializing(u),
         \A u \in Threads : Initializing(u) => call'[u] = call[u]
  PROVE  FreshOnes'
<1>1. ASSUME NEW s \in Slots, fresh[s] PROVE Numbered(s)' /\ Complete(s)'
  BY <1>1 DEF FreshOnes, Numbered, Complete, Rank, maps
<1>2. ASSUME NEW t \in Threads, Initializing(t)', fresh[call'[t].slot] PROVE Ordered(t)'
  <2>1. Initializing(t) /\ call'[t] = call[t]
    BY <1>2
  <2>2. Ordered(t)
    BY <1>2, <2>1 DEF FreshOnes
  <2> QED BY <2>1, <2>2 DEF Ordered, Before, Keys, maps
<1> QED BY <1>1, <1>2 DEF FreshOnes

(* A discovery that begins alone, with no handle in use, is ordered.        *)
LEMMA BeginAlike ==
  ASSUME IInv, FreshOnes, NEW t \in Threads, NEW s \in Slots, NEW c \in Calls,
         Begin(t, s, c), c.slot = s, ~excused', devs[s] = {}, ~Initializing(t),
         UNCHANGED <<hw, m_objects, devs, m_handle>>
  PROVE  FreshOnes'
<1> DEFINE n == [c EXCEPT !.step = "discover", !.dev = 1]
<1>0. TypeOK
  BY DEF IInv
<1>1. \A u \in Threads : ~Initializing(u)
  BY DEF Begin
<1>2. call' = [call EXCEPT ![t] = n]
  BY DEF Begin
<1>a. n.step = "discover" /\ n.dev = 1 /\ n.slot = s
  BY DEF Calls
<1> HIDE DEF n
<1>3. call'[t] = n /\ \A u \in Threads : u # t => call'[u] = call[u]
  BY <1>0, <1>2 DEF TypeOK
<1>4. \A u \in Threads : Initializing(u)' <=> u = t
  BY <1>1, <1>3, <1>a DEF Initializing
<1>5. /\ fresh'[s] => Keys(m_objects, NoObject) = {}
      /\ \A x \in Slots : x # s /\ fresh'[x] => fresh[x]
  BY DEF Begin
<1>6. ASSUME NEW x \in Slots, fresh'[x] PROVE Numbered(x)' /\ Complete(x)'
  <2>1. CASE x = s
    BY <1>3, <1>4, <1>a, <2>1 DEF Numbered, Complete
  <2>2. CASE x # s
    <3>1. Numbered(x) /\ devs[x] = hw
      BY <1>1, <1>5, <1>6, <2>2 DEF FreshOnes, Complete
    <3> QED BY <3>1 DEF Numbered, Complete, Rank
  <2> QED BY <2>1, <2>2
<1>7. ASSUME NEW u \in Threads, Initializing(u)', fresh'[call'[u].slot] PROVE Ordered(u)'
  <2>1. u = t /\ call'[u] = n /\ Keys(m_objects, NoObject) = {}
    BY <1>3, <1>4, <1>5, <1>7, <1>a
  <2>2. \A e \in hw : e \in Nat /\ ~(e < 1)
    BY <1>0, NumDevicesAssumption DEF TypeOK, Devices
  <2>3. {e \in hw : e < 1} = {}
    BY <2>2
  <2>4. devs'[s] = {} /\ hw' = hw /\ m_objects' = m_objects
    OBVIOUS
  <2>5. 1 .. Cardinality(devs'[s]) = {}
    BY <2>4, FS_EmptySet
  <2> QED BY <1>a, <2>1, <2>3, <2>4, <2>5 DEF Ordered, Before, Keys
<1> QED BY <1>6, <1>7 DEF FreshOnes

LEMMA DiscoverAlike ==
  ASSUME IInv, FreshOnes, NEW t \in Threads, Discover(t), ~excused'
  PROVE  FreshOnes'
<1> DEFINE c == call[t]
           unique == getUniqueHandle(Keys(m_objects, NoObject))
           n == IF c.dev \in hw THEN [c EXCEPT !.step = "add", !.unique = unique]
                ELSE [c EXCEPT !.dev = c.dev + 1]
<1>0. TypeOK /\ c \in Calls /\ c.step = "discover" /\ c.dev \in Devices
  BY DEF IInv, TypeOK, Discover
<1>1. call' = [call EXCEPT ![t] = n] /\ UNCHANGED <<hw, maps, fresh>>
  BY DEF Discover
<1>2. n.slot = c.slot /\ n.step \in {"discover", "add"}
  BY <1>0 DEF Calls
<1>3. /\ c.dev \in hw => n.step = "add" /\ n.dev = c.dev /\ n.unique = unique /\ unique # SSI_NULL_HANDLE
      /\ c.dev \notin hw => n.step = "discover" /\ n.dev = c.dev + 1
  BY <1>0 DEF Discover, Calls
<1> HIDE DEF n
<1>4. call'[t] = n /\ \A u \in Threads : u # t => call'[u] = call[u]
  BY <1>0, <1>1 DEF TypeOK
<1>5. \A u \in Threads : (Initializing(u)' <=> Initializing(u)) /\ call'[u].slot = call[u].slot
  BY <1>0, <1>2, <1>4 DEF Initializing
<1>6. ASSUME NEW s \in Slots, fresh'[s] PROVE Numbered(s)' /\ Complete(s)'
  BY <1>1, <1>5, <1>6 DEF FreshOnes, Numbered, Complete, Rank, maps
<1>7. ASSUME NEW u \in Threads, Initializing(u)', fresh'[call'[u].slot] PROVE Ordered(u)'
  <2>1. Ordered(u)
    BY <1>1, <1>5, <1>7 DEF FreshOnes
  <2>2. CASE u # t
    <3>1. call'[u] = call[u] /\ UNCHANGED <<hw, m_objects, devs>>
      BY <1>1, <1>4, <2>2 DEF maps
    <3> HIDE DEF c, unique
    <3> QED BY <2>1, <3>1 DEF Ordered, Before, Keys
  <2>3. CASE u = t
    <3> DEFINE k == Cardinality(devs[c.slot])
    <3>1. devs[c.slot] = Before(c.dev) /\ Keys(m_objects, NoObject) = 1 .. k
      BY <2>1, <2>3 DEF Ordered
    <3>2. k \in Nat
      BY <1>0, <3>1, HwFinite DEF Before
    <3>3. c.dev \in hw => unique = k + 1
      BY <1>3, <3>1, <3>2, NextHandle DEF Keys
    <3>4. Before(n.dev) = Before(c.dev)
      <4>1. \A e \in hw : e \in Nat
        BY <1>0, NumDevicesAssumption DEF TypeOK, Devices
      <4>2. c.dev \notin hw => \A e \in hw : e < c.dev + 1 <=> e < c.dev
        BY <1>0, <4>1 DEF Devices
      <4> QED BY <1>3, <4>2 DEF Before
    <3>5. \A h \in Handles : m_objects[h] # NoObject => m_objects[h].slot = c.slot
      BY <2>1, <2>3 DEF Ordered
    <3> HIDE DEF c, k, unique
    <3>6. /\ devs[n.slot] = Before(n.dev) /\ Keys(m_objects, NoObject) = 1 .. Cardinality(devs[n.slot])
          /\ \A h \in Handles : m_objects[h] # NoObject => m_objects[h].slot = n.slot
          /\ n.step = "add" => n.dev \in hw /\ n.unique = Cardinality(devs[n.slot]) + 1
      BY <1>2, <1>3, <3>1, <3>3, <3>4, <3>5 DEF k
    <3> QED BY <1>1, <1>4, <2>3, <3>6 DEF Ordered, Before, Keys, maps
  <2> QED BY <2>2, <2>3
<1> QED BY <1>6, <1>7 DEF FreshOnes

LEMMA AddAlike ==
  ASSUME IInv, FreshOnes, NEW t \in Threads, Add(t), ~excused, ~excused'
  PROVE  FreshOnes'
<1> USE SlotsAssumption
<1> DEFINE c == call[t]
           s == c.slot
           o == [slot |-> s, dev |-> c.dev]
           n == [c EXCEPT !.step = "discover", !.dev = c.dev + 1, !.unique = SSI_NULL_HANDLE]
<1>0. TypeOK /\ CallsWellFormed /\ SoleDiscovery
  BY DEF IInv
<1>1. c \in Calls /\ c.step = "add" /\ c.dev \in Devices /\ s \in Slots /\ Initializing(t)
  BY <1>0, Building DEF Add, TypeOK, CallsWellFormed, Initializing
<1>2. /\ Inserts(c.unique, m_objects, NoObject)
      /\ c.unique \in Handles /\ m_objects[c.unique] = NoObject
  BY <1>0, <1>1 DEF SoleDiscovery, Inserts, Calls
<1>3. /\ UNCHANGED <<hw, fresh>>
      /\ call' = [call EXCEPT ![t] = n]
      /\ devs' = [devs EXCEPT ![s] = @ \cup {c.dev}]
      /\ m_objects' = [m_objects EXCEPT ![c.unique] = o]
      /\ m_handle' = [m_handle EXCEPT ![s][c.dev] = c.unique]
  <2>1. PICK registered \in {Inserts(c.unique, m_objects, NoObject), FALSE}, listed \in BOOLEAN :
          /\ m_objects' = IF ~registered THEN m_objects
                          ELSE [m_objects EXCEPT ![c.unique] = IF listed THEN o ELSE Orphan]
          /\ m_handle' = IF registered /\ listed
                         THEN [m_handle EXCEPT ![s][c.dev] = c.unique] ELSE m_handle
          /\ devs' = IF listed THEN [devs EXCEPT ![s] = @ \cup {c.dev}] ELSE devs
          /\ excused' = (excused \/ ~listed \/ registered # Inserts(c.unique, m_objects, NoObject))
    BY DEF Add
  <2>2. registered /\ listed
    BY <1>2, <2>1 DEF Inserts
  <2>3. UNCHANGED <<hw, fresh>> /\ call' = [call EXCEPT ![t] = n]
    BY DEF Add
  <2> QED BY <2>1, <2>2, <2>3
<1>4. n.slot = s /\ n.step = "discover" /\ n.dev = c.dev + 1
  BY <1>1 DEF Calls
<1> HIDE DEF n
<1>5. call'[t] = n /\ \A u \in Threads : u # t => call'[u] = call[u]
  BY <1>0, <1>3 DEF TypeOK
<1>6. \A u \in Threads : (Initializing(u)' <=> Initializing(u)) /\ call'[u].slot = call[u].slot
  BY <1>1, <1>4, <1>5 DEF Initializing
<1>7. \A u \in Threads : Initializing(u) => u = t
  BY <1>0, <1>1 DEF SoleDiscovery
<1>8. /\ devs'[s] = devs[s] \cup {c.dev} /\ \A x \in Slots : x # s => devs'[x] = devs[x]
      /\ m_handle'[s][c.dev] = c.unique
      /\ \A d \in Devices : d # c.dev => m_handle'[s][d] = m_handle[s][d]
      /\ \A x \in Slots : x # s => m_handle'[x] = m_handle[x]
  BY <1>0, <1>1, <1>3 DEF TypeOK
<1>9. /\ m_objects'[c.unique] = o /\ o # NoObject /\ o.slot = s
      /\ \A h \in Handles : h # c.unique => m_objects'[h] = m_objects[h]
  BY <1>0, <1>1, <1>2, <1>3 DEF TypeOK, NoObject, NoSlot
<1>10. ASSUME NEW x \in Slots, x # s, fresh'[x] PROVE Numbered(x)' /\ Complete(x)'
  <2>1. devs'[x] = devs[x] /\ m_handle'[x] = m_handle[x] /\ Numbered(x) /\ Complete(x)
    BY <1>3, <1>8, <1>10 DEF FreshOnes
  <2>2. Numbered(x)'
    BY <1>3, <2>1 DEF Numbered, Rank
  <2>3. Complete(x)'
    BY <1>3, <1>6, <2>1 DEF Complete
  <2> QED BY <2>2, <2>3
<1>11. ASSUME NEW x \in Slots, x = s, fresh'[x] PROVE Numbered(x)' /\ Complete(x)' /\ Ordered(t)'
  <2> DEFINE k == Cardinality(devs[s])
  <2>1. /\ devs[s] = Before(c.dev) /\ Keys(m_objects, NoObject) = 1 .. k
        /\ \A h \in Handles : m_objects[h] # NoObject => m_objects[h].slot = s
        /\ c.dev \in hw /\ c.unique = k + 1
    BY <1>1, <1>3, <1>11 DEF FreshOnes, Ordered
  <2>2. IsFiniteSet(devs[s]) /\ k \in Nat
    BY <1>0, <2>1, HwFinite DEF Before
  <2>3. c.dev \in Nat /\ (\A e \in hw : e \in Nat) /\ c.dev \notin devs[s]
    BY <1>0, <1>1, <2>1, NumDevicesAssumption DEF TypeOK, Devices, Before
  <2>4. Cardinality(devs'[s]) = k + 1
    <3>1. Cardinality(devs[s] \cup {c.dev}) = k + 1
      BY <2>2, <2>3, FS_AddElement
    <3> QED BY <1>8, <3>1
  <2>5. Rank(c.dev) = c.unique
    BY <1>0, <2>1, RankNext
  <2>6. \A d \in devs[s] : d \in Devices /\ m_handle[s][d] = Rank(d)
    BY <1>0, <1>1, <1>3, <1>11 DEF FreshOnes, Numbered, TypeOK
  <2>7. \A d \in devs'[s] : m_handle'[s][d] = Rank(d)
    BY <1>8, <2>3, <2>5, <2>6
  <2>8. Numbered(x)'
    BY <1>3, <1>11, <2>7 DEF Numbered, Rank
  <2>9. Complete(x)'
    BY <1>1, <1>6, <1>11 DEF Complete
  <2>10. devs'[s] = Before(n.dev)
    <3>1. \A e \in hw : e < c.dev + 1 <=> e < c.dev \/ e = c.dev
      BY <2>3
    <3>2. {e \in hw : e < c.dev + 1} = {e \in hw : e < c.dev} \cup {c.dev}
      BY <2>1, <3>1, Zenon
    <3> QED BY <1>4, <1>8, <2>1, <3>2 DEF Before
  <2>11. {h \in Handles : m_objects'[h] # NoObject} = 1 .. k + 1
    <3>1. \A h \in Handles : m_objects'[h] # NoObject <=> h = k + 1 \/ m_objects[h] # NoObject
      BY <1>9, <2>1
    <3>2. {h \in Handles : m_objects'[h] # NoObject} = {h \in Handles : m_objects[h] # NoObject} \cup {k + 1}
      BY <1>2, <2>1, <3>1
    <3>3. 1 .. k + 1 = (1 .. k) \cup {k + 1}
      BY <2>2
    <3> QED BY <2>1, <3>2, <3>3 DEF Keys
  <2>12. \A h \in Handles : m_objects'[h] # NoObject => m_objects'[h].slot = s
    BY <1>9, <2>1
  <2> HIDE DEF k
  <2>13. Ordered(t)'
    BY <1>3, <1>4, <1>5, <2>4, <2>10, <2>11, <2>12 DEF Ordered, Before, Keys
  <2> QED BY <2>8, <2>9, <2>13
<1>12. \A x \in Slots : fresh'[x] => Numbered(x)' /\ Complete(x)'
  BY <1>10, <1>11
<1>13. \A u \in Threads : Initializing(u)' /\ fresh'[call'[u].slot] => Ordered(u)'
  BY <1>1, <1>6, <1>7, <1>11
<1> QED BY <1>12, <1>13 DEF FreshOnes

(* A Session that is let go loses nothing, and one that goes is not fresh. *)
LEMMA LetsGoAlike ==
  ASSUME IInv, FreshOnes, NEW t \in Threads, NEW s \in Slots, LetsGo(t, s), hw' = hw,
         fresh'[s] => devs[s] = hw
  PROVE  FreshOnes'
<1> USE SlotsAssumption
<1>1. UNCHANGED <<hw, m_objects, devs, m_handle>> /\ \A x \in Slots : fresh'[x] => fresh[x]
  BY DEF LetsGo
<1>2. \A u \in Threads : Initializing(u)' => Initializing(u) /\ call'[u] = call[u]
  BY DEF LetsGo, Initializing, NoCall
<1>3. \A u \in Threads : call[u].slot \in Slots \ {s} => call'[u] = call[u]
  BY DEF LetsGo, NoSlot
<1>4. ASSUME NEW x \in Slots, fresh'[x] PROVE Numbered(x)' /\ Complete(x)'
  <2>1. Numbered(x)'
    BY <1>1, <1>4 DEF FreshOnes, Numbered, Rank
  <2>2. CASE x = s
    BY <1>1, <1>4, <2>1, <2>2 DEF Complete
  <2>3. CASE x # s
    <3>1. ASSUME \A u \in Threads : Initializing(u)' => call'[u].slot # x
          PROVE  \A u \in Threads : Initializing(u) => call[u].slot # x
      BY <1>3, <2>3, <3>1 DEF Initializing
    <3> QED BY <1>1, <1>4, <2>1, <3>1 DEF FreshOnes, Complete
  <2> QED BY <2>2, <2>3
<1>5. ASSUME NEW u \in Threads, Initializing(u)', fresh'[call'[u].slot] PROVE Ordered(u)'
  <2>1. Initializing(u) /\ call'[u] = call[u]
    BY <1>2, <1>5
  <2>2. call[u].slot \in Slots
    BY <2>1, Building DEF IInv, Initializing
  <2>3. Ordered(u)
    BY <1>1, <1>5, <2>1, <2>2 DEF FreshOnes
  <2> QED BY <1>1, <2>1, <2>3 DEF Ordered, Before, Keys
<1> QED BY <1>4, <1>5 DEF FreshOnes

(* A Session that is destroyed has nothing in common with a fresh one, and  *)
(* while a discovery numbers from 1 it has no handle to give back.          *)
LEMMA DestroyAlike ==
  ASSUME IInv, FreshOnes, NEW t \in Threads, Destroy(t)
  PROVE  FreshOnes'
<1>0. TypeOK /\ HandlesUnique
  BY DEF IInv
<1>1. PICK s \in Slots, d \in Devices : Destroys(t, s, d)
  BY DestroyOne
<1>2. /\ UNCHANGED <<hw, fresh>> /\ ~fresh[s] /\ call[t].step = "destroy"
      /\ \A u \in Threads : u # t => call'[u] = call[u]
      /\ call'[t].step \in {"idle", "destroy"}
      /\ \A x \in Slots : x # s => devs'[x] = devs[x] /\ m_handle'[x] = m_handle[x]
  BY <1>0, <1>1 DEF Destroys, TypeOK, NoCall
<1>3. \A u \in Threads : (Initializing(u)' <=> Initializing(u)) /\ (Initializing(u) => call'[u] = call[u])
  BY <1>2 DEF Initializing
<1>4. ASSUME NEW x \in Slots, fresh'[x] PROVE Numbered(x)' /\ Complete(x)'
  <2>1. x # s /\ fresh[x] /\ Numbered(x) /\ Complete(x)
    BY <1>2, <1>4 DEF FreshOnes
  <2>2. Numbered(x)'
    BY <1>2, <2>1 DEF Numbered, Rank
  <2>3. Complete(x)'
    BY <1>2, <1>3, <2>1 DEF Complete
  <2> QED BY <2>2, <2>3
<1>5. ASSUME NEW u \in Threads, Initializing(u)', fresh'[call'[u].slot] PROVE Ordered(u)'
  <2> DEFINE x == call[u].slot
  <2>1. Initializing(u) /\ call'[u] = call[u] /\ fresh[x] /\ x # s
    BY <1>2, <1>3, <1>5
  <2>2. x \in Slots
    BY <2>1, Building DEF IInv, Initializing
  <2>3. Ordered(u)
    BY <2>1 DEF FreshOnes
  <2>4. m_handle[s][d] \notin Handles
    <3>1. ASSUME m_handle[s][d] \in Handles PROVE FALSE
      <4>1. m_handle[s][d] # SSI_NULL_HANDLE
        BY <3>1 DEF Handles, SSI_NULL_HANDLE
      <4>2. m_objects[m_handle[s][d]] = [slot |-> s, dev |-> d]
        BY <1>0, <1>1, <4>1 DEF HandlesUnique, Destroys
      <4>3. [slot |-> s, dev |-> d] # NoObject
        BY SlotsAssumption DEF NoObject, NoSlot
      <4> QED BY <2>1, <2>3, <3>1, <4>2, <4>3 DEF Ordered
    <3> QED BY <3>1
  <2>5. \A h \in Handles : m_objects'[h] = m_objects[h]
    BY <1>1, <2>4 DEF Destroys
  <2>6. devs'[x] = devs[x]
    BY <1>2, <2>1, <2>2
  <2>7. Keys(m_objects, NoObject)' = Keys(m_objects, NoObject)
    BY <2>5 DEF Keys
  <2>8. Before(call[u].dev)' = Before(call[u].dev)
    BY <1>2, <2>1 DEF Before
  <2> HIDE DEF x
  <2>9. call[u].slot = x
    BY DEF x
  <2> QED BY <1>2, <2>1, <2>3, <2>5, <2>6, <2>7, <2>8, <2>9 DEF Ordered
<1> QED BY <1>4, <1>5 DEF FreshOnes

(* A Session that a call reads is not under construction any more.          *)
LEMMA ReadIsComplete ==
  ASSUME IInv, FreshOnes, NEW t \in Threads, call[t].op = "read", fresh[call[t].slot], call[t].slot \in Slots
  PROVE  devs[call[t].slot] = hw
<1>1. ASSUME NEW u \in Threads, Initializing(u) PROVE call[u].slot # call[t].slot
  <2>1. Builds(u)
    BY <1>1, Building DEF IInv, Initializing
  <2>2. u # t
    BY <2>1 DEF Builds
  <2> QED BY <2>1, <2>2 DEF IInv, SlotsOwned, Builds, Owns
<1> QED BY <1>1 DEF FreshOnes, Complete

LEMMA AlikeInit == Init => Alike
BY DEF Init, Alike, FreshOnes, Remembered, NoCall, Initializing, NoMem

(* Calls that begin *)
LEMMA BeginsAlike ==
  ASSUME IInv, FreshOnes, NEW t \in Threads, OpenInsert(t) \/ OperateCall(t), ~excused'
  PROVE  FreshOnes'
<1>0. TypeOK /\ CallsWellFormed /\ SlotsClean
  BY DEF IInv
<1>1. CASE OperateCall(t)
  <2> DEFINE c(s) == [NoCall EXCEPT !.op = "operate", !.slot = s]
  <2>1. PICK s \in Slots : FreeSlot(s) /\ Begin(t, s, c(s))
    BY <1>1 DEF OperateCall
  <2>2. c(s) \in Calls /\ c(s).slot = s
    BY NoCallType DEF Calls
  <2>3. devs[s] = {}
    <3>1. ~Referenced(s, m_sessions, call)
      BY <2>1 DEF FreeSlot
    <3>2. \A x \in Slots : ~Referenced(x, m_sessions, call) => devs[x] = {}
      BY <1>0 DEF SlotsClean
    <3> QED BY <3>1, <3>2
  <2>0. ~Initializing(t)
    <3>1. call[t] = NoCall
      BY <1>1 DEF OperateCall, Idle
    <3>2. call[t].step = "idle"
      BY <3>1 DEF NoCall
    <3> QED BY <3>2 DEF Initializing
  <2>4. UNCHANGED <<hw, m_objects, devs, m_handle>>
    BY <1>1 DEF OperateCall, maps
  <2> HIDE DEF c
  <2> QED BY <2>0, <2>1, <2>2, <2>3, <2>4, BeginAlike
<1>2. CASE OpenInsert(t)
  <2> DEFINE c == call[t]
  <2>1. c \in Calls /\ c.step = "insert" /\ c.slot \in Slots /\ devs[c.slot] = {} /\ ~Initializing(t)
    BY <1>0, <1>2, Building DEF OpenInsert, TypeOK, SlotsClean, Initializing
  <2>a. UNCHANGED <<hw, m_objects, devs, m_handle>>
    BY <1>2 DEF OpenInsert
  <2>2. CASE Begin(t, c.slot, c)
    BY <2>1, <2>2, <2>a, BeginAlike
  <2>3. CASE call' = [call EXCEPT ![t] = NoCall] /\ UNCHANGED <<m_sessions, fresh, excused>>
    <3>1. call' = [call EXCEPT ![t] = NoCall] /\ UNCHANGED <<hw, maps, fresh>>
      BY <2>a, <2>3 DEF maps
    <3>2. call'[t] = NoCall /\ \A u \in Threads : u # t => call'[u] = call[u]
      BY <1>0, <3>1 DEF TypeOK
    <3>3. \A u \in Threads : (Initializing(u)' <=> Initializing(u)) /\ (Initializing(u) => call'[u] = call[u])
      BY <2>1, <3>2 DEF Initializing, NoCall
    <3> QED BY <3>1, <3>3, SameDiscoveries
  <2> QED BY <1>2, <2>2, <2>3 DEF OpenInsert
<1> QED BY <1>1, <1>2

(* Calls that only enter or leave the table of calls *)
LEMMA QuietAlike ==
  ASSUME IInv, FreshOnes, NEW t \in Threads, OpenCall(t) \/ ReadCall(t)
  PROVE  FreshOnes'
<1>1. UNCHANGED <<hw, maps, fresh>> /\ Idle(t)
  BY DEF OpenCall, ReadCall
<1>2. \A u \in Threads : u # t => call'[u] = call[u]
  BY DEF OpenCall, ReadCall, IInv, TypeOK
<1>3. call'[t].step \in {"insert", "read"}
  <2>0. call \in [Threads -> Calls]
    BY DEF IInv, TypeOK
  <2>1. CASE OpenCall(t)
    BY <2>0, <2>1 DEF OpenCall, NoCall
  <2>2. CASE ReadCall(t)
    BY <2>0, <2>2 DEF ReadCall, NoCall
  <2> QED BY <2>1, <2>2
<1>4. \A u \in Threads : (Initializing(u)' <=> Initializing(u)) /\ (Initializing(u) => call'[u] = call[u])
  BY <1>1, <1>2, <1>3 DEF Initializing, Idle, NoCall
<1> QED BY <1>1, <1>4, SameDiscoveries

LEMMA OpenReturnsAlike ==
  ASSUME IInv, FreshOnes, NEW t \in Threads, OpenReturns(t)
  PROVE  FreshOnes'
<1>0. TypeOK
  BY DEF IInv
<1>1. call' = [call EXCEPT ![t] = NoCall] /\ UNCHANGED <<hw, maps, fresh>> /\ Discovered(t) /\ Initializing(t)
  BY DEF OpenReturns, Discovered, Initializing
<1>2. call'[t] = NoCall /\ \A u \in Threads : u # t => call'[u] = call[u]
  BY <1>0, <1>1 DEF TypeOK
<1>3. \A u \in Threads : Initializing(u)' <=> Initializing(u) /\ u # t
  BY <1>2 DEF Initializing, NoCall
<1>4. ASSUME NEW s \in Slots, fresh'[s] PROVE Numbered(s)' /\ Complete(s)'
  <2>1. UNCHANGED <<hw, m_handle, devs>> /\ fresh[s] /\ Numbered(s) /\ Complete(s)
    BY <1>1, <1>4 DEF maps, FreshOnes
  <2>2. Numbered(s)'
    BY <2>1 DEF Numbered, Rank
  <2>3. Complete(s)'
    <3>1. CASE call[t].slot = s
      <4>1. devs[s] = hw
        BY <1>0, <1>1, <2>1, <3>1, AllFound
      <4> QED BY <2>1, <4>1 DEF Complete
    <3>2. CASE call[t].slot # s
      BY <1>2, <1>3, <2>1, <3>2 DEF Complete
    <3> QED BY <3>1, <3>2
  <2> QED BY <2>2, <2>3
<1>5. ASSUME NEW u \in Threads, Initializing(u)', fresh'[call'[u].slot] PROVE Ordered(u)'
  <2>1. Initializing(u) /\ call'[u] = call[u] /\ UNCHANGED <<hw, m_objects, devs>>
    BY <1>1, <1>2, <1>3, <1>5 DEF maps
  <2>2. Ordered(u)
    BY <1>1, <1>5, <2>1 DEF FreshOnes
  <2> QED BY <2>1, <2>2 DEF Ordered, Before, Keys
<1> QED BY <1>4, <1>5 DEF FreshOnes

(* Calls that end and let their Session go, and SsiSessionClose *)
LEMMA EndsAlike ==
  ASSUME IInv, FreshOnes, NEW t \in Threads, InitializeThrows(t) \/ Operate(t) \/ Read(t) \/ Close(t)
  PROVE  FreshOnes'
<1> USE SlotsAssumption
<1> DEFINE s == call[t].slot
<1>0. TypeOK /\ CallsWellFormed /\ SlotsOwned
  BY DEF IInv
<1>1. CASE InitializeThrows(t)
  <2>1. Return(t, Without(s)) /\ call[t].step = "discover" /\ Builds(t) /\ hw' = hw /\ excused' = excused
    BY <1>0, <1>1, Building DEF InitializeThrows
  <2>2. LetsGo(t, s) /\ s \in Slots
    BY <2>1, ReturnStep DEF Builds
  <2>3. \A h \in Handles : m_sessions'[h] # s
    BY <2>1, <2>2 DEF Return, Without, NoSlot
  <2>4. \A u \in Threads : u # t => call'[u].slot # s
    BY <1>0, <2>1, <2>2 DEF SlotsOwned, LetsGo, Builds, Owns
  <2>5. ~fresh'[s]
    BY <2>2, <2>3, <2>4 DEF LetsGo, Referenced, NoCall, NoSlot
  <2> QED BY <2>1, <2>2, <2>5, LetsGoAlike
<1>2. CASE Operate(t)
  <2>1. Return(t, m_sessions) /\ call[t].op = "operate" /\ Discovered(t) /\ hw' = hw /\ excused' = excused
    BY <1>2 DEF Operate
  <2>2. LetsGo(t, s) /\ s \in Slots
    BY <2>1, ReturnStep
  <2>3. fresh[s] => devs[s] = hw
    BY <1>0, <2>1, AllFound
  <2> QED BY <2>1, <2>2, <2>3, LetsGoAlike DEF LetsGo
<1>3. CASE Read(t)
  <2>1. Return(t, m_sessions) /\ call[t].op = "read" /\ hw' = hw /\ excused' = excused
    BY <1>0, <1>3 DEF Read, CallsWellFormed
  <2>2. LetsGo(t, s) /\ s \in Slots
    BY <2>1, ReturnStep
  <2>3. fresh[s] => devs[s] = hw
    BY <2>1, <2>2, ReadIsComplete
  <2> QED BY <2>1, <2>2, <2>3, LetsGoAlike DEF LetsGo
<1>4. CASE Close(t)
  <2>1. PICK h \in Handles :
          /\ m_sessions[h] \in Slots /\ LetsGo(t, m_sessions[h])
          /\ \A u \in Threads : Owns(u) => call[u].slot # m_sessions[h]
    BY <1>4, CloseLetsGo
  <2> DEFINE x == m_sessions[h]
  <2>2. \A u \in Threads : Initializing(u) => call[u].slot # x
    BY <1>0, <2>1, Building DEF Initializing, Builds, Owns
  <2>3. fresh[x] => devs[x] = hw
    BY <2>1, <2>2 DEF FreshOnes, Complete
  <2>4. hw' = hw
    BY <1>4 DEF Close
  <2> QED BY <2>1, <2>3, <2>4, LetsGoAlike DEF LetsGo
<1> QED BY <1>1, <1>2, <1>3, <1>4

(* Only SsiFinalize makes what was excused good again. *)
LEMMA ExcusedStays ==
  ASSUME [Next]_vars, ~SsiFinalize, ~excused'
  PROVE  ~excused
<1>1. CASE UNCHANGED vars
  BY <1>1 DEF vars
<1>2. CASE SsiInitialize \/ Hotplug
  BY <1>2 DEF SsiInitialize, Hotplug
<1>3. ASSUME NEW t \in Threads, OpenInsert(t) \/ OperateCall(t) \/ Discover(t) \/ Add(t) PROVE ~excused
  BY <1>3 DEF OpenInsert, OperateCall, Discover, Add, Begin
<1>4. ASSUME NEW t \in Threads,
             \/ OpenCall(t) \/ InitializeThrows(t) \/ OpenReturns(t) \/ Operate(t) \/ ReadCall(t)
             \/ Read(t) \/ Close(t) \/ Destroy(t)
      PROVE  ~excused
  BY <1>4 DEF OpenCall, InitializeThrows, OpenReturns, Operate, ReadCall, Read, Close, Destroy
<1> QED BY <1>1, <1>2, <1>3, <1>4 DEF Next

LEMMA FreshStep ==
  ASSUME IInv, Alike, [Next]_vars, ~excused'
  PROVE  FreshOnes'
<1>0. TypeOK
  BY DEF IInv
<1>a. CASE SsiFinalize
  <2>1. fresh' = fresh /\ call' = call /\ \A t \in Threads : call[t] = NoCall
    BY <1>a DEF SsiFinalize, Idle
  <2>2. \A h \in Handles : m_sessions[h] = NoSlot
    BY <1>a DEF SsiFinalize, Keys
  <2>3. \A s \in Slots : ~fresh'[s]
    BY <2>1, <2>2, SlotsAssumption DEF IInv, FreshLives, Referenced, NoCall, NoSlot
  <2> QED BY <2>1, <2>3 DEF FreshOnes, Initializing, NoCall
<1>b. SUFFICES ASSUME ~SsiFinalize PROVE FreshOnes'
  BY <1>a
<1>1. ~excused
  BY <1>b, ExcusedStays
<1>2. FreshOnes
  BY <1>1 DEF Alike
<1>3. CASE SsiInitialize \/ UNCHANGED vars
  <2>1. UNCHANGED <<hw, maps, call, fresh>>
    BY <1>3 DEF SsiInitialize, vars
  <2>2. \A u \in Threads : (Initializing(u)' <=> Initializing(u)) /\ call'[u] = call[u]
    BY <2>1 DEF Initializing
  <2> QED BY <1>2, <2>1, <2>2, SameDiscoveries
<1>4. CASE Hotplug
  <2>1. fresh' = [s \in Slots |-> FALSE] /\ call' = call
    BY <1>4 DEF Hotplug
  <2>2. \A t \in Threads : Initializing(t) => call[t].slot \in Slots
    BY <1>0, Building DEF IInv, Initializing
  <2> QED BY <2>1, <2>2 DEF FreshOnes, Initializing
<1>5. ASSUME NEW t \in Threads, Discover(t) PROVE FreshOnes'
  BY <1>2, <1>5, DiscoverAlike
<1>6. ASSUME NEW t \in Threads, Add(t) PROVE FreshOnes'
  BY <1>1, <1>2, <1>6, AddAlike
<1>7. ASSUME NEW t \in Threads, OpenInsert(t) \/ OperateCall(t) PROVE FreshOnes'
  BY <1>2, <1>7, BeginsAlike
<1>8. ASSUME NEW t \in Threads, OpenCall(t) \/ ReadCall(t) PROVE FreshOnes'
  BY <1>2, <1>8, QuietAlike
<1>9. ASSUME NEW t \in Threads, OpenReturns(t) PROVE FreshOnes'
  BY <1>2, <1>9, OpenReturnsAlike
<1>10. ASSUME NEW t \in Threads, InitializeThrows(t) \/ Operate(t) \/ Read(t) \/ Close(t) PROVE FreshOnes'
  BY <1>2, <1>10, EndsAlike
<1>11. ASSUME NEW t \in Threads, Destroy(t) PROVE FreshOnes'
  BY <1>2, <1>11, DestroyAlike
<1> QED BY <1>b, <1>3, <1>4, <1>5, <1>6, <1>7, <1>8, <1>9, <1>10, <1>11 DEF Next

LEMMA RememberedStep ==
  ASSUME IInv, Alike, [Next]_vars, ~excused'
  PROVE  Remembered'
<1>3. CASE Hotplug \/ SsiFinalize
  <2>1. mem'.again = FALSE
    BY <1>3 DEF Hotplug, SsiFinalize, NoMem, IInv, TypeOK
  <2> QED BY <2>1 DEF Remembered
<1>a. SUFFICES ASSUME ~SsiFinalize PROVE Remembered'
  BY <1>3
<1>1. ~excused
  BY <1>a, ExcusedStays
<1>2. FreshOnes /\ Remembered
  BY <1>1 DEF Alike
<1>4. ASSUME NEW t \in Threads, Read(t) PROVE Remembered'
  <2> DEFINE s == call[t].slot
  <2>1. hw' = hw /\ call[t].op = "read" /\ s \in Slots
    BY <1>4 DEF Read, IInv, CallsWellFormed
  <2>2. CASE mem' = mem
    BY <1>2, <2>1, <2>2 DEF Remembered, Rank
  <2>3. ASSUME NEW d \in devs[s], mem'.handle = m_handle[s][d], mem'.dev = d, mem'.again = fresh[s]
        PROVE  Remembered'
    <3>1. fresh[s] => devs[s] = hw /\ Numbered(s)
      BY <1>2, <2>1, ReadIsComplete DEF FreshOnes
    <3> QED BY <2>1, <2>3, <3>1 DEF Remembered, Numbered, Rank
  <2>4. mem' = mem \/ \E d \in devs[s] : mem'.handle = m_handle[s][d] /\ mem'.dev = d /\ mem'.again = fresh[s]
    BY <1>4 DEF Read
  <2> QED BY <2>2, <2>3, <2>4
<1>5. ASSUME NEW t \in Threads, Close(t) PROVE Remembered'
  <2>1. hw' = hw /\ mem'.again = mem.again /\ mem'.dev = mem.dev /\ mem'.handle = mem.handle
    BY <1>5 DEF Close, IInv, TypeOK
  <2> QED BY <1>2, <2>1 DEF Remembered, Rank
<1>6. CASE UNCHANGED <<hw, mem>>
  BY <1>2, <1>6 DEF Remembered, Rank
<1>7. ASSUME NEW t \in Threads,
             \/ OpenCall(t) \/ OpenInsert(t) \/ OperateCall(t) \/ Discover(t) \/ Add(t)
             \/ InitializeThrows(t) \/ OpenReturns(t) \/ Operate(t) \/ ReadCall(t) \/ Destroy(t)
      PROVE  UNCHANGED <<hw, mem>>
  BY <1>7 DEF OpenCall, OpenInsert, OperateCall, Discover, Add, InitializeThrows, OpenReturns, Operate, ReadCall,
     Destroy
<1>8. SsiInitialize \/ UNCHANGED vars => UNCHANGED <<hw, mem>>
  BY DEF SsiInitialize, vars
<1> QED BY <1>a, <1>3, <1>4, <1>5, <1>6, <1>7, <1>8 DEF Next

(* What a consumer read from a session that was numbered from 1 it finds    *)
(* again: both discoveries number by the place of a device in the system.   *)
THEOREM ReadHandleIsFound == Spec => []ReproducibleHandleFound
<1>1. IInv /\ Alike /\ [Next]_vars => Alike'
  BY FreshStep, RememberedStep DEF Alike
<1>2. IInv /\ Alike => ReproducibleHandleFound
  <2> SUFFICES ASSUME IInv, Alike, NEW t \in Threads, LooksUp(t), mem.again, fresh[call[t].slot], ~excused
               PROVE  Found(call[t].slot, mem.handle) = {mem.dev}
    BY DEF ReproducibleHandleFound
  <2>1. TypeOK /\ FreshOnes /\ Remembered /\ call[t].slot \in Slots
    BY DEF IInv, Alike, LooksUp, CallsWellFormed
  <2>2. devs[call[t].slot] = hw
    BY <2>1, AllFound DEF LooksUp
  <2>3. \A d \in hw : m_handle[call[t].slot][d] = Rank(d)
    BY <2>1, <2>2 DEF FreshOnes, Numbered
  <2>4. mem.dev \in hw /\ mem.handle = Rank(mem.dev)
    BY <2>1 DEF Remembered
  <2>5. \A d \in hw : Rank(d) = Rank(mem.dev) => d = mem.dev
    BY <2>1, <2>4, RankInjective
  <2> QED BY <2>2, <2>3, <2>4, <2>5 DEF Found
<1> QED BY <1>1, <1>2, AlikeInit, Invariance, PTL DEF Spec
=============================================================================
