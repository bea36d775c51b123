------------------------ MODULE EventSemaphoreProofs ------------------------
(***************************************************************************)
(* Proofs about EventSemaphore, for every set of clients, threads, Event   *)
(* objects and ssimsg processes.                                           *)
(***************************************************************************)
EXTENDS EventSemaphore, FiniteSetTheorems, TLAPS

(* What the destructor of unreferenced Events does to the kernel's state,  *)
(* which events and waits do not matter to.                                *)
LEMMA DestroyType ==
  ASSUME TypeOK, NEW gone, NEW value \in Nat, Destroy(gone, value)
  PROVE  /\ semOf' \in [Objs -> 0 .. MaxSem]
         /\ key' \in 0 .. MaxSem
         /\ semval' \in Nat
  BY MaxSemAssumption DEF TypeOK, Destroy, NoSem

(* Every step keeps every variable in its type. *)
LEMMA TypeStep == TypeOK /\ [Next]_vars => TypeOK'
<1> SUFFICES ASSUME TypeOK, [Next]_vars PROVE TypeOK'
  OBVIOUS
<1> USE MaxSemAssumption
<1>1. ASSUME NEW c \in Clients, Initialize(c) PROVE TypeOK'
  BY <1>1 DEF Initialize, TypeOK, kernel, ssimsg
<1>2. ASSUME NEW c \in Clients, GetEventHandle(c) PROVE TypeOK'
  <2>1. PICK e \in Objs : /\ SemGetCreate(e)
                          /\ m_events' = [m_events EXCEPT ![c] = @ \cup {e}]
                          /\ owed' = [owed EXCEPT ![e] = FALSE]
    BY <1>2 DEF GetEventHandle
  <2>2. /\ semOf' \in [Objs -> 0 .. MaxSem] /\ key' \in 0 .. MaxSem
        /\ semval' \in Nat /\ nextSem' \in 0 .. MaxSem
    BY <2>1 DEF SemGetCreate, TypeOK, NoSem
  <2>3. m_events' \in [Clients -> SUBSET Objs] /\ owed' \in [Objs -> BOOLEAN]
    BY <2>1 DEF TypeOK
  <2> QED BY <1>2, <2>2, <2>3 DEF GetEventHandle, TypeOK, ssimsg
<1>3. ASSUME NEW c \in Clients, FreeEventHandle(c) PROVE TypeOK'
  <2>1. PICK e \in m_events[c] :
          /\ m_events' = [m_events EXCEPT ![c] = @ \ {e}]
          /\ Release([m_events EXCEPT ![c] = @ \ {e}], waits, semval)
          /\ owed' = [owed EXCEPT ![e] = FALSE]
    BY <1>3 DEF FreeEventHandle
  <2>2. /\ semOf' \in [Objs -> 0 .. MaxSem] /\ key' \in 0 .. MaxSem
        /\ semval' \in Nat
    BY <2>1, DestroyType DEF Release, TypeOK
  <2>3. m_events' \in [Clients -> SUBSET Objs] /\ owed' \in [Objs -> BOOLEAN]
    BY <2>1 DEF TypeOK
  <2> QED BY <1>3, <2>2, <2>3 DEF FreeEventHandle, TypeOK, ssimsg
<1>4. ASSUME NEW c \in Clients, Finalize(c) PROVE TypeOK'
  <2>1. /\ semOf' \in [Objs -> 0 .. MaxSem] /\ key' \in 0 .. MaxSem
        /\ semval' \in Nat
    BY <1>4, DestroyType DEF Finalize, Release, TypeOK
  <2>2. m_events' \in [Clients -> SUBSET Objs] /\ owed' \in [Objs -> BOOLEAN]
    BY <1>4 DEF Finalize, TypeOK
  <2> QED BY <1>4, <2>1, <2>2 DEF Finalize, TypeOK, ssimsg
<1>5. ASSUME NEW c \in Clients, NEW t \in Threads, WaitCall(c, t) PROVE TypeOK'
  <2>1. waits' \in [Clients -> [Threads -> Objs \cup {NoObj}]]
    BY <1>5 DEF WaitCall, TypeOK
  <2> QED BY <1>5, <2>1 DEF WaitCall, TypeOK, kernel, ssimsg
<1>6. ASSUME NEW c \in Clients, NEW t \in Threads, NEW value \in Nat,
             WaitReturns(c, t, value), owed' \in [Objs -> BOOLEAN]
      PROVE  TypeOK'
  <2>1. waits' \in [Clients -> [Threads -> Objs \cup {NoObj}]]
    BY <1>6 DEF WaitReturns, TypeOK
  <2>2. /\ semOf' \in [Objs -> 0 .. MaxSem] /\ key' \in 0 .. MaxSem
        /\ semval' \in Nat
    BY <1>6, DestroyType DEF WaitReturns, Release, TypeOK
  <2> QED BY <1>6, <2>1, <2>2 DEF WaitReturns, TypeOK, ssimsg
<1>7. ASSUME NEW c \in Clients, NEW t \in Threads, WaitEnds(c, t) PROVE TypeOK'
  <2>1. CASE WaitOk(c, t)
    <3>1. semval - 1 \in Nat /\ owed' \in [Objs -> BOOLEAN]
      BY <2>1 DEF WaitOk, TypeOK
    <3> QED BY <1>6, <2>1, <3>1 DEF WaitOk
  <2>2. CASE WaitFails(c, t)
    <3>1. semval \in Nat /\ owed' \in [Objs -> BOOLEAN]
      BY <2>2 DEF WaitFails, TypeOK
    <3> QED BY <1>6, <2>2, <3>1 DEF WaitFails
  <2> QED BY <1>7, <2>1, <2>2 DEF WaitEnds
<1>8. ASSUME NEW c \in Clients, Crash(c) PROVE TypeOK'
  <2>1. semOf' \in [Objs -> 0 .. MaxSem] /\ owed' \in [Objs -> BOOLEAN]
    BY <1>8 DEF Crash, TypeOK, NoSem
  <2>2. /\ waits' \in [Clients -> [Threads -> Objs \cup {NoObj}]]
        /\ m_events' \in [Clients -> SUBSET Objs]
        /\ ctx' \in [Clients -> BOOLEAN]
    BY <1>8 DEF Crash, TypeOK
  <2> QED BY <1>8, <2>1, <2>2 DEF Crash, TypeOK, ssimsg
<1>9. ASSUME NEW p \in Posters, MsgSemGet(p) PROVE TypeOK'
  BY <1>9 DEF MsgSemGet, TypeOK, consumer, kernel, ssimsg
<1>10. ASSUME NEW p \in Posters, MsgRuns(p) PROVE TypeOK'
  BY <1>10 DEF MsgRuns, MsgGetVal, MsgSemOp, TypeOK, consumer, kernel
<1>11. CASE UNCHANGED vars
  BY <1>11 DEF vars, consumer, kernel, ssimsg, TypeOK
<1> QED
  BY <1>1, <1>2, <1>3, <1>4, <1>5, <1>7, <1>8, <1>9, <1>10, <1>11 DEF Next, Manage

(* Type correctness. *)
THEOREM TypeCorrect == Spec => []TypeOK
<1>1. Init => TypeOK
  <2> SUFFICES ASSUME Init PROVE TypeOK
    OBVIOUS
  <2>1. waits \in [Clients -> [Threads -> Objs \cup {NoObj}]]
    BY DEF Init
  <2>2. 0 \in 0 .. MaxSem
    BY MaxSemAssumption
  <2>3. semOf \in [Objs -> 0 .. MaxSem] /\ sid \in [Posters -> 0 .. MaxSem]
    BY <2>2 DEF Init, NoSem
  <2> QED BY <2>1, <2>2, <2>3 DEF Init, TypeOK, NoSem
<1> QED BY <1>1, TypeStep, PTL DEF Spec

-----------------------------------------------------------------------------
(* The bound on the semaphore's value *)

(* Identifiers are handed out in increasing order, a posting ssimsg has one, *)
(* and a removed semaphore has no value.                                     *)
SemIds_OK ==
  /\ key <= nextSem
  /\ \A p \in Posters : sid[p] <= nextSem
  /\ \A p \in Posters : pc[p] # "semget" => sid[p] # NoSem
  /\ key = NoSem => semval = 0

BoundInv == SemIds_OK /\ SemvalBounded

(* The posts under way are counted by a number. *)
LEMMA PendingFinite ==
  /\ IsFiniteSet(Pending)
  /\ Cardinality(Pending) \in Nat
  /\ Cardinality(Posters) \in Nat
  /\ Cardinality(Pending) <= Cardinality(Posters)
BY PostersAssumption, FS_Subset, FS_CardinalityType, Pending \subseteq Posters DEF Pending

(* ... and so are they after a step. *)
LEMMA PendingFinitePrime ==
  /\ IsFiniteSet(Pending')
  /\ Cardinality(Pending') \in Nat
  /\ Cardinality(Pending') <= Cardinality(Posters)
BY PostersAssumption, FS_Subset, FS_CardinalityType, Pending' \subseteq Posters DEF Pending

(* Removing the semaphore, or leaving it with no greater a value. *)
LEMMA DestroyBound ==
  ASSUME TypeOK, BoundInv, NEW gone, NEW value \in Nat, value <= semval,
         Destroy(gone, value), UNCHANGED <<nextSem, ssimsg>>
  PROVE  BoundInv'
<1>1. CASE \E e \in gone : semOf[e] = key
  <2>1. key' = NoSem /\ semval' = 0
    BY <1>1 DEF Destroy
  <2>2. Pending' = {}
    BY <2>1 DEF Pending, BoundInv, SemIds_OK, ssimsg
  <2>3. SemIds_OK'
    BY <2>1 DEF BoundInv, SemIds_OK, ssimsg, TypeOK, NoSem
  <2>4. SemvalBounded'
    BY <2>1, <2>2, FS_EmptySet, PendingFinite DEF SemvalBounded
  <2> QED BY <2>3, <2>4 DEF BoundInv
<1>2. CASE ~ \E e \in gone : semOf[e] = key
  <2>1. key' = key /\ semval' = value
    BY <1>2 DEF Destroy
  <2>2. Pending' = Pending
    BY <2>1 DEF Pending, ssimsg
  <2>3. SemIds_OK'
    BY <2>1 DEF BoundInv, SemIds_OK, ssimsg, TypeOK, NoSem
  <2>4. SemvalBounded'
    BY <2>1, <2>2, PendingFinite DEF BoundInv, SemvalBounded, TypeOK
  <2> QED BY <2>3, <2>4 DEF BoundInv
<1> QED BY <1>1, <1>2

(* A step that touches neither the semaphore nor an ssimsg. *)
LEMMA FrameBound ==
  ASSUME BoundInv, UNCHANGED <<key, semval, nextSem, ssimsg>>
  PROVE  BoundInv'
BY DEF BoundInv, SemIds_OK, SemvalBounded, Pending, ssimsg

(* Every step keeps the bound on the value and on the identifiers in use. *)
LEMMA BoundStep == TypeOK /\ BoundInv /\ [Next]_vars => BoundInv'
<1> SUFFICES ASSUME TypeOK, BoundInv, [Next]_vars PROVE BoundInv'
  OBVIOUS
<1>1. ASSUME NEW c \in Clients, Initialize(c) PROVE BoundInv'
  BY <1>1, FrameBound DEF Initialize, kernel
<1>2. ASSUME NEW c \in Clients, GetEventHandle(c) PROVE BoundInv'
  <2>1. PICK e \in Objs : SemGetCreate(e)
    BY <1>2 DEF GetEventHandle
  <2>2. CASE key # NoSem
    BY <1>2, <2>1, <2>2, FrameBound DEF GetEventHandle, SemGetCreate
  <2>3. CASE key = NoSem
    <3>1. nextSem' = nextSem + 1 /\ key' = nextSem + 1 /\ semval' = 0 /\ UNCHANGED ssimsg
      BY <1>2, <2>1, <2>3 DEF GetEventHandle, SemGetCreate
    <3>2. Pending' = {}
      BY <3>1 DEF Pending, BoundInv, SemIds_OK, ssimsg, TypeOK
    <3>3. SemIds_OK'
      BY <3>1 DEF BoundInv, SemIds_OK, ssimsg, TypeOK, NoSem
    <3>4. SemvalBounded'
      BY <3>1, <3>2, FS_EmptySet, PendingFinite DEF SemvalBounded
    <3> QED BY <3>3, <3>4 DEF BoundInv
  <2> QED BY <2>2, <2>3
<1>3. ASSUME NEW c \in Clients, FreeEventHandle(c) PROVE BoundInv'
  <2>1. \E gone : Destroy(gone, semval)
    BY <1>3 DEF FreeEventHandle, Release
  <2> QED BY <1>3, <2>1, DestroyBound DEF FreeEventHandle, TypeOK
<1>4. ASSUME NEW c \in Clients, Finalize(c) PROVE BoundInv'
  <2>1. \E gone : Destroy(gone, semval)
    BY <1>4 DEF Finalize, Release
  <2> QED BY <1>4, <2>1, DestroyBound DEF Finalize, TypeOK
<1>5. ASSUME NEW c \in Clients, NEW t \in Threads, WaitCall(c, t) PROVE BoundInv'
  BY <1>5, FrameBound DEF WaitCall, kernel
<1>6. ASSUME NEW c \in Clients, NEW t \in Threads, WaitEnds(c, t) PROVE BoundInv'
  <2>1. ASSUME NEW value \in Nat, value <= semval, WaitReturns(c, t, value)
        PROVE  BoundInv'
    <3>1. \E gone : Destroy(gone, value)
      BY <2>1 DEF WaitReturns, Release
    <3> QED BY <2>1, <3>1, DestroyBound DEF WaitReturns
  <2>2. CASE WaitOk(c, t)
    <3>1. semval - 1 \in Nat /\ semval - 1 <= semval
      BY <2>2 DEF WaitOk, TypeOK
    <3> QED BY <2>1, <2>2, <3>1 DEF WaitOk
  <2>3. CASE WaitFails(c, t)
    <3>1. semval \in Nat /\ semval <= semval
      BY DEF TypeOK
    <3> QED BY <2>1, <2>3, <3>1 DEF WaitFails
  <2> QED BY <1>6, <2>2, <2>3 DEF WaitEnds
<1>7. ASSUME NEW c \in Clients, Crash(c) PROVE BoundInv'
  BY <1>7, FrameBound DEF Crash
<1>8. ASSUME NEW p \in Posters, MsgSemGet(p) PROVE BoundInv'
  <2>1. UNCHANGED <<key, semval, nextSem>>
    BY <1>8 DEF MsgSemGet, kernel
  <2>2. Pending' = Pending
    BY <1>8, <2>1 DEF MsgSemGet, Pending, TypeOK, ssimsg
  <2>3. SemIds_OK'
    BY <1>8, <2>1 DEF MsgSemGet, BoundInv, SemIds_OK, TypeOK, ssimsg
  <2> QED BY <2>1, <2>2, <2>3 DEF BoundInv, SemvalBounded
<1>9. ASSUME NEW p \in Posters, MsgGetVal(p) PROVE BoundInv'
  <2>1. UNCHANGED <<key, semval, nextSem, sid>>
    BY <1>9 DEF MsgGetVal, kernel
  <2>2. CASE sid[p] = key /\ semval = 0
    <3>1. SemvalBounded'
      BY <2>1, <2>2, PendingFinitePrime DEF SemvalBounded
    <3>2. SemIds_OK'
      BY <1>9, <2>1, <2>2 DEF MsgGetVal, BoundInv, SemIds_OK, TypeOK
    <3> QED BY <3>1, <3>2 DEF BoundInv
  <2>3. CASE ~(sid[p] = key /\ semval = 0)
    <3>1. Pending' = Pending
      BY <1>9, <2>1, <2>3 DEF MsgGetVal, Pending, TypeOK
    <3>2. SemIds_OK'
      BY <1>9, <2>1, <2>3 DEF MsgGetVal, BoundInv, SemIds_OK, TypeOK
    <3> QED BY <2>1, <3>1, <3>2 DEF BoundInv, SemvalBounded
  <2> QED BY <2>2, <2>3
<1>10. ASSUME NEW p \in Posters, MsgSemOp(p) PROVE BoundInv'
  <2>1. UNCHANGED <<key, nextSem, sid>> /\ Pending' = Pending \ {p}
    BY <1>10 DEF MsgSemOp, Pending, TypeOK
  <2>2. CASE sid[p] = key
    <3>1. p \in Pending
      BY <1>10, <2>2 DEF MsgSemOp, Pending
    <3>2. Cardinality(Pending') = Cardinality(Pending) - 1
      BY <2>1, <3>1, PendingFinite, FS_RemoveElement
    <3>3. SemvalBounded'
      BY <1>10, <2>2, <3>2, PendingFinite DEF MsgSemOp, BoundInv, SemvalBounded, TypeOK
    <3>4. SemIds_OK'
      BY <1>10, <2>1, <2>2 DEF MsgSemOp, BoundInv, SemIds_OK, TypeOK
    <3> QED BY <3>3, <3>4 DEF BoundInv
  <2>3. CASE sid[p] # key
    <3>1. Pending' = Pending /\ semval' = semval
      BY <1>10, <2>1, <2>3 DEF MsgSemOp, Pending
    <3>2. SemIds_OK'
      BY <1>10, <2>1, <3>1 DEF MsgSemOp, BoundInv, SemIds_OK, TypeOK
    <3> QED BY <2>1, <3>1, <3>2 DEF BoundInv, SemvalBounded
  <2> QED BY <2>2, <2>3
<1>11. CASE UNCHANGED vars
  BY <1>11, FrameBound DEF vars, kernel
<1> QED
  BY <1>1, <1>2, <1>3, <1>4, <1>5, <1>6, <1>7, <1>8, <1>9, <1>10, <1>11
  DEF Next, Manage, MsgRuns

(* There is no semaphore and no post when the system starts. *)
LEMMA BoundInit == Init => BoundInv
<1> SUFFICES ASSUME Init PROVE BoundInv
  OBVIOUS
<1>1. Pending = {}
  BY DEF Init, Pending
<1>2. SemIds_OK
  BY DEF Init, SemIds_OK, NoSem
<1> QED BY <1>1, <1>2, FS_EmptySet, PendingFinite DEF Init, BoundInv, SemvalBounded

(* However many clients wait or do not, the value of the semaphore and the *)
(* posts under way stay within the number of concurrent ssimsg.            *)
THEOREM SemvalStaysBounded == Spec => []SemvalBounded
<1>1. BoundInv => SemvalBounded
  BY DEF BoundInv
<1> QED BY <1>1, BoundInit, BoundStep, TypeCorrect, PTL DEF Spec

-----------------------------------------------------------------------------
(* The lifetime of Event objects *)

RefInv ==
  /\ \A c \in Clients : \A e \in m_events[c] : semOf[e] # NoSem
  /\ WaiterKeepsEvent

(* A release leaves every Event that still has a reference as it is. *)
LEMMA ReleaseKeepsHeld ==
  ASSUME TypeOK, NEW events, NEW waiting, NEW value, Release(events, waiting, value),
         NEW e \in Objs, Held(events, waiting, e)
  PROVE  semOf'[e] = semOf[e]
BY DEF Release, Destroy, TypeOK

(* What a call needs to show: references only go away, with a release. *)
LEMMA ReleaseRef ==
  ASSUME TypeOK, RefInv, TypeOK', NEW value, Release(m_events', waits', value),
         \A c \in Clients : m_events'[c] \subseteq m_events[c],
         \A c \in Clients, t \in Threads : waits'[c][t] \in {waits[c][t], NoObj}
  PROVE  RefInv'
<1>1. ASSUME NEW c \in Clients, NEW e \in m_events'[c] PROVE semOf'[e] # NoSem
  <2>1. e \in Objs /\ Held(m_events', waits', e)
    BY DEF TypeOK, Held
  <2>2. semOf'[e] = semOf[e]
    BY <2>1, ReleaseKeepsHeld
  <2> QED BY <2>2 DEF RefInv
<1>2. ASSUME NEW c \in Clients, NEW t \in Threads, waits'[c][t] # NoObj
      PROVE  semOf'[waits'[c][t]] # NoSem
  <2>1. waits'[c][t] = waits[c][t]
    BY <1>2
  <2>2. waits'[c][t] \in Objs
    BY <1>2 DEF TypeOK
  <2>3. Held(m_events', waits', waits'[c][t])
    BY DEF Held
  <2>4. semOf'[waits'[c][t]] = semOf[waits'[c][t]]
    BY <2>2, <2>3, ReleaseKeepsHeld
  <2> QED BY <1>2, <2>1, <2>4 DEF RefInv, WaiterKeepsEvent
<1> QED BY <1>1, <1>2 DEF RefInv, WaiterKeepsEvent

(* Every step keeps the Events that are referenced in existence. *)
LEMMA RefStep == TypeOK /\ TypeOK' /\ SemIds_OK /\ RefInv /\ [Next]_vars => RefInv'
<1> SUFFICES ASSUME TypeOK, TypeOK', SemIds_OK, RefInv, [Next]_vars PROVE RefInv'
  OBVIOUS
<1>1. ASSUME UNCHANGED <<m_events, waits, semOf>> PROVE RefInv'
  BY <1>1 DEF RefInv, WaiterKeepsEvent
<1>2. ASSUME NEW c \in Clients, GetEventHandle(c) PROVE RefInv'
  <2>1. PICK e \in Objs : /\ SemGetCreate(e)
                          /\ m_events' = [m_events EXCEPT ![c] = @ \cup {e}]
    BY <1>2 DEF GetEventHandle
  <2>2. semOf'[e] # NoSem /\ \A x \in Objs : x # e => semOf'[x] = semOf[x]
    BY <2>1 DEF SemGetCreate, TypeOK, NoSem
  <2>3. ASSUME NEW d \in Clients, NEW x \in m_events'[d] PROVE semOf'[x] # NoSem
    <3>1. x = e \/ x \in m_events[d]
      BY <2>1 DEF TypeOK
    <3>2. x \in Objs
      BY DEF TypeOK
    <3> QED BY <2>2, <3>1, <3>2 DEF RefInv
  <2>4. WaiterKeepsEvent'
    BY <1>2, <2>2 DEF GetEventHandle, RefInv, WaiterKeepsEvent, TypeOK
  <2> QED BY <2>3, <2>4 DEF RefInv
<1>3. ASSUME NEW c \in Clients, FreeEventHandle(c) PROVE RefInv'
  <2>1. PICK e \in m_events[c] :
          /\ m_events' = [m_events EXCEPT ![c] = @ \ {e}]
          /\ Release(m_events', waits, semval)
    BY <1>3 DEF FreeEventHandle
  <2>2. waits' = waits
    BY <1>3 DEF FreeEventHandle
  <2>3. \A d \in Clients : m_events'[d] \subseteq m_events[d]
    BY <2>1 DEF TypeOK
  <2> QED BY <2>1, <2>2, <2>3, ReleaseRef
<1>4. ASSUME NEW c \in Clients, Finalize(c) PROVE RefInv'
  <2>1. /\ m_events' = [m_events EXCEPT ![c] = {}]
        /\ Release(m_events', waits, semval)
        /\ waits' = waits
    BY <1>4 DEF Finalize
  <2>2. \A d \in Clients : m_events'[d] \subseteq m_events[d]
    BY <2>1 DEF TypeOK
  <2> QED BY <2>1, <2>2, ReleaseRef
<1>5. ASSUME NEW c \in Clients, NEW t \in Threads, WaitCall(c, t) PROVE RefInv'
  <2>1. PICK e \in m_events[c] : waits' = [waits EXCEPT ![c][t] = e]
    BY <1>5 DEF WaitCall
  <2>2. \A d \in Clients, u \in Threads : waits'[d][u] = e \/ waits'[d][u] = waits[d][u]
    BY <2>1 DEF TypeOK
  <2>3. UNCHANGED <<m_events, semOf>> /\ semOf[e] # NoSem
    BY <1>5 DEF WaitCall, kernel, RefInv
  <2> QED BY <2>2, <2>3 DEF RefInv, WaiterKeepsEvent
<1>6. ASSUME NEW c \in Clients, NEW t \in Threads, WaitEnds(c, t) PROVE RefInv'
  <2>1. PICK value : WaitReturns(c, t, value)
    BY <1>6 DEF WaitEnds, WaitOk, WaitFails
  <2>2. /\ waits' = [waits EXCEPT ![c][t] = NoObj]
        /\ Release(m_events, waits', value)
        /\ m_events' = m_events
    BY <2>1 DEF WaitReturns
  <2>3. \A d \in Clients, u \in Threads : waits'[d][u] \in {waits[d][u], NoObj}
    BY <2>2 DEF TypeOK
  <2> QED BY <2>2, <2>3, ReleaseRef
<1>7. ASSUME NEW c \in Clients, Crash(c) PROVE RefInv'
  <2>1. /\ m_events' = [m_events EXCEPT ![c] = {}]
        /\ waits' = [waits EXCEPT ![c] = [t \in Threads |-> NoObj]]
        /\ \A e \in Objs : Held(m_events', waits', e) => semOf'[e] = semOf[e]
    BY <1>7 DEF Crash
  <2>2. ASSUME NEW d \in Clients, NEW e \in m_events'[d] PROVE semOf'[e] # NoSem
    <3>1. e \in m_events[d] /\ e \in Objs
      BY <2>1 DEF TypeOK
    <3>2. Held(m_events', waits', e)
      BY DEF Held
    <3> QED BY <2>1, <3>1, <3>2 DEF RefInv
  <2>3. ASSUME NEW d \in Clients, NEW t \in Threads, waits'[d][t] # NoObj
        PROVE  semOf'[waits'[d][t]] # NoSem
    <3>1. waits'[d][t] = waits[d][t] /\ waits'[d][t] \in Objs
      BY <2>1, <2>3 DEF TypeOK
    <3>2. Held(m_events', waits', waits'[d][t])
      BY DEF Held
    <3> QED BY <2>1, <2>3, <3>1, <3>2 DEF RefInv, WaiterKeepsEvent
  <2> QED BY <2>2, <2>3 DEF RefInv, WaiterKeepsEvent
<1>8. ASSUME NEW c \in Clients, Initialize(c) PROVE RefInv'
  BY <1>1, <1>8 DEF Initialize, kernel
<1>9. ASSUME NEW p \in Posters, MsgSemGet(p) \/ MsgRuns(p) PROVE RefInv'
  BY <1>1, <1>9 DEF MsgSemGet, MsgRuns, MsgGetVal, MsgSemOp, consumer, kernel
<1>10. CASE UNCHANGED vars
  BY <1>1, <1>10 DEF vars, consumer, kernel
<1> QED
  BY <1>2, <1>3, <1>4, <1>5, <1>6, <1>7, <1>8, <1>9, <1>10 DEF Next, Manage

(* No thread is ever inside Event::wait of a destroyed Event. *)
THEOREM WaitersKeepTheirEvents == Spec => []WaiterKeepsEvent
<1>1. Init => BoundInv /\ RefInv
  <2> SUFFICES ASSUME Init PROVE BoundInv /\ RefInv
    OBVIOUS
  <2>1. RefInv
    BY DEF Init, RefInv, WaiterKeepsEvent
  <2> QED BY <2>1, BoundInit
<1>2. BoundInv => SemIds_OK
  BY DEF BoundInv
<1>3. RefInv => WaiterKeepsEvent
  BY DEF RefInv
<1> QED BY <1>1, <1>2, <1>3, BoundStep, RefStep, TypeCorrect, PTL DEF Spec

-----------------------------------------------------------------------------
(* The lifetime of the semaphore *)

(* An Event that goes takes the semaphore with it, so one that stays is     *)
(* still named by an Event.                                                 *)
LEMMA DestroyHolder ==
  ASSUME TypeOK, SemaphoreHasHolder, NEW gone, NEW value, Destroy(gone, value), crashed' = crashed
  PROVE  SemaphoreHasHolder'
<1> SUFFICES ASSUME key' # NoSem, ~crashed PROVE \E e \in Objs : semOf'[e] = key'
  BY DEF SemaphoreHasHolder
<1>1. ~ \E e \in gone : semOf[e] = key
  BY DEF Destroy
<1>2. key' = key
  BY <1>1 DEF Destroy
<1>3. PICK e \in Objs : semOf[e] = key
  BY <1>2 DEF SemaphoreHasHolder
<1>4. semOf'[e] = semOf[e]
  BY <1>1, <1>3 DEF Destroy
<1> QED BY <1>2, <1>3, <1>4

(* While no client has died, the semaphore exists only as long as some      *)
(* Event names it, for any number of clients and threads: no sequence of    *)
(* handles obtained, waited on and freed leaks it.                          *)
THEOREM SemaphoreNeverLeaks == Spec => []SemaphoreHasHolder
<1>1. Init => SemaphoreHasHolder
  BY DEF Init, SemaphoreHasHolder
<1>2. TypeOK /\ SemaphoreHasHolder /\ [Next]_vars => SemaphoreHasHolder'
  <2> SUFFICES ASSUME TypeOK, SemaphoreHasHolder, [Next]_vars PROVE SemaphoreHasHolder'
    OBVIOUS
  <2>1. ASSUME UNCHANGED <<key, semOf, crashed>> PROVE SemaphoreHasHolder'
    BY <2>1 DEF SemaphoreHasHolder
  <2>2. ASSUME NEW c \in Clients, Initialize(c) PROVE SemaphoreHasHolder'
    BY <2>1, <2>2 DEF Initialize, kernel
  <2>3. ASSUME NEW c \in Clients, GetEventHandle(c) PROVE SemaphoreHasHolder'
    <3>1. PICK e \in Objs : SemGetCreate(e)
      BY <2>3 DEF GetEventHandle
    <3>2. semOf'[e] = key'
      BY <3>1 DEF SemGetCreate, TypeOK
    <3> QED BY <3>2 DEF SemaphoreHasHolder
  <2>4. ASSUME NEW c \in Clients, FreeEventHandle(c) \/ Finalize(c) PROVE SemaphoreHasHolder'
    <3>1. \E gone : Destroy(gone, semval) /\ crashed' = crashed
      BY <2>4 DEF FreeEventHandle, Finalize, Release
    <3> QED BY <3>1, DestroyHolder
  <2>5. ASSUME NEW c \in Clients, NEW t \in Threads, WaitCall(c, t) PROVE SemaphoreHasHolder'
    BY <2>1, <2>5 DEF WaitCall, kernel
  <2>6. ASSUME NEW c \in Clients, NEW t \in Threads, WaitEnds(c, t) PROVE SemaphoreHasHolder'
    <3>1. \E gone, value : Destroy(gone, value) /\ crashed' = crashed
      BY <2>6 DEF WaitEnds, WaitOk, WaitFails, WaitReturns, Release
    <3> QED BY <3>1, DestroyHolder
  <2>7. ASSUME NEW c \in Clients, Crash(c) PROVE SemaphoreHasHolder'
    BY <2>7 DEF Crash, SemaphoreHasHolder
  <2>8. ASSUME NEW p \in Posters, MsgSemGet(p) \/ MsgRuns(p) PROVE SemaphoreHasHolder'
    BY <2>1, <2>8 DEF MsgSemGet, MsgRuns, MsgGetVal, MsgSemOp, kernel
  <2>9. CASE UNCHANGED vars
    BY <2>1, <2>9 DEF vars, kernel
  <2> QED
    BY <2>2, <2>3, <2>4, <2>5, <2>6, <2>7, <2>8, <2>9 DEF Next, Manage
<1> QED BY <1>1, <1>2, TypeCorrect, PTL DEF Spec

-----------------------------------------------------------------------------
(* A system with one client and one thread *)

SoleInv(c, t) ==
  /\ \A e \in Objs : semOf[e] # NoSem => e \in m_events[c]
  /\ \A e \in m_events[c] : semOf[e] = key /\ key # NoSem
  /\ waits[c][t] # NoObj => waits[c][t] \in m_events[c]
  /\ m_events[c] = {} \/ \E e \in Objs : m_events[c] = {e}
  /\ NoLostEvent

(* Without registered Events and waiting threads the invariant is immediate. *)
LEMMA SoleEmpty ==
  ASSUME NEW c, NEW t, Clients = {c}, Threads = {t},
         m_events'[c] = {}, waits'[c][t] = NoObj, \A e \in Objs : semOf'[e] = NoSem
  PROVE  SoleInv(c, t)'
BY DEF SoleInv, NoLostEvent, Registered

(* With one calling thread, every step keeps the handle and its event. *)
LEMMA SoleStep ==
  ASSUME NEW c, NEW t, Clients = {c}, Threads = {t},
         TypeOK, TypeOK', SemIds_OK, SoleInv(c, t), [Next]_vars
  PROVE  SoleInv(c, t)'
<1>a. Registered = m_events[c] /\ Registered' = m_events'[c]
  BY DEF Registered
<1>1. CASE Initialize(c)
  BY <1>1 DEF Initialize, kernel, ssimsg, SoleInv, NoLostEvent, Registered
<1>2. CASE GetEventHandle(c)
  <2>1. m_events[c] = {}
    <3>1. ASSUME NEW e \in Objs, m_events[c] = {e} PROVE FALSE
      BY <1>2, <3>1, FS_Singleton DEF GetEventHandle, MAX_EVENT_HANDLES
    <3> QED BY <3>1 DEF SoleInv
  <2>2. PICK e \in Objs : /\ SemGetCreate(e)
                          /\ m_events' = [m_events EXCEPT ![c] = @ \cup {e}]
                          /\ owed' = [owed EXCEPT ![e] = FALSE]
    BY <1>2 DEF GetEventHandle
  <2>3. m_events'[c] = {e} /\ owed'[e] = FALSE /\ waits'[c][t] = NoObj
    BY <1>2, <2>1, <2>2 DEF GetEventHandle, TypeOK, SoleInv
  <2>4. /\ semOf'[e] = key' /\ key' # NoSem
        /\ \A x \in Objs : x # e => semOf'[x] = semOf[x]
    BY <2>2 DEF SemGetCreate, TypeOK, NoSem
  <2>5. \A x \in Objs : x # e => semOf'[x] = NoSem
    BY <2>1, <2>4 DEF SoleInv
  <2>6. NoLostEvent'
    BY <1>a, <2>3 DEF NoLostEvent
  <2> QED BY <2>3, <2>4, <2>5, <2>6 DEF SoleInv
<1>3. CASE Idle(c, t) /\ (FreeEventHandle(c) \/ Finalize(c))
  <2>1. m_events'[c] = {}
    <3>1. CASE FreeEventHandle(c)
      BY <3>1 DEF FreeEventHandle, SoleInv, TypeOK
    <3>2. CASE Finalize(c)
      BY <3>2 DEF Finalize, TypeOK
    <3> QED BY <1>3, <3>1, <3>2
  <2>2. waits'[c][t] = NoObj /\ waits' = waits
    BY <1>3 DEF Idle, FreeEventHandle, Finalize
  <2>3. Release(m_events', waits', semval)
    BY <1>3, <2>2 DEF FreeEventHandle, Finalize
  <2>4. \A e \in Objs : ~Held(m_events', waits', e)
    BY <2>1, <2>2, ObjsAssumption DEF Held, NoObj
  <2>5. \A e \in Objs : semOf'[e] = NoSem
    BY <2>3, <2>4 DEF Release, Destroy
  <2> QED BY <2>1, <2>2, <2>5, SoleEmpty
<1>4. CASE WaitCall(c, t)
  <2>1. waits'[c][t] \in m_events[c]
    BY <1>4 DEF WaitCall, TypeOK
  <2> QED BY <1>4, <2>1 DEF WaitCall, kernel, ssimsg, SoleInv, NoLostEvent, Registered
<1>5. ASSUME NEW value \in Nat, WaitReturns(c, t, value),
             \A e \in m_events[c] : owed'[e] => owed[e] /\ value = semval
      PROVE  SoleInv(c, t)'
  <2>1. /\ m_events' = m_events /\ waits' = [waits EXCEPT ![c][t] = NoObj]
        /\ Release(m_events, waits', value) /\ UNCHANGED ssimsg
    BY <1>5 DEF WaitReturns
  <2>2. waits'[c][t] = NoObj
    BY <2>1 DEF TypeOK
  <2>3. {e \in Objs : semOf[e] # NoSem /\ ~Held(m_events, waits', e)} = {}
    BY DEF SoleInv, Held
  <2>4. key' = key /\ semval' = value /\ \A e \in Objs : semOf'[e] = semOf[e]
    BY <2>1, <2>3 DEF Release, Destroy
  <2>5. \A e \in m_events[c] : e \in Objs
    BY DEF TypeOK
  <2>6. NoLostEvent'
    BY <1>a, <1>5, <2>1, <2>4, <2>5 DEF NoLostEvent, SoleInv, ssimsg
  <2> QED BY <2>1, <2>2, <2>4, <2>5, <2>6 DEF SoleInv
<1>6. CASE WaitOk(c, t)
  <2>1. semval - 1 \in Nat
    BY <1>6 DEF WaitOk, TypeOK
  <2>2. \A e \in m_events[c] : e = waits[c][t]
    BY <1>6 DEF WaitOk, SoleInv
  <2>3. \A e \in m_events[c] : owed'[e] = FALSE
    BY <1>6, <2>2 DEF WaitOk, TypeOK
  <2> QED BY <1>5, <1>6, <2>1, <2>3 DEF WaitOk
<1>7. CASE WaitFails(c, t)
  <2>1. semval \in Nat
    BY DEF TypeOK
  <2> QED BY <1>5, <1>7, <2>1 DEF WaitFails
<1>8. CASE Crash(c)
  <2>1. m_events'[c] = {} /\ waits'[c][t] = NoObj
    BY <1>8 DEF Crash, TypeOK
  <2>2. \A e \in Objs : ~Held(m_events', waits', e)
    BY <2>1, ObjsAssumption DEF Held, NoObj
  <2>3. \A e \in Objs : semOf'[e] = NoSem
    BY <1>8, <2>2 DEF Crash
  <2> QED BY <2>1, <2>3, SoleEmpty
<1>9. ASSUME NEW p \in Posters, MsgSemGet(p) PROVE SoleInv(c, t)'
  <2>1. UNCHANGED <<m_events, waits, semOf, key, semval>>
    BY <1>9 DEF MsgSemGet, consumer, kernel
  <2>2. ASSUME NEW e \in m_events[c] PROVE pc'[p] # "semget" /\ sid'[p] = key
    BY <1>9 DEF MsgSemGet, SoleInv, TypeOK
  <2>3. NoLostEvent'
    BY <1>a, <2>1, <2>2 DEF NoLostEvent, SoleInv
  <2> QED BY <2>1, <2>3 DEF SoleInv
<1>10. ASSUME NEW p \in Posters, MsgGetVal(p) PROVE SoleInv(c, t)'
  <2>1. UNCHANGED <<m_events, waits, semOf, key, semval, sid, owed>>
    BY <1>10 DEF MsgGetVal, consumer, kernel
  <2>2. /\ \A q \in Posters : q # p => pc'[q] = pc[q]
        /\ sid[p] = key /\ semval = 0 => pc'[p] = "semop"
    BY <1>10 DEF MsgGetVal, TypeOK
  <2>3. ASSUME NEW e \in m_events[c], owed[e], ~(semval > 0)
        PROVE  \E q \in Posters : pc'[q] # "semget" /\ sid[q] = semOf[e] /\ sid[q] = key
    <3>1. semval = 0
      BY <2>3 DEF TypeOK
    <3>2. PICK q \in Posters : pc[q] # "semget" /\ sid[q] = semOf[e] /\ sid[q] = key
      BY <1>a, <2>3 DEF SoleInv, NoLostEvent
    <3> QED BY <2>2, <3>1, <3>2
  <2>4. NoLostEvent'
    BY <1>a, <2>1, <2>3 DEF NoLostEvent, SoleInv
  <2> QED BY <2>1, <2>4 DEF SoleInv
<1>11. ASSUME NEW p \in Posters, MsgSemOp(p) PROVE SoleInv(c, t)'
  <2>1. UNCHANGED <<m_events, waits, semOf, key, sid, owed>>
    BY <1>11 DEF MsgSemOp, consumer
  <2>2. /\ \A q \in Posters : q # p => pc'[q] = pc[q]
        /\ sid[p] = key => semval' > 0
        /\ semval > 0 => semval' > 0
    BY <1>11 DEF MsgSemOp, TypeOK
  <2>3. NoLostEvent'
    BY <1>a, <2>1, <2>2 DEF NoLostEvent, SoleInv
  <2> QED BY <2>1, <2>3 DEF SoleInv
<1>12. CASE UNCHANGED vars
  BY <1>12 DEF vars, consumer, kernel, ssimsg, SoleInv, NoLostEvent, Registered
<1> QED
  BY <1>1, <1>2, <1>3, <1>4, <1>6, <1>7, <1>8, <1>9, <1>10, <1>11, <1>12
  DEF Next, Manage, WaitEnds, MsgRuns

(* With one client calling from one thread, a registered handle always     *)
(* names the semaphore ssimsg posts to.                                     *)
THEOREM SoleHandleUsable ==
  ASSUME NEW c, NEW t, Clients = {c}, Threads = {t}
  PROVE  Spec => []HandleUsable
<1>1. Init => BoundInv /\ SoleInv(c, t)
  <2> SUFFICES ASSUME Init PROVE BoundInv /\ SoleInv(c, t)
    OBVIOUS
  <2>1. SoleInv(c, t)
    BY DEF Init, SoleInv, NoLostEvent, Registered
  <2> QED BY <2>1, BoundInit
<1>2. TypeOK /\ TypeOK' /\ SemIds_OK /\ SoleInv(c, t) /\ [Next]_vars => SoleInv(c, t)'
  BY SoleStep
<1>3. BoundInv => SemIds_OK
  BY DEF BoundInv
<1>4. SoleInv(c, t) => HandleUsable
  BY DEF SoleInv, HandleUsable, Registered
<1> QED BY <1>1, <1>2, <1>3, <1>4, BoundStep, TypeCorrect, PTL DEF Spec

(* ... and, however many ssimsg run at once and however they interleave     *)
(* with the calls, no event that occurs while it is registered is lost.     *)
THEOREM SoleNoLostEvent ==
  ASSUME NEW c, NEW t, Clients = {c}, Threads = {t}
  PROVE  Spec => []NoLostEvent
<1>1. Init => BoundInv /\ SoleInv(c, t)
  <2> SUFFICES ASSUME Init PROVE BoundInv /\ SoleInv(c, t)
    OBVIOUS
  <2>1. SoleInv(c, t)
    BY DEF Init, SoleInv, NoLostEvent, Registered
  <2> QED BY <2>1, BoundInit
<1>2. TypeOK /\ TypeOK' /\ SemIds_OK /\ SoleInv(c, t) /\ [Next]_vars => SoleInv(c, t)'
  BY SoleStep
<1>3. BoundInv => SemIds_OK
  BY DEF BoundInv
<1>4. SoleInv(c, t) => NoLostEvent
  BY DEF SoleInv
<1> QED BY <1>1, <1>2, <1>3, <1>4, BoundStep, TypeCorrect, PTL DEF Spec

-----------------------------------------------------------------------------
(* The service provided to one client with one thread *)

(* The ssimsg on their way are counted by a number, before and after a step. *)
LEMMA InFlightFinite ==
  /\ IsFiniteSet(InFlight) /\ Cardinality(InFlight) \in Nat
  /\ IsFiniteSet(InFlight') /\ Cardinality(InFlight') \in Nat
BY PostersAssumption, FS_Subset, FS_CardinalityType,
   InFlight \subseteq Posters, InFlight' \subseteq Posters DEF InFlight

(* A step of the holder that leaves the semaphore and the ssimsg alone. *)
LEMMA SameCredit ==
  ASSUME UNCHANGED <<key, semval, ssimsg>>
  PROVE  Credit' = Credit
BY DEF Credit, InFlight, ssimsg

(* With the semaphore goes what it held and what was on its way to it. *)
LEMMA NoCredit ==
  ASSUME SemIds_OK', key' = NoSem
  PROVE  Credit' = 0
<1>1. InFlight' = {}
  BY DEF InFlight, SemIds_OK
<1> QED BY <1>1, FS_EmptySet DEF Credit, SemIds_OK

(* Every step with one calling thread is a step of the service or none. *)
LEMMA SoleServiceStep ==
  ASSUME NEW c, NEW t, Clients = {c}, Threads = {t},
         TypeOK, TypeOK', SemIds_OK, SemIds_OK', SoleInv(c, t), SoleInv(c, t)', [Next]_vars
  PROVE  [Service!Next]_(Service!service)
<1> DEFINE Same == UNCHANGED <<Holding, Credit, Owed>>
<1>a. Registered = m_events[c] /\ Registered' = m_events'[c]
  BY DEF Registered
<1>c. /\ Holding \in BOOLEAN /\ Holding' \in BOOLEAN
      /\ Owed \in BOOLEAN /\ Owed' \in BOOLEAN
  BY DEF Holding, Owed
<1>b. ASSUME Same PROVE UNCHANGED Service!service
  BY <1>b DEF Service!service
<1>1. CASE Initialize(c)
  <2>1. Same
    BY <1>1, SameCredit DEF Initialize, kernel, ssimsg, Holding, Owed, Registered
  <2> QED BY <2>1, <1>b
<1>2. CASE GetEventHandle(c)
  <2>1. m_events[c] = {}
    <3>1. ASSUME NEW e \in Objs, m_events[c] = {e} PROVE FALSE
      BY <1>2, <3>1, FS_Singleton DEF GetEventHandle, MAX_EVENT_HANDLES
    <3> QED BY <3>1 DEF SoleInv
  <2>2. PICK e \in Objs : /\ SemGetCreate(e)
                          /\ m_events' = [m_events EXCEPT ![c] = @ \cup {e}]
                          /\ owed' = [owed EXCEPT ![e] = FALSE]
    BY <1>2 DEF GetEventHandle
  <2>3. m_events'[c] = {e} /\ owed'[e] = FALSE
    BY <2>1, <2>2 DEF TypeOK
  <2>4. ~Holding /\ Holding' /\ ~Owed /\ ~Owed'
    BY <1>a, <2>1, <2>3 DEF Holding, Owed
  <2>5. Credit' = Credit
    <3>1. CASE key # NoSem
      BY <1>2, <2>2, <3>1, SameCredit DEF GetEventHandle, SemGetCreate
    <3>2. CASE key = NoSem
      <4>1. InFlight = {} /\ InFlight' = {}
        BY <1>2, <2>2, <3>2 DEF GetEventHandle, SemGetCreate, InFlight, SemIds_OK, ssimsg, TypeOK, NoSem
      <4>2. semval = 0 /\ semval' = 0
        BY <2>2, <3>2 DEF SemGetCreate, SemIds_OK
      <4> QED BY <4>1, <4>2 DEF Credit
    <3> QED BY <3>1, <3>2
  <2>6. Service!Get
    BY <1>c, <2>4, <2>5 DEF Service!Get
  <2> QED BY <2>6 DEF Service!Next
<1>3. CASE Idle(c, t) /\ (FreeEventHandle(c) \/ Finalize(c))
  <2>1. /\ m_events'[c] = {} /\ waits' = waits /\ waits[c][t] = NoObj
        /\ Release(m_events', waits', semval) /\ UNCHANGED ssimsg
    BY <1>3 DEF Idle, FreeEventHandle, Finalize, SoleInv, TypeOK
  <2>2. ~Holding' /\ ~Owed'
    BY <1>a, <2>1 DEF Holding, Owed
  <2>3. CASE m_events[c] = {}
    <3>1. ~Holding /\ ~Owed
      BY <1>a, <2>3 DEF Holding, Owed
    <3>2. \A e \in Objs : semOf[e] = NoSem
      BY <2>3 DEF SoleInv
    <3>3. UNCHANGED <<key, semval>>
      BY <2>1, <3>2 DEF Release, Destroy
    <3>4. Same
      BY <1>c, <2>1, <2>2, <3>1, <3>3, SameCredit
    <3> QED BY <3>4, <1>b
  <2>4. CASE m_events[c] # {}
    <3>1. PICK e \in m_events[c] : TRUE
      BY <2>4
    <3>2. e \in Objs /\ semOf[e] = key /\ key # NoSem
      BY <3>1 DEF SoleInv, TypeOK
    <3>3. ~Held(m_events', waits', e)
      BY <2>1, <3>2, ObjsAssumption DEF Held, NoObj
    <3>4. key' = NoSem
      BY <2>1, <3>2, <3>3 DEF Release, Destroy
    <3>5. Holding /\ Credit' = 0
      BY <1>a, <3>1, <3>4, NoCredit DEF Holding
    <3>6. Service!GiveUp
      BY <2>2, <3>5 DEF Service!GiveUp
    <3> QED BY <3>6 DEF Service!Next
  <2> QED BY <2>3, <2>4
<1>4. CASE WaitCall(c, t)
  <2>1. Same
    BY <1>4, SameCredit DEF WaitCall, kernel, ssimsg, Holding, Owed, Registered
  <2> QED BY <2>1, <1>b
<1>5. ASSUME NEW value, WaitReturns(c, t, value)
      PROVE  UNCHANGED <<m_events, key, ssimsg>> /\ semval' = value
  <2>1. {e \in Objs : semOf[e] # NoSem /\ ~Held(m_events, waits', e)} = {}
    BY DEF SoleInv, Held
  <2> QED BY <1>5, <2>1 DEF WaitReturns, Release, Destroy
<1>6. CASE WaitOk(c, t)
  <2>1. waits[c][t] \in m_events[c]
    BY <1>6 DEF WaitOk, SoleInv
  <2>2. \A e \in m_events[c] : e = waits[c][t]
    BY <2>1 DEF SoleInv
  <2>3. \A e \in m_events[c] : owed'[e] = FALSE
    BY <1>6, <2>2 DEF WaitOk, TypeOK
  <2>4. UNCHANGED <<m_events, key, ssimsg>> /\ semval' = semval - 1 /\ semval > 0
    BY <1>5, <1>6 DEF WaitOk
  <2>5. InFlight' = InFlight
    BY <2>4 DEF InFlight, ssimsg
  <2>6. Credit > 0 /\ Credit' = Credit - 1
    BY <2>4, <2>5, InFlightFinite DEF Credit, TypeOK
  <2>7. Holding /\ Holding' /\ ~Owed'
    BY <1>a, <2>1, <2>3, <2>4 DEF Holding, Owed
  <2>8. Service!Deliver
    BY <2>6, <2>7 DEF Service!Deliver
  <2> QED BY <2>8 DEF Service!Next
<1>7. CASE WaitFails(c, t)
  <2>1. UNCHANGED <<m_events, key, ssimsg, semval, owed>>
    BY <1>5, <1>7 DEF WaitFails
  <2>2. Same
    BY <2>1, SameCredit DEF Holding, Owed, Registered
  <2> QED BY <2>2, <1>b
<1>8. CASE Crash(c)
  <2>1. m_events'[c] = {} /\ UNCHANGED <<key, semval, ssimsg>>
    BY <1>8 DEF Crash, TypeOK
  <2>2. ~Holding' /\ ~Owed' /\ Credit' = Credit
    BY <1>a, <2>1, SameCredit DEF Holding, Owed
  <2>3. CASE Holding
    <3>1. Service!Die
      BY <2>2, <2>3 DEF Service!Die
    <3> QED BY <3>1 DEF Service!Next
  <2>4. CASE ~Holding
    <3>1. Same
      BY <1>a, <1>c, <2>2, <2>4 DEF Holding, Owed
    <3> QED BY <3>1, <1>b
  <2> QED BY <2>3, <2>4
<1>9. ASSUME NEW p \in Posters, MsgSemGet(p) PROVE [Service!Next]_(Service!service)
  <2>1. UNCHANGED <<m_events, key, semval>> /\ pc[p] = "semget"
    BY <1>9 DEF MsgSemGet, consumer, kernel
  <2>2. Owed' = Holding /\ Holding' = Holding
    <3>1. \A e \in m_events[c] : owed'[e] = TRUE
      BY <1>9, <1>a DEF MsgSemGet, TypeOK
    <3>2. Owed' <=> Holding
      BY <1>a, <2>1, <3>1 DEF Owed, Holding
    <3>3. Holding' = Holding
      BY <1>a, <2>1 DEF Holding
    <3> QED BY <1>c, <3>2, <3>3
  <2>3. CASE key = NoSem
    <3>1. UNCHANGED ssimsg
      BY <1>9, <2>3 DEF MsgSemGet
    <3>2. m_events[c] = {}
      BY <2>3 DEF SoleInv
    <3>3. ~Owed /\ ~Owed' /\ Credit' = Credit
      BY <1>a, <2>1, <3>1, <3>2, SameCredit DEF Owed
    <3>4. Same
      BY <1>c, <2>2, <3>3
    <3> QED BY <3>4, <1>b
  <2>4. CASE key # NoSem
    <3>1. /\ pc' = [pc EXCEPT ![p] = "getval"]
          /\ sid' = [sid EXCEPT ![p] = key]
      BY <1>9, <2>4 DEF MsgSemGet
    <3>2. p \notin InFlight /\ InFlight' = InFlight \cup {p}
      BY <2>1, <3>1 DEF InFlight, TypeOK
    <3>3. Cardinality(InFlight') = Cardinality(InFlight) + 1
      BY <3>2, InFlightFinite, FS_AddElement
    <3>4. Credit' = Credit + 1
      BY <2>1, <3>3, InFlightFinite DEF Credit, TypeOK
    <3>5. Service!Occurs
      BY <2>2, <3>4 DEF Service!Occurs
    <3> QED BY <3>5 DEF Service!Next
  <2> QED BY <2>3, <2>4
<1>10. ASSUME NEW p \in Posters, MsgGetVal(p) PROVE [Service!Next]_(Service!service)
  <2>1. UNCHANGED <<consumer, key, semval, sid, owed>> /\ pc[p] = "getval"
    BY <1>10 DEF MsgGetVal, kernel
  <2>2. UNCHANGED <<Holding, Owed>>
    BY <2>1 DEF consumer, Holding, Owed, Registered
  <2>3. CASE sid[p] = key /\ semval # 0
    <3>1. p \in InFlight /\ InFlight' = InFlight \ {p}
      BY <1>10, <2>1, <2>3 DEF MsgGetVal, InFlight, TypeOK
    <3>2. Cardinality(InFlight') = Cardinality(InFlight) - 1
      BY <3>1, InFlightFinite, FS_RemoveElement
    <3>3. Credit' = Credit - 1 /\ Credit > 1
      BY <2>1, <2>3, <3>2, InFlightFinite DEF Credit, TypeOK
    <3>4. Service!Merge
      BY <2>2, <3>3 DEF Service!Merge
    <3> QED BY <3>4 DEF Service!Next
  <2>4. CASE ~(sid[p] = key /\ semval # 0)
    <3>1. InFlight' = InFlight
      BY <1>10, <2>1, <2>4 DEF MsgGetVal, InFlight, TypeOK
    <3>2. Same
      BY <2>1, <2>2, <3>1 DEF Credit
    <3> QED BY <3>2, <1>b
  <2> QED BY <2>3, <2>4
<1>11. ASSUME NEW p \in Posters, MsgSemOp(p) PROVE [Service!Next]_(Service!service)
  <2>1. UNCHANGED <<consumer, key, sid, owed>> /\ pc[p] = "semop"
    BY <1>11 DEF MsgSemOp
  <2>2. UNCHANGED <<Holding, Owed>>
    BY <2>1 DEF consumer, Holding, Owed, Registered
  <2>3. CASE sid[p] = key
    <3>1. p \in InFlight /\ InFlight' = InFlight \ {p}
      BY <1>11, <2>1, <2>3 DEF MsgSemOp, InFlight, TypeOK
    <3>2. Cardinality(InFlight') = Cardinality(InFlight) - 1
      BY <3>1, InFlightFinite, FS_RemoveElement
    <3>3. semval' = semval + 1
      BY <1>11, <2>3 DEF MsgSemOp
    <3>4. Same
      BY <2>2, <3>2, <3>3, InFlightFinite DEF Credit, TypeOK
    <3> QED BY <3>4, <1>b
  <2>4. CASE sid[p] # key
    <3>1. InFlight' = InFlight /\ semval' = semval
      BY <1>11, <2>1, <2>4 DEF MsgSemOp, InFlight, TypeOK
    <3>2. Same
      BY <2>2, <3>1 DEF Credit
    <3> QED BY <3>2, <1>b
  <2> QED BY <2>3, <2>4
<1>12. CASE UNCHANGED vars
  <2>1. Same
    BY <1>12, SameCredit DEF vars, consumer, kernel, ssimsg, Holding, Owed, Registered
  <2> QED BY <2>1, <1>b
<1> QED
  BY <1>1, <1>2, <1>3, <1>4, <1>6, <1>7, <1>8, <1>9, <1>10, <1>11, <1>12
  DEF Next, Manage, WaitEnds, MsgRuns

(* To one client calling from one thread, the semaphore and any number of   *)
(* ssimsg provide the abstract service, whatever their interleaving.        *)
THEOREM SoleServiceProvided ==
  ASSUME NEW c, NEW t, Clients = {c}, Threads = {t}
  PROVE  Spec => ServiceProvided
<1>1. Init => BoundInv /\ SoleInv(c, t)
  <2> SUFFICES ASSUME Init PROVE BoundInv /\ SoleInv(c, t)
    OBVIOUS
  <2>1. SoleInv(c, t)
    BY DEF Init, SoleInv, NoLostEvent, Registered
  <2> QED BY <2>1, BoundInit
<1>2. Init => Service!Init
  <2> SUFFICES ASSUME Init PROVE Service!Init
    OBVIOUS
  <2>1. Registered = {} /\ InFlight = {} /\ semval = 0
    BY DEF Init, Registered, InFlight
  <2> QED BY <2>1, FS_EmptySet DEF Service!Init, Holding, Credit, Owed
<1>3. TypeOK /\ TypeOK' /\ SemIds_OK /\ SoleInv(c, t) /\ [Next]_vars => SoleInv(c, t)'
  BY SoleStep
<1>4. TypeOK /\ TypeOK' /\ SemIds_OK /\ SemIds_OK' /\ SoleInv(c, t) /\ SoleInv(c, t)' /\ [Next]_vars
        => [Service!Next]_(Service!service)
  BY SoleServiceStep
<1>5. BoundInv => SemIds_OK
  BY DEF BoundInv
<1> QED
  BY <1>1, <1>2, <1>3, <1>4, <1>5, BoundStep, TypeCorrect, PTL
  DEF Spec, ServiceProvided, Service!Spec
=============================================================================
