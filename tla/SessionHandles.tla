--------------------------- MODULE SessionHandles ---------------------------
(***************************************************************************)
(* Sessions and object handles: SessionManager, the HandleManager of the   *)
(* ContextManager, and the two kinds of Session the API makes.             *)
(*                                                                         *)
(* SsiSessionOpen builds a Session, registers it, discovers the hardware   *)
(* into it and gives every discovered object the next free handle; the     *)
(* consumer reads handles from it until SsiSessionClose.  Every call that  *)
(* changes something instead builds a temporary Session of its own,        *)
(* discovers the hardware again, and looks the caller's handle up among    *)
(* the objects of that one.  Both draw handles from one HandleManager.     *)
(* Nothing is locked: threads interleave between any two accesses to the   *)
(* maps (an access of std::map is one step here).  Memory may run out      *)
(* wherever an object is put into a map or a list.                         *)
(***************************************************************************)
EXTENDS Integers, FiniteSets

CONSTANTS
  Threads,     \* the threads of the consumer
  NumDevices,  \* devices that may be in the system, in discovery order
  Slots,       \* Session objects (storage; reused once destroyed)
  MaxHandle,   \* the largest SSI_Handle
  MaxOrphans   \* bound: objects that are registered and in no Session

ASSUME NumDevicesAssumption == NumDevices \in Nat
ASSUME MaxHandleAssumption == MaxHandle \in Nat \ {0}
ASSUME MaxOrphansAssumption == MaxOrphans \in Nat
ASSUME SlotsAssumption == "none" \notin Slots

VARIABLES
  ctx,        \* pContextMgr is not NULL
  hw,         \* the devices now in the system
  m_sessions, \* the map of SessionManager: handle -> Session, or NoSlot
  m_objects,  \* the map of HandleManager<Object>: handle -> object, Orphan or
              \* NoObject
  devs,       \* devs[s]: the devices Session s discovered (its containers)
  m_handle,   \* m_handle[s][d]: the handle of the object for d in s
  call,       \* call[t]: the API call t is in
  mem,        \* the handle the consumer last got from a session and passes to
              \* the operations, with what it stands for: its device, its
              \* session while that is open, and whether it was numbered from
              \* 1 in today's hardware
  fresh,      \* history, fresh[s]: live Session s was numbered from 1, alone,
              \* and nothing was plugged since
  excused     \* history: two discoveries overlapped, or handles or memory ran
              \* out, since SsiInitialize

maps == <<m_sessions, m_objects, devs, m_handle>>
vars == <<ctx, hw, maps, call, mem, fresh, excused>>

SSI_NULL_HANDLE == 0
NoSlot == "none"
Devices == 1 .. NumDevices
Handles == 1 .. MaxHandle
Objects == [slot : Slots, dev : Devices]
NoObject == [slot |-> NoSlot, dev |-> 0]
Orphan == [slot |-> NoSlot, dev |-> -1]  \* an object in no Session's container
Calls == [op : {"none", "open", "operate", "read", "destroy"},
          step : {"idle", "insert", "discover", "add", "read", "destroy"},
          slot : Slots \cup {NoSlot}, dev : 0 .. NumDevices + 1,
          unique : Handles \cup {SSI_NULL_HANDLE}]
NoCall == [op |-> "none", step |-> "idle", slot |-> NoSlot, dev |-> 0, unique |-> SSI_NULL_HANDLE]
NoMem == [handle |-> SSI_NULL_HANDLE, dev |-> 0, slot |-> NoSlot, again |-> FALSE]

-----------------------------------------------------------------------------
(* HandleManager *)

Keys(map, none) == {h \in Handles : map[h] # none}

UniqueFromSize(keys) ==
  IF Cardinality(keys) >= MaxHandle THEN SSI_NULL_HANDLE ELSE Cardinality(keys) + 1

UniqueUnchecked(keys) ==
  CHOOSE h \in 1 .. MaxHandle + 1 : h - 1 \in keys \cup {0} /\ \A k \in keys : k < h

(* One more than the last key, NULL when that is the largest handle: a hole *)
(* below the last key is not used.  (An object that has a handle already    *)
(* would keep it: only new objects, with handle NULL, are ever inserted.)   *)
getUniqueHandle(keys) ==
  IF MaxHandle \in keys THEN SSI_NULL_HANDLE
  ELSE CHOOSE h \in Handles : h - 1 \in keys \cup {0} /\ \A k \in keys : k < h

InsertOver(unique, map, none) == unique # SSI_NULL_HANDLE

(* std::map::insert leaves an element that is already there alone. *)
Inserts(unique, map, none) == unique # SSI_NULL_HANDLE /\ map[unique] = none

-----------------------------------------------------------------------------
(* HandleManager::remove, of object d of Session s: what is found under its *)
(* handle leaves the map and loses the handle.                              *)
Remove(s, d) ==
  LET h == m_handle[s][d]
  IN  /\ m_objects' = [x \in Handles |-> IF x = h THEN NoObject ELSE m_objects[x]]
      /\ m_handle' = [x \in Slots |-> [e \in Devices |->
           IF \/ x = s /\ e = d
              \/ h \in Handles /\ m_objects[h] = [slot |-> x, dev |-> e]
           THEN SSI_NULL_HANDLE ELSE m_handle[x][e]]]

(* ~Session, run by the thread that has dropped the last shared_ptr: its    *)
(* objects are removed one by one, in the order of its containers.          *)
First(s) == CHOOSE d \in devs[s] : \A e \in devs[s] : d <= e

DestroyForgets(t) ==
  LET s == call[t].slot
      left == devs[s] \ {First(s)}
  IN  /\ call[t].step = "destroy"
      /\ m_handle' = [m_handle EXCEPT ![s][First(s)] = SSI_NULL_HANDLE]
      /\ devs' = [devs EXCEPT ![s] = left]
      /\ call' = IF left = {} THEN [call EXCEPT ![t] = NoCall] ELSE call
      /\ UNCHANGED <<ctx, hw, m_sessions, m_objects, mem, fresh, excused>>

Destroy(t) ==
  LET s == call[t].slot
      left == devs[s] \ {First(s)}
  IN  /\ call[t].step = "destroy"
      /\ Remove(s, First(s))
      /\ devs' = [devs EXCEPT ![s] = left]
      /\ call' = IF left = {} THEN [call EXCEPT ![t] = NoCall] ELSE call
      /\ UNCHANGED <<ctx, hw, m_sessions, mem, fresh, excused>>

(* A Session lives while the SessionManager or a call has a shared_ptr to it. *)
Referenced(s, sessions, calls) ==
  (\E h \in Handles : sessions[h] = s) \/ (\E t \in Threads : calls[t].slot = s)

Destroying(s) ==
  IF devs[s] = {} THEN NoCall
  ELSE [NoCall EXCEPT !.op = "destroy", !.step = "destroy", !.slot = s]

ReleaseAlways(t, s, sessions, calls) ==
  /\ call' = [calls EXCEPT ![t] = Destroying(s)]
  /\ fresh' = [fresh EXCEPT ![s] = FALSE]

(* Thread t drops a reference to s; sessions and calls are what is left.    *)
Release(t, s, sessions, calls) ==
  IF Referenced(s, sessions, calls) THEN call' = calls /\ UNCHANGED fresh
  ELSE /\ call' = [calls EXCEPT ![t] = Destroying(s)]
       /\ fresh' = [fresh EXCEPT ![s] = FALSE]

Idle(t) == call[t] = NoCall
Initializing(t) == call[t].step \in {"discover", "add"}

(* Session::initialize begins on slot s in call c of thread t. *)
Begin(t, s, c) ==
  LET overlap == \E u \in Threads : Initializing(u)
  IN  /\ call' = [call EXCEPT ![t] = [c EXCEPT !.step = "discover", !.dev = 1]]
      /\ fresh' = [x \in Slots |->
           IF x = s THEN ~overlap /\ Keys(m_objects, NoObject) = {}
           ELSE fresh[x] /\ ~\E u \in Threads : Initializing(u) /\ call[u].slot = x]
      /\ excused' = (excused \/ overlap)

FreeSlot(s) == ~Referenced(s, m_sessions, call)

-----------------------------------------------------------------------------
(* SsiSessionOpen *)

(* HandleManager::insert of the new Session computes its handle ... *)
OpenCall(t) ==
  /\ ctx /\ Idle(t)
  /\ \E s \in Slots :
       /\ FreeSlot(s)
       /\ call' = [call EXCEPT ![t] = [NoCall EXCEPT !.op = "open", !.step = "insert",
            !.slot = s, !.unique = getUniqueHandle(Keys(m_sessions, NoSlot))]]
  /\ UNCHANGED <<ctx, hw, maps, mem, fresh, excused>>

(* ... and inserts it, or the call returns SSI_StatusInsufficientResources: *)
(* the handle is taken or NULL, or there is no memory.                      *)
OpenInsert(t) ==
  LET c == call[t]
  IN  /\ c.step = "insert"
      /\ \/ /\ Inserts(c.unique, m_sessions, NoSlot)
            /\ m_sessions' = [m_sessions EXCEPT ![c.unique] = c.slot]
            /\ Begin(t, c.slot, c)
         \/ /\ call' = [call EXCEPT ![t] = NoCall]
            /\ UNCHANGED <<m_sessions, fresh, excused>>
  /\ UNCHANGED <<ctx, hw, m_objects, devs, m_handle, mem>>

(* SsiDiskClearMetadata and the other calls that change something, with the *)
(* handle the consumer remembers: getTempSession.                           *)
OperateCall(t) ==
  /\ ctx /\ Idle(t) /\ mem # NoMem
  /\ \E s \in Slots :
       FreeSlot(s) /\ Begin(t, s, [NoCall EXCEPT !.op = "operate", !.slot = s])
  /\ UNCHANGED <<ctx, hw, maps, mem>>

-----------------------------------------------------------------------------
(* Session::initialize, one device after another *)

(* The next device is found, and HandleManager::insert computes a handle;   *)
(* or it is not in the system now.                                          *)
Discover(t) ==
  LET c == call[t]
      unique == getUniqueHandle(Keys(m_objects, NoObject))
  IN  /\ c.step = "discover"
      /\ c.dev \in Devices
      /\ IF c.dev \in hw
         THEN /\ call' = [call EXCEPT ![t] = [c EXCEPT !.step = "add", !.unique = unique]]
              /\ excused' = (excused \/ unique = SSI_NULL_HANDLE)
         ELSE /\ call' = [call EXCEPT ![t].dev = c.dev + 1]
              /\ UNCHANGED excused
  /\ UNCHANGED <<ctx, hw, maps, mem, fresh>>

Orphans == {h \in Handles : m_objects[h] = Orphan}

(* ContextManager::add, then Container::add.  The results of both are       *)
(* ignored: an object may be in the Session without a handle, or registered *)
(* and in no Session, or neither.                                           *)
Add(t) ==
  LET c == call[t]
      object == [slot |-> c.slot, dev |-> c.dev]
      inserts == Inserts(c.unique, m_objects, NoObject)
  IN  /\ c.step = "add"
      /\ \E registered \in {inserts, FALSE}, listed \in BOOLEAN :
           /\ registered /\ ~listed => Cardinality(Orphans) < MaxOrphans
           /\ m_objects' = IF ~registered THEN m_objects
                           ELSE [m_objects EXCEPT ![c.unique] = IF listed THEN object ELSE Orphan]
           /\ m_handle' = IF registered /\ listed
                          THEN [m_handle EXCEPT ![c.slot][c.dev] = c.unique] ELSE m_handle
           /\ devs' = IF listed THEN [devs EXCEPT ![c.slot] = @ \cup {c.dev}] ELSE devs
           /\ excused' = (excused \/ ~listed \/ registered # inserts)
      /\ call' = [call EXCEPT ![t] = [c EXCEPT !.step = "discover", !.dev = c.dev + 1,
                                                !.unique = SSI_NULL_HANDLE]]
  /\ UNCHANGED <<ctx, hw, m_sessions, mem, fresh>>

Discovered(t) == call[t].step = "discover" /\ call[t].dev = NumDevices + 1

(* SsiSessionOpen returns the handle. *)
OpenReturns(t) ==
  /\ call[t].op = "open" /\ Discovered(t)
  /\ call' = [call EXCEPT ![t] = NoCall]
  /\ UNCHANGED <<ctx, hw, maps, mem, fresh, excused>>

(* The call ends, and lets its Session go; sessions is what is registered. *)
Return(t, sessions) ==
  /\ m_sessions' = sessions
  /\ Release(t, call[t].slot, sessions, [call EXCEPT ![t] = NoCall])
  /\ UNCHANGED <<m_objects, devs, m_handle>>

Without(s) == [h \in Handles |-> IF m_sessions[h] = s THEN NoSlot ELSE m_sessions[h]]

(* initialize throws (sysfs cannot be read, no memory): the Session is      *)
(* unregistered again and the call fails.                                   *)
InitializeThrows(t) ==
  /\ call[t].step = "discover"
  /\ Return(t, Without(call[t].slot))
  /\ UNCHANGED <<ctx, hw, mem, excused>>

FoundPastFirst(s, h) == {d \in devs[s] : m_handle[s][d] = h /\ \E e \in devs[s] : e < d}

(* What Container::find finds for handle h in Session s. *)
Found(s, h) == {d \in devs[s] : m_handle[s][d] = h}

(* The operation has its effect on the device found, or returns             *)
(* SSI_StatusInvalidHandle; the temporary Session goes either way.          *)
Operate(t) ==
  /\ call[t].op = "operate" /\ Discovered(t)
  /\ Return(t, m_sessions)
  /\ UNCHANGED <<ctx, hw, mem, excused>>

-----------------------------------------------------------------------------
(* SsiGet...Handles with a session: getSession takes a reference, then the  *)
(* handles are copied out of the Session's container.                       *)

Opened(h) ==
  m_sessions[h] # NoSlot /\ ~\E t \in Threads : call[t].op = "open" /\ call[t].slot = m_sessions[h]

ReadCall(t) ==
  /\ ctx /\ Idle(t)
  /\ \E h \in Handles :
       /\ Opened(h)
       /\ call' = [call EXCEPT ![t] = [NoCall EXCEPT !.op = "read", !.step = "read", !.slot = m_sessions[h]]]
  /\ UNCHANGED <<ctx, hw, maps, mem, fresh, excused>>

(* A bound: one handle is followed at a time, to the end of the operations  *)
(* that use it.                                                             *)
Operating == \E t \in Threads : call[t].op = "operate"

Read(t) ==
  LET s == call[t].slot
      open == \E h \in Handles : m_sessions[h] = s
      read == {[handle |-> m_handle[s][d], dev |-> d,
                slot |-> IF open THEN s ELSE NoSlot, again |-> fresh[s]] : d \in devs[s]}
  IN  /\ call[t].step = "read"
      /\ IF Operating \/ read = {} THEN UNCHANGED mem ELSE mem' \in read
      /\ Return(t, m_sessions)
  /\ UNCHANGED <<ctx, hw, excused>>

(* SsiSessionClose: the Session goes now, or with the last call that has it. *)
Close(t) ==
  /\ ctx /\ Idle(t)
  /\ \E h \in Handles :
       LET s == m_sessions[h]
           sessions == [m_sessions EXCEPT ![h] = NoSlot]
       IN  /\ Opened(h)
           /\ m_sessions' = sessions
           /\ Release(t, s, sessions, call)
           /\ mem' = IF mem.slot = s THEN [mem EXCEPT !.slot = NoSlot] ELSE mem
  /\ UNCHANGED <<ctx, hw, m_objects, devs, m_handle, excused>>

-----------------------------------------------------------------------------
(* The library and the system around it *)

SsiInitialize ==
  /\ ~ctx
  /\ ctx' = TRUE
  /\ UNCHANGED <<hw, maps, call, mem, fresh, excused>>

(* SsiFinalize: the consumer has closed its sessions and makes no call.  The *)
(* maps go with the ContextManager, and what is still registered with them.  *)
(* The handle the consumer remembers means nothing from here on.             *)
SsiFinalize ==
  /\ ctx
  /\ \A t \in Threads : Idle(t)
  /\ Keys(m_sessions, NoSlot) = {}
  /\ ctx' = FALSE
  /\ m_objects' = [h \in Handles |-> NoObject]
  /\ mem' = NoMem
  /\ excused' = FALSE
  /\ UNCHANGED <<hw, m_sessions, devs, m_handle, call, fresh>>

(* A device is plugged in or pulled. *)
Hotplug ==
  /\ \E d \in Devices : hw' = IF d \in hw THEN hw \ {d} ELSE hw \cup {d}
  /\ fresh' = [s \in Slots |-> FALSE]
  /\ mem' = [mem EXCEPT !.again = FALSE]
  /\ UNCHANGED <<ctx, maps, call, excused>>

-----------------------------------------------------------------------------
Init ==
  /\ ctx = FALSE
  /\ hw \in SUBSET Devices
  /\ m_sessions = [h \in Handles |-> NoSlot]
  /\ m_objects = [h \in Handles |-> NoObject]
  /\ devs = [s \in Slots |-> {}]
  /\ m_handle = [s \in Slots |-> [d \in Devices |-> SSI_NULL_HANDLE]]
  /\ call = [t \in Threads |-> NoCall]
  /\ mem = NoMem
  /\ fresh = [s \in Slots |-> FALSE]
  /\ excused = FALSE

Next ==
  \/ SsiInitialize
  \/ SsiFinalize
  \/ Hotplug
  \/ \E t \in Threads : OpenCall(t)
  \/ \E t \in Threads : OpenInsert(t)
  \/ \E t \in Threads : OperateCall(t)
  \/ \E t \in Threads : Discover(t)
  \/ \E t \in Threads : Add(t)
  \/ \E t \in Threads : InitializeThrows(t)
  \/ \E t \in Threads : OpenReturns(t)
  \/ \E t \in Threads : Operate(t)
  \/ \E t \in Threads : ReadCall(t)
  \/ \E t \in Threads : Read(t)
  \/ \E t \in Threads : Close(t)
  \/ \E t \in Threads : Destroy(t)

Spec == Init /\ [][Next]_vars

-----------------------------------------------------------------------------
(* Every variable has its type. *)
TypeOK ==
  /\ ctx \in BOOLEAN
  /\ hw \in SUBSET Devices
  /\ m_sessions \in [Handles -> Slots \cup {NoSlot}]
  /\ m_objects \in [Handles -> Objects \cup {Orphan, NoObject}]
  /\ devs \in [Slots -> SUBSET Devices]
  /\ m_handle \in [Slots -> [Devices -> Handles \cup {SSI_NULL_HANDLE}]]
  /\ call \in [Threads -> Calls]
  /\ mem \in [handle : Handles \cup {SSI_NULL_HANDLE}, dev : Devices \cup {0},
              slot : Slots \cup {NoSlot}, again : BOOLEAN]
  /\ fresh \in [Slots -> BOOLEAN]
  /\ excused \in BOOLEAN

(* The HandleManager and the objects agree: an object that has a handle is  *)
(* the one the map has under it, so no two live objects share a handle, of  *)
(* one session or of two, whatever the threads do.                          *)
HandlesUnique ==
  \A s \in Slots : \A d \in devs[s] :
    m_handle[s][d] # SSI_NULL_HANDLE => m_objects[m_handle[s][d]] = [slot |-> s, dev |-> d]

(* Nothing stays registered after its Session: an entry of the HandleManager *)
(* is an object of a Session that is open or in use by a call, whether the   *)
(* Session was closed, failed to open, or was temporary; the call that       *)
(* destroys it is the last.  Only when memory has run out (or, with it, what *)
(* excused remembers) there may be an object that no Session will remove.    *)
NoStaleObject ==
  \A h \in Handles : m_objects[h] # NoObject =>
    LET o == m_objects[h]
    IN  \/ o = Orphan /\ excused
        \/ /\ o # Orphan
           /\ o.dev \in devs[o.slot] /\ m_handle[o.slot][o.dev] = h
           /\ Referenced(o.slot, m_sessions, call)

(* An open session is a snapshot: while it stays open, or a call still reads *)
(* it, its devices and their handles stay as they are, whatever is opened,   *)
(* closed, operated or plugged meanwhile.                                    *)
Settled(s) ==
  \/ \E h \in Handles : Opened(h) /\ m_sessions[h] = s
  \/ \E t \in Threads : call[t].op = "read" /\ call[t].slot = s
SnapshotStable ==
  [][\A s \in Slots : Settled(s) => devs'[s] = devs[s] /\ m_handle'[s] = m_handle[s]]_vars

(* t is about to look the remembered handle up in its temporary Session. *)
LooksUp(t) == call[t].op = "operate" /\ Discovered(t)

(* A handle that was numbered from 1 and is used when nothing else has      *)
(* handles, with no device plugged in between, finds its device: this is    *)
(* what lets a consumer open, read, close and then operate at all.          *)
ReproducibleHandleFound ==
  \A t \in Threads : LooksUp(t) /\ mem.again /\ fresh[call[t].slot] /\ ~excused =>
    Found(call[t].slot, mem.handle) = {mem.dev}

(* Unless two discoveries overlapped (the second may compute the handle the *)
(* first is about to take, and std::map keeps the first), or handles or     *)
(* memory ran out, every device of a session has a handle.                  *)
HandlesAssigned ==
  ~excused => \A s \in Slots : \A d \in devs[s] : m_handle[s][d] # SSI_NULL_HANDLE

(* ssi_types.3: a handle is not used again for another device, so an        *)
(* operation reaches the device its handle was issued for or none.          *)
OperationHitsItsTarget ==
  \A t \in Threads : LooksUp(t) => Found(call[t].slot, mem.handle) \subseteq {mem.dev}

(* SsiSessionOpen.3: handles are valid across all sessions, so an operation *)
(* with the handle of a device, from a session that is still open, finds    *)
(* this device when its temporary session has it too.                       *)
HandlesValidAcrossSessions ==
  \A t \in Threads :
    LooksUp(t) /\ mem.slot # NoSlot /\ mem.dev \in devs[call[t].slot] /\ ~excused =>
      Found(call[t].slot, mem.handle) = {mem.dev}
=============================================================================
