--------------------------- MODULE EventSemaphore ---------------------------
(***************************************************************************)
(* Event notification: EventManager and Event of the library, the System V *)
(* semaphore they share through one IPC key with the ssimsg program, and   *)
(* ssimsg itself.                                                          *)
(*                                                                         *)
(* A client is a process that has loaded the library.  SsiGetEventHandle   *)
(* inserts an Event in the process's EventManager and opens the semaphore; *)
(* SsiEventWait holds the Event (a shared_ptr) across a blocking           *)
(* semtimedop(-1); SsiFreeEventHandle drops the manager's reference; the   *)
(* last reference to go runs ~Event, which removes the semaphore from the  *)
(* system.  ssimsg looks the semaphore up, reads its value and posts only  *)
(* if it read 0: three system calls, with anything in between.             *)
(***************************************************************************)
EXTENDS Integers, FiniteSets

CONSTANTS
  Clients,  \* processes that use the library
  Threads,  \* the API-calling threads of each client
  Objs,     \* Event objects (storage; reused once destroyed)
  Posters,  \* ssimsg processes that may run at the same time
  MaxSem    \* bound: semaphores created in a behaviour

ASSUME PostersAssumption == IsFiniteSet(Posters)
ASSUME MaxSemAssumption == MaxSem \in Nat
ASSUME ObjsAssumption == "none" \notin Objs

VARIABLES
  ctx,      \* ctx[c]: pContextMgr is not NULL in c
  m_events, \* m_events[c]: the Events registered in c's EventManager
  semOf,    \* semOf[e]: m_semId of Event e, NoSem where e does not exist
  waits,    \* waits[c][t]: the Event t is inside Event::wait of, or NoObj
  key,      \* the semaphore the IPC key names, or NoSem
  semval,   \* its value
  nextSem,  \* semaphores created so far: identifiers are not reused
  pc,       \* pc[p]: the next system call of ssimsg p
  sid,      \* sid[p]: the identifier its semget returned
  owed,     \* history, owed[e]: an ssimsg was started since e was
            \* registered or last returned an event from SsiEventWait
  crashed   \* history: some client died without running its destructors

consumer == <<ctx, m_events, waits>>
kernel == <<semOf, key, semval, nextSem>>
ssimsg == <<pc, sid>>
vars == <<consumer, kernel, ssimsg, owed, crashed>>

NoSem == 0
NoObj == "none"
SemIds == 1 .. MaxSem

(* The size limit of the map of EventManager. *)
TwoHandles == 2
MAX_EVENT_HANDLES == 1

-----------------------------------------------------------------------------
(* References: an Event lives while the manager or a waiting thread holds a *)
(* shared_ptr to it.                                                        *)

Held(events, waiting, e) ==
  \/ \E c \in Clients : e \in events[c]
  \/ \E c \in Clients, t \in Threads : waiting[c][t] = e

Destroy(gone, value) ==
  /\ semOf' = [e \in Objs |-> IF e \in gone THEN NoSem ELSE semOf[e]]
  /\ IF \E e \in gone : semOf[e] = key
     THEN key' = NoSem /\ semval' = 0
     ELSE key' = key /\ semval' = value

ReleaseIgnoringWaits(events, waiting, value) ==
  Destroy({e \in Objs : semOf[e] # NoSem /\ \A c \in Clients : e \notin events[c]}, value)

ReleaseKeepsSemaphore(events, waiting, value) ==
  /\ semOf' = [e \in Objs |-> IF Held(events, waiting, e) THEN semOf[e] ELSE NoSem]
  /\ key' = key /\ semval' = value

(* ~Event of every Event left without a reference: semctl(IPC_RMID) of its  *)
(* m_semId, which fails and changes nothing when that is removed already;   *)
(* value is the semaphore's if it stays.                                    *)
Release(events, waiting, value) ==
  Destroy({e \in Objs : semOf[e] # NoSem /\ ~Held(events, waiting, e)}, value)

-----------------------------------------------------------------------------
(* The API calls of a client; a thread blocked in SsiEventWait makes none. *)

(* SsiInitialize: a new ContextManager with an empty EventManager. *)
Initialize(c) ==
  /\ ~ctx[c]
  /\ ctx' = [ctx EXCEPT ![c] = TRUE]
  /\ UNCHANGED <<m_events, waits, kernel, ssimsg, owed, crashed>>

(* semget(key, 1, IPC_CREAT | 0600): there is no IPC_EXCL, so a semaphore   *)
(* some other client or an earlier crash left behind is used as it is.      *)
SemGetCreate(e) ==
  \/ /\ key # NoSem
     /\ semOf' = [semOf EXCEPT ![e] = key]
     /\ UNCHANGED <<key, semval, nextSem>>
  \/ /\ key = NoSem
     /\ nextSem < MaxSem
     /\ nextSem' = nextSem + 1
     /\ key' = nextSem'
     /\ semval' = 0
     /\ semOf' = [semOf EXCEPT ![e] = nextSem']

(* SsiGetEventHandle.  A failed semget unregisters the new Event again and  *)
(* leaves everything as it was.                                             *)
GetEventHandle(c) ==
  /\ ctx[c]
  /\ Cardinality(m_events[c]) # MAX_EVENT_HANDLES
  /\ \E e \in Objs :
       /\ semOf[e] = NoSem
       /\ SemGetCreate(e)
       /\ m_events' = [m_events EXCEPT ![c] = @ \cup {e}]
       /\ owed' = [owed EXCEPT ![e] = FALSE]
  /\ UNCHANGED <<ctx, waits, ssimsg, crashed>>

(* SsiFreeEventHandle: no check that a thread still waits on the handle. *)
FreeEventHandle(c) ==
  /\ ctx[c]
  /\ \E e \in m_events[c] :
       LET events == [m_events EXCEPT ![c] = @ \ {e}]
       IN  /\ m_events' = events
           /\ Release(events, waits, semval)
           /\ owed' = [owed EXCEPT ![e] = FALSE]
  /\ UNCHANGED <<ctx, waits, nextSem, ssimsg, crashed>>

(* SsiFinalize deletes the ContextManager, and ~EventManager unregisters    *)
(* every Event.  The caller has no other call outstanding (SsiFinalize.3).  *)
Finalize(c) ==
  /\ ctx[c]
  /\ \A t \in Threads : waits[c][t] = NoObj
  /\ ctx' = [ctx EXCEPT ![c] = FALSE]
  /\ LET events == [m_events EXCEPT ![c] = {}]
     IN  m_events' = events /\ Release(events, waits, semval)
  /\ owed' = [e \in Objs |-> owed[e] /\ e \notin m_events[c]]
  /\ UNCHANGED <<waits, nextSem, ssimsg, crashed>>

(* SsiEventWait: getEvent takes a reference, semtimedop blocks. *)
WaitCall(c, t) ==
  /\ ctx[c]
  /\ waits[c][t] = NoObj
  /\ \E e \in m_events[c] : waits' = [waits EXCEPT ![c][t] = e]
  /\ UNCHANGED <<ctx, m_events, kernel, ssimsg, owed, crashed>>

(* The call returns and its shared_ptr goes, semop having left value. *)
WaitReturns(c, t, value) ==
  LET waiting == [waits EXCEPT ![c][t] = NoObj]
  IN  /\ waits' = waiting
      /\ Release(m_events, waiting, value)
      /\ UNCHANGED <<ctx, m_events, nextSem, ssimsg, crashed>>

WaitOkUnchecked(c, t) ==
  /\ waits[c][t] # NoObj
  /\ semOf[waits[c][t]] = key
  /\ WaitReturns(c, t, semval - 1)
  /\ owed' = [owed EXCEPT ![waits[c][t]] = FALSE]

(* SSI_StatusOk: semtimedop took one from the semaphore. *)
WaitOk(c, t) ==
  /\ waits[c][t] # NoObj
  /\ semOf[waits[c][t]] = key
  /\ semval > 0
  /\ WaitReturns(c, t, semval - 1)
  /\ owed' = [owed EXCEPT ![waits[c][t]] = FALSE]

(* SSI_StatusTimeout while the value is 0; SSI_StatusFailed once another    *)
(* Event's destructor has removed the semaphore (EIDRM, EINVAL).            *)
WaitFails(c, t) ==
  /\ waits[c][t] # NoObj
  /\ semOf[waits[c][t]] = key => semval = 0
  /\ WaitReturns(c, t, semval)
  /\ UNCHANGED owed

(* The process dies: no destructor runs, the semaphore stays in the system. *)
Crash(c) ==
  /\ ctx[c]
  /\ ctx' = [ctx EXCEPT ![c] = FALSE]
  /\ m_events' = [m_events EXCEPT ![c] = {}]
  /\ waits' = [waits EXCEPT ![c] = [t \in Threads |-> NoObj]]
  /\ semOf' = [e \in Objs |-> IF Held(m_events', waits', e) THEN semOf[e] ELSE NoSem]
  /\ owed' = [e \in Objs |-> owed[e] /\ e \notin m_events[c]]
  /\ crashed' = TRUE
  /\ UNCHANGED <<key, semval, nextSem, ssimsg>>

-----------------------------------------------------------------------------
(* ssimsg, started whenever something has changed in the system *)

Registered == UNION {m_events[c] : c \in Clients}

(* ftok, semget(key, 1, 0600): exits with -1 when there is no semaphore. *)
MsgSemGet(p) ==
  /\ pc[p] = "semget"
  /\ owed' = [e \in Objs |-> owed[e] \/ e \in Registered]
  /\ IF key = NoSem
     THEN UNCHANGED ssimsg
     ELSE /\ pc' = [pc EXCEPT ![p] = "getval"]
          /\ sid' = [sid EXCEPT ![p] = key]
  /\ UNCHANGED <<consumer, kernel, crashed>>

MsgGetValSkips(p) ==
  /\ pc[p] = "getval"
  /\ pc' = [pc EXCEPT ![p] = IF sid[p] = key THEN "semop" ELSE "semget"]
  /\ UNCHANGED <<consumer, kernel, sid, owed, crashed>>

MsgGetValInverted(p) ==
  /\ pc[p] = "getval"
  /\ pc' = [pc EXCEPT ![p] = IF sid[p] = key /\ semval # 0 THEN "semop" ELSE "semget"]
  /\ UNCHANGED <<consumer, kernel, sid, owed, crashed>>

(* semctl(GETVAL): exits with -1 when the semaphore is gone, with 0 when    *)
(* its value is 1 or more already; otherwise it goes on to post.            *)
MsgGetVal(p) ==
  /\ pc[p] = "getval"
  /\ pc' = [pc EXCEPT ![p] = IF sid[p] = key /\ semval = 0 THEN "semop" ELSE "semget"]
  /\ UNCHANGED <<consumer, kernel, sid, owed, crashed>>

(* semop(+1): exits with -1 when the semaphore is gone by now. *)
MsgSemOp(p) ==
  /\ pc[p] = "semop"
  /\ pc' = [pc EXCEPT ![p] = "semget"]
  /\ semval' = IF sid[p] = key THEN semval + 1 ELSE semval
  /\ UNCHANGED <<consumer, semOf, key, nextSem, sid, owed, crashed>>

-----------------------------------------------------------------------------
Init ==
  /\ ctx = [c \in Clients |-> FALSE]
  /\ m_events = [c \in Clients |-> {}]
  /\ semOf = [e \in Objs |-> NoSem]
  /\ waits = [c \in Clients |-> [t \in Threads |-> NoObj]]
  /\ key = NoSem
  /\ semval = 0
  /\ nextSem = 0
  /\ pc = [p \in Posters |-> "semget"]
  /\ sid = [p \in Posters |-> NoSem]
  /\ owed = [e \in Objs |-> FALSE]
  /\ crashed = FALSE

Manage(c) == Initialize(c) \/ GetEventHandle(c) \/ FreeEventHandle(c) \/ Finalize(c)
Idle(c, t) == waits[c][t] = NoObj
WaitEnds(c, t) == WaitOk(c, t) \/ WaitFails(c, t)
MsgRuns(p) == MsgGetVal(p) \/ MsgSemOp(p)

Next ==
  \/ \E c \in Clients, t \in Threads : Idle(c, t) /\ Manage(c)
  \/ \E c \in Clients : Crash(c)
  \/ \E c \in Clients, t \in Threads : WaitCall(c, t)
  \/ \E c \in Clients, t \in Threads : WaitEnds(c, t)
  \/ \E p \in Posters : MsgSemGet(p)
  \/ \E p \in Posters : MsgRuns(p)

Spec == Init /\ [][Next]_vars

(* A started ssimsg runs to its end and a call that can return does; the    *)
(* consumer of a handle keeps calling SsiEventWait on it.                   *)
Fairness ==
  /\ \A p \in Posters : WF_vars(MsgRuns(p))
  /\ \A c \in Clients, t \in Threads : WF_vars(WaitEnds(c, t)) /\ WF_vars(WaitCall(c, t))

FairSpec == Spec /\ Fairness

-----------------------------------------------------------------------------
(* Every variable has its type. *)
TypeOK ==
  /\ ctx \in [Clients -> BOOLEAN]
  /\ m_events \in [Clients -> SUBSET Objs]
  /\ semOf \in [Objs -> 0 .. MaxSem]
  /\ waits \in [Clients -> [Threads -> Objs \cup {NoObj}]]
  /\ key \in 0 .. MaxSem
  /\ semval \in Nat
  /\ nextSem \in 0 .. MaxSem
  /\ pc \in [Posters -> {"semget", "getval", "semop"}]
  /\ sid \in [Posters -> 0 .. MaxSem]
  /\ owed \in [Objs -> BOOLEAN]
  /\ crashed \in BOOLEAN

(* The ssimsg processes that read 0 from the current semaphore and have yet *)
(* to post to it.                                                           *)
Pending == {p \in Posters : pc[p] = "semop" /\ sid[p] = key}

(* ssimsg's check-then-post is not atomic, so the value does exceed 1; but  *)
(* it, with the posts under way, never exceeds the number of ssimsg that    *)
(* run at once, however long nobody waits (so SEMVMX is out of reach).      *)
SemvalBounded == semval + Cardinality(Pending) <= Cardinality(Posters)

(* A thread inside SsiEventWait is never left with a destroyed Event,       *)
(* whoever frees the handle meanwhile: getEvent's shared_ptr keeps it.      *)
WaiterKeepsEvent ==
  \A c \in Clients, t \in Threads : waits[c][t] # NoObj => semOf[waits[c][t]] # NoSem

(* The semaphore is cleaned up with the last Event that uses it, unless a   *)
(* client died: nothing else in the system removes it.                      *)
SemaphoreHasHolder ==
  key # NoSem /\ ~crashed => \E e \in Objs : semOf[e] = key

(* A handle SsiGetEventHandle returned and nobody freed names a semaphore   *)
(* that ssimsg finds.                                                       *)
HandleUsable == \A e \in Registered : semOf[e] = key

(* An event that occurred (an ssimsg that started) since the handle was     *)
(* obtained or last returned one is never lost: the semaphore holds it, or  *)
(* an ssimsg bound for that semaphore is still running.                     *)
NoLostEvent ==
  \A e \in Registered :
    owed[e] => \/ semOf[e] = key /\ semval > 0
               \/ \E p \in Posters : pc[p] # "semget" /\ sid[p] = semOf[e] /\ sid[p] = key

(* The ssimsg processes that have found the current semaphore.              *)
InFlight == {p \in Posters : pc[p] # "semget" /\ sid[p] = key}

Holding == Registered # {}
Credit == semval + Cardinality(InFlight)
Owed == \E e \in Registered : owed[e]

Service == INSTANCE NotificationService WITH holding <- Holding, credit <- Credit, owed <- Owed

(* To a single caller, the semaphore with the ssimsg on their way to it is  *)
(* the service SsiGetEventHandle.3 promises: no interleaving of ssimsg,     *)
(* timeouts, new handles and crashes loses an event, and SsiEventWait never *)
(* returns one more often than something has changed.                       *)
ServiceProvided == Service!Spec

(* An event that occurred while a handle is registered is returned by a     *)
(* SsiEventWait on it, unless the handle is given up first.                 *)
EventDelivered == \A e \in Objs : owed[e] ~> ~owed[e]
=============================================================================
