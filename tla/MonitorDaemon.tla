---------------------------- MODULE MonitorDaemon ----------------------------
(***************************************************************************)
(* The start and the end of ssieventmonitor.  The first process that takes *)
(* an event handle starts it; every process that finalizes the library     *)
(* kills it.  They find it by /var/run/ssieventmonitor.pid, which the      *)
(* daemon writes after the process that started it has gone on, and which  *)
(* it removes when it ends.                                                 *)
(***************************************************************************)
EXTENDS Naturals, FiniteSets

CONSTANTS
  Clients,     \* processes that load the library
  MaxDaemons,  \* bound: daemons that are started
  MaxFaults    \* bound: calls that fail and processes that die

ASSUME ClientsAssumption == IsFiniteSet(Clients)
ASSUME BoundsAssumption == MaxDaemons \in Nat /\ MaxFaults \in Nat

VARIABLES
  ctx,         \* ctx[c]: pContextMgr is not NULL
  pc,          \* pc[c]: what c does next, "idle" between two calls
  faults,      \* faults so far
  registered,  \* registered[c]: the EventManager of c has an Event
  m_notInitialized,
  pid,         \* pid[c]: what c has read of the pid file
  daemon,      \* daemon[d]: the state of the process d
  started,     \* daemons started so far: process identifiers are not reused
  pidfile,     \* the process the pid file names
  unwatched,   \* history, unwatched[c]: since c last found or started a
               \* daemon one has been killed or has failed, or the one it
               \* found was to die, or it could not start one
  raced        \* history: the pid file was read while a daemon that was
               \* starting was not in it yet, or it could not be in it

vars == <<ctx, pc, faults, registered, m_notInitialized, pid, daemon, started, pidfile, unwatched, raced>>

Daemons == 1 .. MaxDaemons
NoPid == 0

Serving(d) == daemon[d] \in {"forked", "running"}

AnyProcess(d) == d # NoPid

(* processExist; a daemon that has a signal to die of is still there.       *)
ProcessExist(d) == d # NoPid /\ daemon[d] \in {"forked", "running", "dying"}

(* Clients between the decision to start a daemon and the start.            *)
Starting == {c \in Clients : pc[c] \in {"startRead", "startProc", "spawn"}}

(* Whoever counts on a daemon, the process c apart                          *)
CountsOn(x) == registered[x] \/ ~m_notInitialized[x]
AllBut(S) == [x \in Clients |-> unwatched[x] \/ (x \notin S /\ CountsOn(x))]

Fault == faults < MaxFaults /\ faults' = faults + 1

Ready(c) == ctx[c] /\ pc[c] = "idle"
Goto(c, to) == pc' = [pc EXCEPT ![c] = to]

-----------------------------------------------------------------------------
(* The constructor of EventManager, in SsiInitialize                        *)
SsiInitialize(c) ==
  /\ ~ctx[c] /\ pc[c] = "idle"
  /\ ctx' = [ctx EXCEPT ![c] = TRUE]
  /\ UNCHANGED <<pc, faults, registered, m_notInitialized, pid, daemon, started, pidfile, unwatched, raced>>

(* EventManager::registerEvent, the semaphore left to EventSemaphore        *)
RegisterEvent(c) ==
  /\ Ready(c) /\ ~registered[c]
  /\ registered' = [registered EXCEPT ![c] = TRUE]
  /\ IF m_notInitialized[c]
     THEN started + Cardinality(Starting) < MaxDaemons /\ Goto(c, "startRead")
     ELSE UNCHANGED pc
  /\ UNCHANGED <<ctx, faults, m_notInitialized, pid, daemon, started, pidfile, unwatched, raced>>

UnregisterEvent(c) ==
  /\ Ready(c) /\ registered[c]
  /\ registered' = [registered EXCEPT ![c] = FALSE]
  /\ UNCHANGED <<ctx, pc, faults, m_notInitialized, pid, daemon, started, pidfile, unwatched, raced>>

(* The next EventManager of the process is a new one.                       *)
StaleManager(c) == UNCHANGED m_notInitialized
FreshManager(c) == m_notInitialized' = [m_notInitialized EXCEPT ![c] = TRUE]

(* ~EventManager, the beginning of SsiFinalize                              *)
Finalize(c) ==
  /\ Ready(c)
  /\ registered' = [registered EXCEPT ![c] = FALSE]
  /\ FreshManager(c)
  /\ unwatched' = [unwatched EXCEPT ![c] = FALSE]
  /\ Goto(c, "stopRead")
  /\ UNCHANGED <<ctx, faults, pid, daemon, started, pidfile, raced>>

(* readPidFile: the file, then /proc; what follows when there is no such    *)
(* process is "otherwise".                                                  *)
ReadPid(c, from, proc, otherwise) ==
  /\ pc[c] = from
  /\ pid' = [pid EXCEPT ![c] = pidfile]
  /\ Goto(c, IF pidfile = NoPid THEN otherwise ELSE proc)
  /\ raced' = (raced \/ (\E d \in Daemons : daemon[d] = "forked") \/ Starting \ {c} # {})
  /\ UNCHANGED <<ctx, faults, registered, m_notInitialized, daemon, started, pidfile, unwatched>>

Forgotten(c) == pid' = [pid EXCEPT ![c] = NoPid]

(* startEventMonitor                                                        *)
StartRead(c) == ReadPid(c, "startRead", "startProc", "spawn")

StartProc(c) ==
  /\ pc[c] = "startProc"
  /\ Goto(c, IF ProcessExist(pid[c]) THEN "idle" ELSE "spawn")
  /\ unwatched' = [unwatched EXCEPT ![c] = IF ProcessExist(pid[c]) THEN daemon[pid[c]] = "dying" ELSE @]
  /\ Forgotten(c)
  /\ UNCHANGED <<ctx, faults, registered, m_notInitialized, daemon, started, pidfile, raced>>

(* ssieventmonitor --daemonise: the shell returns when the child has closed *)
(* its side of the pipe.                                                    *)
Spawn(c) ==
  /\ pc[c] = "spawn"
  /\ Goto(c, "idle")
  /\ \/ /\ started' = started + 1
        /\ daemon' = [daemon EXCEPT ![started'] = "forked"]
        /\ m_notInitialized' = [m_notInitialized EXCEPT ![c] = FALSE]
        /\ unwatched' = [unwatched EXCEPT ![c] = FALSE]
        /\ UNCHANGED faults
     \/ /\ Fault
        /\ unwatched' = [unwatched EXCEPT ![c] = TRUE]
        /\ UNCHANGED <<started, daemon, m_notInitialized>>
  /\ UNCHANGED <<ctx, registered, pid, pidfile, raced>>

(* stopEventMonitor                                                         *)
StopRead(c) == ReadPid(c, "stopRead", "stopProc", "fini")

StopProc(c) ==
  /\ pc[c] = "stopProc"
  /\ Goto(c, IF ProcessExist(pid[c]) THEN "kill" ELSE "fini")
  /\ pid' = [pid EXCEPT ![c] = IF ProcessExist(@) THEN @ ELSE NoPid]
  /\ UNCHANGED <<ctx, faults, registered, m_notInitialized, daemon, started, pidfile, unwatched, raced>>

Kill(c) ==
  /\ pc[c] = "kill"
  /\ Goto(c, "fini")
  /\ daemon' = [daemon EXCEPT ![pid[c]] = IF ProcessExist(pid[c]) THEN "dying" ELSE @]
  /\ unwatched' = AllBut({c})
  /\ Forgotten(c)
  /\ UNCHANGED <<ctx, faults, registered, m_notInitialized, started, pidfile, raced>>

(* The rest of SsiFinalize                                                  *)
Fini(c) ==
  /\ pc[c] = "fini"
  /\ ctx' = [ctx EXCEPT ![c] = FALSE]
  /\ Goto(c, "idle")
  /\ UNCHANGED <<faults, registered, m_notInitialized, pid, daemon, started, pidfile, unwatched, raced>>

Manage(c) ==
  \/ SsiInitialize(c) \/ RegisterEvent(c) \/ UnregisterEvent(c) \/ Finalize(c)
  \/ StartRead(c) \/ StartProc(c) \/ Spawn(c)
  \/ StopRead(c) \/ StopProc(c) \/ Kill(c) \/ Fini(c)

-----------------------------------------------------------------------------
(* _deamonise, in the child *)

Daemon(d, from, to) == daemon[d] = from /\ daemon' = [daemon EXCEPT ![d] = to]

DaemonFrame == UNCHANGED <<ctx, pc, registered, m_notInitialized, pid, started>>

WritesNothing(d) ==
  /\ Daemon(d, "forked", "running")
  /\ DaemonFrame /\ UNCHANGED <<faults, pidfile, raced, unwatched>>

WritesNextPid(d) ==
  /\ Daemon(d, "forked", "running")
  /\ pidfile' = d + 1
  /\ DaemonFrame /\ UNCHANGED <<faults, raced, unwatched>>

(* A daemon that cannot write its pid runs all the same.                    *)
WritePidFile(d) ==
  /\ Daemon(d, "forked", "running")
  /\ \/ pidfile' = d /\ UNCHANGED <<faults, raced>>
     \/ Fault /\ raced' = TRUE /\ UNCHANGED pidfile
  /\ DaemonFrame /\ UNCHANGED unwatched

(* SIGTERM: the pid file goes, whichever daemon wrote it.                   *)
Terminate(d) ==
  /\ Daemon(d, "dying", "dead")
  /\ pidfile' = NoPid
  /\ DaemonFrame /\ UNCHANGED <<faults, raced, unwatched>>

(* _event_watch gives up and the pid file is removed, or the daemon is      *)
(* killed and it stays.                                                     *)
DaemonFails(d) ==
  /\ \E from \in {"forked", "running"} : Daemon(d, from, "dead")
  /\ Fault
  /\ pidfile' \in {NoPid, pidfile}
  /\ unwatched' = AllBut({})
  /\ DaemonFrame /\ UNCHANGED raced

Daemonise(d) == WritePidFile(d) \/ Terminate(d)

(* A client dies without the destructor that ends the daemon.               *)
ClientDies(c) ==
  /\ ctx[c]
  /\ Fault
  /\ ctx' = [ctx EXCEPT ![c] = FALSE]
  /\ Goto(c, "idle")
  /\ registered' = [registered EXCEPT ![c] = FALSE]
  /\ FreshManager(c)
  /\ unwatched' = [unwatched EXCEPT ![c] = FALSE]
  /\ Forgotten(c)
  /\ raced' = TRUE
  /\ UNCHANGED <<daemon, started, pidfile>>

-----------------------------------------------------------------------------
Init ==
  /\ ctx = [c \in Clients |-> FALSE]
  /\ pc = [c \in Clients |-> "idle"]
  /\ faults = 0
  /\ registered = [c \in Clients |-> FALSE]
  /\ m_notInitialized = [c \in Clients |-> TRUE]
  /\ pid = [c \in Clients |-> NoPid]
  /\ daemon = [d \in Daemons |-> "unborn"]
  /\ started = 0
  /\ pidfile = NoPid
  /\ unwatched = [c \in Clients |-> FALSE]
  /\ raced = FALSE

Next ==
  \/ \E c \in Clients : Manage(c) \/ ClientDies(c)
  \/ \E d \in Daemons : Daemonise(d) \/ DaemonFails(d)

Spec == Init /\ [][Next]_vars

-----------------------------------------------------------------------------
(* Every variable has its type; the pid file and what a process has read of *)
(* it name a process that has been started (_write_pid_file).               *)
TypeOK ==
  /\ ctx \in [Clients -> BOOLEAN]
  /\ pc \in [Clients -> {"idle", "startRead", "startProc", "spawn", "stopRead", "stopProc", "kill", "fini"}]
  /\ faults \in 0 .. MaxFaults
  /\ registered \in [Clients -> BOOLEAN]
  /\ m_notInitialized \in [Clients -> BOOLEAN]
  /\ pid \in [Clients -> 0 .. started]
  /\ daemon \in [Daemons -> {"unborn", "forked", "running", "dying", "dead"}]
  /\ started \in 0 .. MaxDaemons
  /\ pidfile \in 0 .. started
  /\ \A d \in Daemons : daemon[d] = "unborn" <=> d > started
  /\ unwatched \in [Clients -> BOOLEAN]
  /\ raced \in BOOLEAN

(* SsiGetEventHandle.3:65: the consumer receives the events, so that a      *)
(* daemon serves whoever holds a handle; unless, since the holder last      *)
(* found or started one, another process has finalized the library, a       *)
(* daemon has failed or could not be started, or the one found had a signal *)
(* to die of already: nothing starts another one for it then.               *)
HolderWatched ==
  \A c \in Clients :
    registered[c] /\ pc[c] = "idle" => unwatched[c] \/ \E d \in Daemons : Serving(d)

(* SsiFinalize.3:37 "will clean up any internal resources": no daemon is    *)
(* left when the last process has finalized, and of several that run the    *)
(* pid file names one that can be ended; unless a pid file was read before  *)
(* a new daemon was in it, or a process died.                               *)
NoDaemonLeft ==
  (\A c \in Clients : ~ctx[c] /\ pc[c] = "idle") => raced \/ \A d \in Daemons : ~Serving(d)
=============================================================================
