------------------------- MODULE MonitorDaemonProofs -------------------------
(***************************************************************************)
(* Who is served by ssieventmonitor and what is left of it, for any number *)
(* of processes, daemons and faults.  The argument, as long as nobody has  *)
(* read the pid file too early: one process at a time is between reading   *)
(* the pid file and starting a daemon, at most one daemon is alive, the    *)
(* pid file names it once it runs, and somebody who has not read the pid   *)
(* file for the last time is there to end it.                              *)
(***************************************************************************)
EXTENDS MonitorDaemon, FiniteSetTheorems, TLAPS

Alive(d) == daemon[d] \in {"forked", "running", "dying"}
Decides(c) == pc[c] \in {"startProc", "spawn"}
Stops(c) == pc[c] \in {"stopRead", "stopProc", "kill", "fini"}

(* Where a call is goes with what the process has. *)
Shape ==
  \A c \in Clients :
    /\ pc[c] # "idle" => ctx[c]
    /\ Stops(c) => ~registered[c] /\ m_notInitialized[c]

Room == started + Cardinality(Starting) <= MaxDaemons

Watched ==
  \A c \in Clients :
    CountsOn(c) /\ pc[c] = "idle" => unwatched[c] \/ \E d \in Daemons : Serving(d)

(* The processes that will still end the daemon d *)
Keeper(c, d) ==
  \/ ctx[c] /\ pc[c] \notin {"stopProc", "kill", "fini"}
  \/ pc[c] \in {"stopProc", "kill"} /\ pid[c] = d

FileNames == \A d \in Daemons : daemon[d] \in {"running", "dying"} => pidfile = d
OneAlive == \A d, e \in Daemons : Alive(d) /\ Alive(e) => d = e
OneDecides == \A c, x \in Clients : Decides(c) /\ Decides(x) => c = x
ReadIsNotForked == \A c \in Clients, d \in Daemons : pid[c] = d => daemon[d] # "forked"
DecidesRightly ==
  \A c \in Clients, d \in Daemons :
    Alive(d) => pc[c] # "spawn" /\ (pc[c] = "startProc" => pid[c] = d)
Kept == \A d \in Daemons : Serving(d) => \E c \in Clients : Keeper(c, d)

Ordered == FileNames /\ OneAlive /\ OneDecides /\ ReadIsNotForked /\ DecidesRightly /\ Kept
Orderly == ~raced => Ordered

IInv == TypeOK /\ Shape /\ Room /\ Watched /\ Orderly

-----------------------------------------------------------------------------
(* The actions, by what they change *)

(* The two halves of TypeOK *)
Flags ==
  /\ ctx \in [Clients -> BOOLEAN]
  /\ registered \in [Clients -> BOOLEAN]
  /\ m_notInitialized \in [Clients -> BOOLEAN]
  /\ unwatched \in [Clients -> BOOLEAN]
  /\ raced \in BOOLEAN

Numbers ==
  /\ pc \in [Clients -> {"idle", "startRead", "startProc", "spawn", "stopRead", "stopProc", "kill", "fini"}]
  /\ faults \in 0 .. MaxFaults
  /\ pid \in [Clients -> 0 .. started]
  /\ daemon \in [Daemons -> {"unborn", "forked", "running", "dying", "dead"}]
  /\ started \in 0 .. MaxDaemons
  /\ pidfile \in 0 .. started
  /\ \A d \in Daemons : daemon[d] = "unborn" <=> d > started

LEMMA TypeParts == TypeOK <=> Numbers /\ Flags
BY DEF TypeOK, Numbers, Flags

LEMMA StartingFinite == IsFiniteSet(Starting)
BY ClientsAssumption, FS_Subset DEF Starting

LEMMA InitIInv == Init => IInv
<1> SUFFICES ASSUME Init PROVE IInv
  OBVIOUS
<1>1. Starting = {} /\ Cardinality(Starting) = 0
  BY FS_EmptySet DEF Init, Starting
<1>2. TypeOK
  <2>1. Numbers
    BY BoundsAssumption DEF Init, Numbers, Daemons, NoPid
  <2>2. Flags
    BY DEF Init, Flags
  <2> QED BY <2>1, <2>2, TypeParts
<1>3. Shape /\ Watched
  BY DEF Init, Shape, Stops, Watched, CountsOn
<1>4. Room
  BY <1>1, BoundsAssumption DEF Init, Room
<1>5. Orderly
  BY DEF Init, Orderly, Ordered, FileNames, OneAlive, OneDecides, ReadIsNotForked, DecidesRightly, Kept,
         Alive, Decides, Serving
<1> QED BY <1>2, <1>3, <1>4, <1>5 DEF IInv

(* A process in Starting leaves room for the daemon it is to start. *)
LEMMA RoomToSpawn ==
  ASSUME TypeOK, Room, NEW c \in Clients, pc[c] = "spawn"
  PROVE  started + 1 \in Daemons /\ started < MaxDaemons
<1>1. c \in Starting
  BY DEF Starting
<1>2. Cardinality(Starting) \in Nat /\ Cardinality(Starting) # 0
  BY <1>1, StartingFinite, FS_CardinalityType, FS_EmptySet
<1> QED BY <1>2, BoundsAssumption DEF TypeOK, Room, Daemons

LEMMA FlagsStep == Flags /\ [Next]_vars => Flags'
<1> SUFFICES ASSUME Flags, [Next]_vars PROVE Flags'
  OBVIOUS
<1> USE DEF Flags
<1>1. ASSUME NEW c \in Clients, Manage(c) PROVE Flags'
  BY <1>1 DEF Manage, SsiInitialize, RegisterEvent, UnregisterEvent, Finalize, FreshManager,
     StartRead, StopRead, ReadPid, StartProc, Spawn, StopProc, Kill, AllBut, CountsOn, Fini
<1>2. ASSUME NEW c \in Clients, ClientDies(c) PROVE Flags'
  BY <1>2 DEF ClientDies, FreshManager
<1>3. ASSUME NEW d \in Daemons, Daemonise(d) \/ DaemonFails(d) PROVE Flags'
  BY <1>3 DEF Daemonise, WritePidFile, Terminate, DaemonFails, DaemonFrame, AllBut, CountsOn
<1>4. CASE UNCHANGED vars
  BY <1>4 DEF vars
<1> QED BY <1>1, <1>2, <1>3, <1>4 DEF Next

LEMMA NumbersStep == TypeOK /\ Room /\ [Next]_vars => Numbers'
<1> SUFFICES ASSUME TypeOK, Room, [Next]_vars PROVE Numbers'
  OBVIOUS
<1>0. Numbers
  BY TypeParts
<1> USE BoundsAssumption DEF NoPid, Numbers
<1>1. ASSUME NEW c \in Clients, SsiInitialize(c) \/ UnregisterEvent(c) PROVE Numbers'
  BY <1>0, <1>1 DEF SsiInitialize, UnregisterEvent
<1>2. ASSUME NEW c \in Clients, RegisterEvent(c) PROVE Numbers'
  BY <1>0, <1>2 DEF RegisterEvent, Goto
<1>3. ASSUME NEW c \in Clients, Finalize(c) \/ Fini(c) PROVE Numbers'
  BY <1>0, <1>3 DEF Finalize, Fini, Goto
<1>4. ASSUME NEW c \in Clients, StartRead(c) \/ StopRead(c) PROVE Numbers'
  BY <1>0, <1>4 DEF StartRead, StopRead, ReadPid, Goto
<1>5. ASSUME NEW c \in Clients, StartProc(c) PROVE Numbers'
  BY <1>0, <1>5 DEF StartProc, Goto, Forgotten
<1>6. ASSUME NEW c \in Clients, Spawn(c) PROVE Numbers'
  <2>1. started + 1 \in Daemons /\ started < MaxDaemons
    BY <1>6, RoomToSpawn DEF Spawn
  <2>2. CASE Fault /\ UNCHANGED <<started, daemon>>
    BY <1>0, <1>6, <2>2 DEF Spawn, Goto, Fault
  <2>3. CASE started' = started + 1 /\ daemon' = [daemon EXCEPT ![started + 1] = "forked"] /\ UNCHANGED faults
    <3>1. \A d \in Daemons : daemon'[d] = "unborn" <=> d > started'
      BY <1>0, <2>1, <2>3 DEF Daemons
    <3>2. daemon' \in [Daemons -> {"unborn", "forked", "running", "dying", "dead"}]
      BY <1>0, <2>3
    <3>3. started' \in 0 .. MaxDaemons /\ pid' \in [Clients -> 0 .. started'] /\ pidfile' \in 0 .. started'
      BY <1>0, <1>6, <2>1, <2>3 DEF Spawn
    <3> QED BY <1>0, <1>6, <2>3, <3>1, <3>2, <3>3 DEF Spawn, Goto
  <2> QED BY <1>6, <2>2, <2>3 DEF Spawn
<1>7. ASSUME NEW c \in Clients, StopProc(c) PROVE Numbers'
  BY <1>0, <1>7 DEF StopProc, Goto
<1>8. ASSUME NEW c \in Clients, Kill(c) PROVE Numbers'
  <2>1. daemon' \in [Daemons -> {"unborn", "forked", "running", "dying", "dead"}]
    BY <1>0, <1>8 DEF Kill
  <2>2. \A d \in Daemons : daemon'[d] = "unborn" <=> daemon[d] = "unborn"
    BY <1>0, <1>8 DEF Kill, ProcessExist
  <2> QED BY <1>0, <1>8, <2>1, <2>2 DEF Kill, Goto, Forgotten
<1>9. ASSUME NEW c \in Clients, ClientDies(c) PROVE Numbers'
  BY <1>0, <1>9 DEF ClientDies, Goto, Forgotten, Fault
<1>10. ASSUME NEW d \in Daemons, WritePidFile(d) PROVE Numbers'
  <2>1. d \in 0 .. started
    BY <1>0, <1>10 DEF WritePidFile, Daemon, Daemons
  <2> QED BY <1>0, <1>10, <2>1 DEF WritePidFile, Daemon, DaemonFrame, Fault
<1>11. ASSUME NEW d \in Daemons, Terminate(d) PROVE Numbers'
  BY <1>0, <1>11 DEF Terminate, Daemon, DaemonFrame
<1>12. ASSUME NEW d \in Daemons, DaemonFails(d) PROVE Numbers'
  BY <1>0, <1>12 DEF DaemonFails, Daemon, DaemonFrame, Fault
<1>13. CASE UNCHANGED vars
  BY <1>0, <1>13 DEF vars
<1> QED
  BY <1>1, <1>2, <1>3, <1>4, <1>5, <1>6, <1>7, <1>8, <1>9, <1>10, <1>11, <1>12, <1>13
  DEF Next, Manage, Daemonise

LEMMA TypeStep == TypeOK /\ Room /\ [Next]_vars => TypeOK'
<1>1. TypeOK' <=> Numbers' /\ Flags'
  BY DEF TypeOK, Numbers, Flags
<1> QED BY <1>1, TypeParts, FlagsStep, NumbersStep

LEMMA ShapeStep == TypeOK /\ Shape /\ [Next]_vars => Shape'
<1> SUFFICES ASSUME TypeOK, Shape, [Next]_vars PROVE Shape'
  OBVIOUS
<1>0. Flags /\ pc \in [Clients -> {"idle", "startRead", "startProc", "spawn", "stopRead", "stopProc", "kill", "fini"}]
  BY TypeParts DEF Numbers
<1> USE <1>0 DEF Flags, Shape, Stops, Goto
<1>1. ASSUME NEW c \in Clients, Manage(c) PROVE Shape'
  <2>1. CASE SsiInitialize(c) \/ RegisterEvent(c) \/ UnregisterEvent(c) \/ Finalize(c)
    BY <2>1 DEF SsiInitialize, RegisterEvent, UnregisterEvent, Finalize, FreshManager, Ready
  <2>2. CASE StartRead(c) \/ StartProc(c)
    BY <2>2 DEF StartRead, ReadPid, StartProc
  <2>3. CASE Spawn(c)
    BY <2>3 DEF Spawn
  <2>4. CASE StopRead(c) \/ StopProc(c) \/ Kill(c)
    BY <2>4 DEF StopRead, ReadPid, StopProc, Kill
  <2>5. CASE Fini(c)
    BY <2>5 DEF Fini
  <2> QED BY <1>1, <2>1, <2>2, <2>3, <2>4, <2>5 DEF Manage
<1>2. ASSUME NEW c \in Clients, ClientDies(c) PROVE Shape'
  BY <1>2 DEF ClientDies, FreshManager
<1>3. ASSUME NEW d \in Daemons, Daemonise(d) \/ DaemonFails(d) PROVE Shape'
  BY <1>3 DEF Daemonise, WritePidFile, Terminate, DaemonFails, DaemonFrame
<1>4. CASE UNCHANGED vars
  BY <1>4 DEF vars
<1> QED BY <1>1, <1>2, <1>3, <1>4 DEF Next

(* No step but the start of an event handle takes room, and it has to find it. *)
LEMMA RoomStep == TypeOK /\ Room /\ [Next]_vars => Room'
<1> SUFFICES ASSUME TypeOK, Room, [Next]_vars PROVE Room'
  OBVIOUS
<1>0. Numbers
  BY TypeParts
<1>s. Cardinality(Starting) \in Nat /\ started \in Nat /\ MaxDaemons \in Nat
  BY <1>0, StartingFinite, FS_CardinalityType, BoundsAssumption DEF Numbers
<1>fewer. ASSUME Starting' \subseteq Starting, started' = started PROVE Room'
  <2>1. Cardinality(Starting') \in Nat /\ Cardinality(Starting') <= Cardinality(Starting)
    BY <1>fewer, StartingFinite, FS_Subset, FS_CardinalityType
  <2> QED BY <1>s, <1>fewer, <2>1 DEF Room
<1>1. ASSUME NEW c \in Clients, RegisterEvent(c), m_notInitialized[c] PROVE Room'
  <2>1. started' = started /\ started + Cardinality(Starting) < MaxDaemons
    BY <1>1 DEF RegisterEvent
  <2>2. Starting' = Starting \cup {c} /\ c \notin Starting
    BY <1>0, <1>1 DEF RegisterEvent, Ready, Goto, Starting, Numbers
  <2>3. Cardinality(Starting') = Cardinality(Starting) + 1
    BY <2>2, StartingFinite, FS_AddElement
  <2> QED BY <1>s, <2>1, <2>3 DEF Room
<1>2. ASSUME NEW c \in Clients, Spawn(c) PROVE Room'
  <2>1. Starting' = Starting \ {c} /\ c \in Starting
    BY <1>0, <1>2 DEF Spawn, Goto, Starting, Numbers
  <2>2. Cardinality(Starting') = Cardinality(Starting) - 1
    BY <2>1, StartingFinite, FS_RemoveElement
  <2>3. started' = started + 1 \/ started' = started
    BY <1>2 DEF Spawn
  <2> QED BY <1>s, <2>2, <2>3 DEF Room
<1>3. ASSUME NEW c \in Clients, Manage(c), ~Spawn(c), ~(RegisterEvent(c) /\ m_notInitialized[c]) PROVE Room'
  <2>1. started' = started
    BY <1>3 DEF Manage, SsiInitialize, RegisterEvent, UnregisterEvent, Finalize, StartRead, StopRead,
       ReadPid, StartProc, StopProc, Kill, Fini
  <2>2. Starting' \subseteq Starting
    BY <1>0, <1>3 DEF Numbers, Starting, Goto, Manage, SsiInitialize, RegisterEvent, UnregisterEvent, Finalize,
       StartRead, StopRead, ReadPid, StartProc, StopProc, Kill, Fini
  <2> QED BY <1>fewer, <2>1, <2>2
<1>4. ASSUME NEW c \in Clients, ClientDies(c) PROVE Room'
  BY <1>0, <1>4, <1>fewer DEF ClientDies, Goto, Starting, Numbers
<1>5. ASSUME NEW d \in Daemons, Daemonise(d) \/ DaemonFails(d) PROVE Room'
  <2>1. UNCHANGED <<pc, started>>
    BY <1>5 DEF Daemonise, WritePidFile, Terminate, DaemonFails, DaemonFrame
  <2> QED BY <1>fewer, <2>1 DEF Starting
<1>6. CASE UNCHANGED vars
  BY <1>6, <1>fewer DEF vars, Starting
<1> QED BY <1>1, <1>2, <1>3, <1>4, <1>5, <1>6 DEF Next

(* What a process has read and found alive is a daemon. *)
LEMMA ExistsIsDaemon ==
  ASSUME TypeOK, NEW c \in Clients, ProcessExist(pid[c])
  PROVE  pid[c] \in Daemons
<1>1. pid[c] \in 0 .. started /\ pid[c] # 0 /\ started \in 0 .. MaxDaemons
  BY TypeParts DEF Numbers, ProcessExist, NoPid
<1> QED BY <1>1, BoundsAssumption DEF Daemons

LEMMA WatchedStep == TypeOK /\ Room /\ Shape /\ Watched /\ [Next]_vars => Watched'
<1> SUFFICES ASSUME TypeOK, Room, Shape, Watched, [Next]_vars,
                    NEW x \in Clients, CountsOn(x)', pc'[x] = "idle"
             PROVE  unwatched'[x] \/ \E d \in Daemons : Serving(d)'
  BY DEF Watched
<1>0. Flags /\ pc \in [Clients -> {"idle", "startRead", "startProc", "spawn", "stopRead", "stopProc", "kill", "fini"}]
          /\ daemon \in [Daemons -> {"unborn", "forked", "running", "dying", "dead"}]
  BY TypeParts DEF Numbers
<1>same. ASSUME CountsOn(x), pc[x] = "idle", unwatched'[x] = unwatched[x], daemon' = daemon
         PROVE  unwatched'[x] \/ \E d \in Daemons : Serving(d)'
  BY <1>same DEF Watched, Serving
<1> USE <1>0 DEF Flags, CountsOn, Goto
<1>1. ASSUME NEW c \in Clients, SsiInitialize(c) \/ RegisterEvent(c) \/ UnregisterEvent(c)
      PROVE  CountsOn(x) /\ pc[x] = "idle" /\ unwatched'[x] = unwatched[x] /\ daemon' = daemon
  BY <1>1 DEF SsiInitialize, RegisterEvent, UnregisterEvent, Ready
<1>2. ASSUME NEW c \in Clients, Finalize(c) \/ StartRead(c) \/ StopRead(c) \/ StopProc(c)
      PROVE  CountsOn(x) /\ pc[x] = "idle" /\ unwatched'[x] = unwatched[x] /\ daemon' = daemon
  BY <1>2 DEF Finalize, FreshManager, StartRead, StopRead, ReadPid, StopProc
<1>3. ASSUME NEW c \in Clients, StartProc(c) PROVE unwatched'[x] \/ \E d \in Daemons : Serving(d)'
  <2>1. CASE x = c
    <3>1. ProcessExist(pid[c]) /\ unwatched'[c] = (daemon[pid[c]] = "dying") /\ daemon' = daemon
      BY <1>3, <2>1 DEF StartProc
    <3> QED BY <2>1, <3>1, ExistsIsDaemon DEF ProcessExist, Serving
  <2>2. CASE x # c
    BY <1>3, <2>2, <1>same DEF StartProc
  <2> QED BY <2>1, <2>2
<1>4. ASSUME NEW c \in Clients, Spawn(c) PROVE unwatched'[x] \/ \E d \in Daemons : Serving(d)'
  <2>1. started + 1 \in Daemons
    BY <1>4, RoomToSpawn DEF Spawn
  <2>2. CASE daemon' = [daemon EXCEPT ![started + 1] = "forked"]
    BY <2>1, <2>2 DEF Serving
  <2>3. CASE Fault /\ unwatched' = [unwatched EXCEPT ![c] = TRUE] /\ UNCHANGED <<daemon, m_notInitialized>>
    BY <1>4, <2>3, <1>same DEF Spawn
  <2> QED BY <1>4, <2>2, <2>3 DEF Spawn
<1>5. ASSUME NEW c \in Clients, Kill(c) PROVE unwatched'[x] \/ \E d \in Daemons : Serving(d)'
  BY <1>5 DEF Kill, AllBut
<1>6. ASSUME NEW c \in Clients, Fini(c)
      PROVE  CountsOn(x) /\ pc[x] = "idle" /\ unwatched'[x] = unwatched[x] /\ daemon' = daemon
  BY <1>6 DEF Fini, Shape, Stops
<1>7. ASSUME NEW c \in Clients, ClientDies(c)
      PROVE  CountsOn(x) /\ pc[x] = "idle" /\ unwatched'[x] = unwatched[x] /\ daemon' = daemon
  BY <1>7 DEF ClientDies, FreshManager
<1>8. ASSUME NEW e \in Daemons, WritePidFile(e) PROVE unwatched'[x] \/ \E d \in Daemons : Serving(d)'
  BY <1>8 DEF WritePidFile, Daemon, DaemonFrame, Watched, Serving
<1>9. ASSUME NEW e \in Daemons, Terminate(e) PROVE unwatched'[x] \/ \E d \in Daemons : Serving(d)'
  BY <1>9 DEF Terminate, Daemon, DaemonFrame, Watched, Serving
<1>10. ASSUME NEW e \in Daemons, DaemonFails(e) PROVE unwatched'[x] \/ \E d \in Daemons : Serving(d)'
  BY <1>10 DEF DaemonFails, DaemonFrame, AllBut
<1>11. CASE UNCHANGED vars
  BY <1>11, <1>same DEF vars
<1> QED
  BY <1>same, <1>1, <1>2, <1>3, <1>4, <1>5, <1>6, <1>7, <1>8, <1>9, <1>10, <1>11
  DEF Next, Manage, Daemonise

-----------------------------------------------------------------------------
(* Why the order is kept while nobody reads too early *)

PcType == pc \in [Clients -> {"idle", "startRead", "startProc", "spawn", "stopRead", "stopProc", "kill", "fini"}]
PidType == pid \in [Clients -> 0 .. started]
DaemonType == daemon \in [Daemons -> {"unborn", "forked", "running", "dying", "dead"}]

(* A step of c that changes no daemon and leaves c a keeper, and in no       *)
(* decision, keeps the order.                                               *)
LEMMA QuietStep ==
  ASSUME Flags, PcType, Ordered, NEW c \in Clients,
         ctx' \in [Clients -> BOOLEAN], PcType',
         UNCHANGED <<pid, daemon, pidfile>>,
         \A x \in Clients \ {c} : pc'[x] = pc[x] /\ ctx'[x] = ctx[x],
         ~Decides(c)', \A d \in Daemons : Keeper(c, d) => Keeper(c, d)'
  PROVE  Ordered'
<1>1. FileNames' /\ OneAlive' /\ ReadIsNotForked'
  BY DEF Ordered, FileNames, OneAlive, ReadIsNotForked, Alive
<1>2. OneDecides' /\ DecidesRightly'
  BY DEF Ordered, OneDecides, DecidesRightly, Decides, Alive
<1>3. Kept'
  BY DEF Ordered, Kept, Keeper, Serving
<1> QED BY <1>1, <1>2, <1>3 DEF Ordered

LEMMA ReadStep ==
  ASSUME Flags, PcType, PidType, DaemonType, Shape, Ordered, ~raced', NEW c \in Clients,
         StartRead(c) \/ StopRead(c)
  PROVE  Ordered'
<1>1. /\ \A d \in Daemons : daemon[d] # "forked"
      /\ \A x \in Clients \ {c} : x \notin Starting
      /\ pid' = [pid EXCEPT ![c] = pidfile]
      /\ UNCHANGED <<ctx, daemon, pidfile>>
  BY DEF StartRead, StopRead, ReadPid
<1>2. \A x \in Clients \ {c} : pc'[x] = pc[x] /\ pid'[x] = pid[x]
  BY DEF StartRead, StopRead, ReadPid, Goto, PcType, PidType
<1>3. pid'[c] = pidfile
  BY <1>1 DEF PidType
<1>4. \A d \in Daemons : Alive(d) => pidfile = d /\ pidfile # NoPid
  BY <1>1 DEF Ordered, FileNames, Alive, Daemons, NoPid
<1>5. FileNames' /\ OneAlive' /\ ReadIsNotForked'
  BY <1>1 DEF Ordered, FileNames, OneAlive, ReadIsNotForked, Alive
<1>6. \A x \in Clients \ {c} : ~Decides(x)'
  BY <1>1, <1>2 DEF Starting, Decides
<1>7. OneDecides'
  BY <1>6 DEF OneDecides
<1>8. ASSUME NEW d \in Daemons, Alive(d) PROVE pc'[c] # "spawn" /\ (pc'[c] \in {"startProc", "stopProc"} => pid'[c] = d)
  BY <1>3, <1>4, <1>8 DEF StartRead, StopRead, ReadPid, Goto, PcType
<1>9. DecidesRightly'
  BY <1>1, <1>6, <1>8 DEF DecidesRightly, Decides, Alive
<1>10. Kept'
  <2> SUFFICES ASSUME NEW d \in Daemons, Serving(d) PROVE \E x \in Clients : Keeper(x, d)'
    BY <1>1 DEF Kept, Serving
  <2>1. Alive(d)
    BY DEF Serving, Alive
  <2>2. PICK x \in Clients : Keeper(x, d)
    BY DEF Ordered, Kept
  <2>3. CASE x # c
    BY <1>1, <1>2, <2>2, <2>3 DEF Keeper
  <2>4. CASE x = c
    <3>1. CASE StartRead(c)
      BY <1>1, <2>2, <2>4, <3>1 DEF Keeper, StartRead, ReadPid, Goto, PcType
    <3>2. CASE StopRead(c)
      BY <1>1, <1>8, <1>4, <2>1, <3>2 DEF Keeper, StopRead, ReadPid, Goto, PcType
    <3> QED BY <3>1, <3>2
  <2> QED BY <2>3, <2>4
<1> QED BY <1>5, <1>7, <1>9, <1>10 DEF Ordered

LEMMA StartProcStep ==
  ASSUME Flags, PcType, PidType, DaemonType, Shape, Ordered, NEW c \in Clients, StartProc(c)
  PROVE  Ordered'
<1>1. pc[c] = "startProc" /\ ctx[c] /\ UNCHANGED <<ctx, daemon, pidfile>>
  BY DEF StartProc, Shape
<1>2. \A x \in Clients \ {c} : pc'[x] = pc[x] /\ pid'[x] = pid[x]
  BY DEF StartProc, Goto, Forgotten, PcType, PidType
<1>3. pc'[c] \in {"idle", "spawn"} /\ pid'[c] = NoPid
  BY DEF StartProc, Goto, Forgotten, PcType, PidType
<1>4. FileNames' /\ OneAlive'
  BY <1>1 DEF Ordered, FileNames, OneAlive, Alive
<1>5. ReadIsNotForked'
  BY <1>1, <1>2, <1>3 DEF Ordered, ReadIsNotForked, Daemons, NoPid
<1>6. OneDecides'
  BY <1>1, <1>2, <1>3 DEF Ordered, OneDecides, Decides
<1>7. DecidesRightly'
  <2>1. ASSUME NEW d \in Daemons, Alive(d) PROVE pc'[c] = "idle"
    <3>1. pid[c] = d /\ d # NoPid
      BY <1>1, <2>1 DEF Ordered, DecidesRightly, Daemons, NoPid
    <3>2. ProcessExist(pid[c])
      BY <2>1, <3>1 DEF ProcessExist, Alive
    <3> QED BY <3>2 DEF StartProc, Goto, PcType
  <2> QED BY <1>1, <1>2, <1>3, <2>1 DEF Ordered, DecidesRightly, Alive
<1>8. Kept'
  BY <1>1, <1>2, <1>3 DEF Ordered, Kept, Keeper, Serving
<1> QED BY <1>4, <1>5, <1>6, <1>7, <1>8 DEF Ordered

LEMMA SpawnStep ==
  ASSUME TypeOK, Room, Flags, PcType, PidType, DaemonType, Shape, Ordered, NEW c \in Clients, Spawn(c)
  PROVE  Ordered'
<1>1. /\ pc[c] = "spawn" /\ ctx[c] /\ UNCHANGED <<ctx, pid, pidfile>>
      /\ \A x \in Clients \ {c} : pc'[x] = pc[x]
      /\ pc'[c] = "idle"
  BY DEF Spawn, Shape, Goto, PcType
<1>2. \A d \in Daemons : ~Alive(d)
  BY <1>1 DEF Ordered, DecidesRightly
<1>3. \A x \in Clients : ~Decides(x)'
  BY <1>1 DEF Ordered, OneDecides, Decides
<1>4. OneDecides' /\ DecidesRightly'
  BY <1>3 DEF OneDecides, DecidesRightly, Decides
<1>5. Kept'
  BY <1>1 DEF Kept, Keeper
<1>6. CASE daemon' = [daemon EXCEPT ![started + 1] = "forked"]
  <2>1. started + 1 \in Daemons
    BY <1>1, RoomToSpawn
  <2>2. \A d \in Daemons : daemon'[d] = IF d = started + 1 THEN "forked" ELSE daemon[d]
    BY <1>6 DEF DaemonType
  <2>3. FileNames' /\ OneAlive'
    BY <1>2, <2>2 DEF FileNames, OneAlive, Alive
  <2>4. \A x \in Clients : pid[x] # started + 1
    BY TypeParts DEF Numbers
  <2>5. ReadIsNotForked'
    BY <1>1, <2>2, <2>4 DEF Ordered, ReadIsNotForked
  <2> QED BY <1>4, <1>5, <2>3, <2>5 DEF Ordered
<1>7. CASE UNCHANGED daemon
  BY <1>1, <1>4, <1>5, <1>7 DEF Ordered, FileNames, OneAlive, ReadIsNotForked, Alive
<1> QED BY <1>6, <1>7 DEF Spawn

LEMMA StopProcStep ==
  ASSUME Flags, PcType, PidType, DaemonType, Shape, Ordered, NEW c \in Clients, StopProc(c)
  PROVE  Ordered'
<1>1. pc[c] = "stopProc" /\ UNCHANGED <<ctx, daemon, pidfile>>
  BY DEF StopProc
<1>2. \A x \in Clients \ {c} : pc'[x] = pc[x] /\ pid'[x] = pid[x]
  BY DEF StopProc, Goto, PcType, PidType
<1>3. pc'[c] = (IF ProcessExist(pid[c]) THEN "kill" ELSE "fini") /\ pid'[c] \in {NoPid, pid[c]}
      /\ (ProcessExist(pid[c]) => pid'[c] = pid[c])
  BY DEF StopProc, Goto, PcType, PidType
<1>4. FileNames' /\ OneAlive'
  BY <1>1 DEF Ordered, FileNames, OneAlive, Alive
<1>5. ReadIsNotForked'
  BY <1>1, <1>2, <1>3 DEF Ordered, ReadIsNotForked, Daemons, NoPid
<1>6. OneDecides' /\ DecidesRightly'
  BY <1>1, <1>2, <1>3 DEF Ordered, OneDecides, DecidesRightly, Decides, Alive
<1>7. Kept'
  <2> SUFFICES ASSUME NEW d \in Daemons, Serving(d) PROVE \E x \in Clients : Keeper(x, d)'
    BY <1>1 DEF Kept, Serving
  <2>1. PICK x \in Clients : Keeper(x, d)
    BY DEF Ordered, Kept
  <2>2. CASE x # c
    BY <1>1, <1>2, <2>1, <2>2 DEF Keeper
  <2>3. CASE x = c
    <3>1. pid[c] = d
      BY <1>1, <2>1, <2>3 DEF Keeper
    <3>2. ProcessExist(pid[c])
      BY <3>1 DEF ProcessExist, Serving, Daemons, NoPid
    <3> QED BY <1>3, <3>1, <3>2 DEF Keeper
  <2> QED BY <2>2, <2>3
<1> QED BY <1>4, <1>5, <1>6, <1>7 DEF Ordered

LEMMA KillStep ==
  ASSUME TypeOK, Flags, PcType, PidType, DaemonType, Shape, Ordered, NEW c \in Clients, Kill(c)
  PROVE  Ordered'
<1>1. pc[c] = "kill" /\ UNCHANGED <<ctx, pidfile>>
  BY DEF Kill
<1>2. \A x \in Clients \ {c} : pc'[x] = pc[x] /\ pid'[x] = pid[x]
  BY DEF Kill, Goto, Forgotten, PcType, PidType
<1>3. pc'[c] = "fini" /\ pid'[c] = NoPid
  BY DEF Kill, Goto, Forgotten, PcType, PidType
<1>4. \A d \in Daemons : daemon'[d] = IF d = pid[c] /\ ProcessExist(d) THEN "dying" ELSE daemon[d]
  BY DEF Kill, DaemonType
<1>5. \A d \in Daemons : Alive(d)' <=> Alive(d)
  BY <1>4 DEF Alive, ProcessExist
<1>6. FileNames'
  BY <1>1, <1>4 DEF Ordered, FileNames, ReadIsNotForked, ProcessExist
<1>7. OneAlive'
  BY <1>5 DEF Ordered, OneAlive
<1>8. ReadIsNotForked'
  <2>1. \A d \in Daemons : daemon'[d] = "forked" => daemon[d] = "forked"
    BY <1>4
  <2> QED BY <1>2, <1>3, <2>1 DEF Ordered, ReadIsNotForked, Daemons, NoPid
<1>9. OneDecides'
  BY <1>2, <1>3 DEF Ordered, OneDecides, Decides
<1>10. DecidesRightly'
  BY <1>2, <1>3, <1>5 DEF Ordered, DecidesRightly
<1>11. Kept'
  <2> SUFFICES ASSUME NEW d \in Daemons, Serving(d)' PROVE \E x \in Clients : Keeper(x, d)'
    BY DEF Kept
  <2>1. Serving(d) /\ pid[c] # d
    BY <1>4 DEF Serving, ProcessExist, Daemons, NoPid
  <2>2. PICK x \in Clients : Keeper(x, d)
    BY <2>1 DEF Ordered, Kept
  <2>3. x # c
    BY <1>1, <2>1, <2>2 DEF Keeper
  <2> QED BY <1>1, <1>2, <2>2, <2>3 DEF Keeper
<1> QED BY <1>6, <1>7, <1>8, <1>9, <1>10, <1>11 DEF Ordered

LEMMA DaemonStep ==
  ASSUME Flags, PcType, PidType, DaemonType, Ordered, ~raced', NEW e \in Daemons, Daemonise(e) \/ DaemonFails(e)
  PROVE  Ordered'
<1>1. UNCHANGED <<ctx, pc, pid>> /\ \A d \in Daemons \ {e} : daemon'[d] = daemon[d]
  BY DEF Daemonise, WritePidFile, Terminate, DaemonFails, Daemon, DaemonFrame, DaemonType
<1>2. Alive(e) /\ \A d \in Daemons : Alive(d) => d = e
  BY DEF Daemonise, WritePidFile, Terminate, DaemonFails, Daemon, Alive, Ordered, OneAlive
<1>3. \A d \in Daemons : Alive(d)' => d = e
  BY <1>1, <1>2 DEF Alive
<1>4. OneAlive' /\ OneDecides' /\ DecidesRightly'
  BY <1>1, <1>2, <1>3 DEF Ordered, OneAlive, OneDecides, DecidesRightly, Decides
<1>5. daemon'[e] # "forked" /\ (daemon'[e] \in {"running", "dying"} => pidfile' = e) /\ (Serving(e)' => Serving(e))
  BY DEF Daemonise, WritePidFile, Terminate, DaemonFails, Daemon, DaemonType, Serving
<1>6. FileNames'
  BY <1>3, <1>5 DEF FileNames, Alive
<1>7. ReadIsNotForked'
  BY <1>1, <1>5 DEF Ordered, ReadIsNotForked
<1>8. Kept'
  BY <1>1, <1>5 DEF Ordered, Kept, Keeper, Serving
<1> QED BY <1>4, <1>6, <1>7, <1>8 DEF Ordered

LEMMA OrderlyStep == TypeOK /\ Room /\ Shape /\ Orderly /\ [Next]_vars => Orderly'
<1> SUFFICES ASSUME TypeOK, Room, Shape, Orderly, [Next]_vars, ~raced' PROVE Ordered'
  BY DEF Orderly
<1>1. Flags /\ PcType /\ PidType /\ DaemonType
  BY TypeParts DEF Numbers, PcType, PidType, DaemonType
<1>2. Flags' /\ PcType'
  <2>1. Flags'
    BY <1>1, FlagsStep
  <2>2. PcType'
    BY NumbersStep DEF Numbers, PcType
  <2> QED BY <2>1, <2>2
<1>3. ~raced
  BY DEF Next, vars, Manage, SsiInitialize, RegisterEvent, UnregisterEvent, Finalize, StartRead, StopRead, ReadPid,
     StartProc, Spawn, StopProc, Kill, Fini, ClientDies, Daemonise, WritePidFile, Terminate, DaemonFails
<1>4. Ordered
  BY <1>3 DEF Orderly
<1>5. ASSUME NEW c \in Clients,
             SsiInitialize(c) \/ RegisterEvent(c) \/ UnregisterEvent(c) \/ Finalize(c) \/ Fini(c)
      PROVE  Ordered'
  <2>1. UNCHANGED <<pid, daemon, pidfile>>
    BY <1>5 DEF SsiInitialize, RegisterEvent, UnregisterEvent, Finalize, Fini
  <2>2. \A x \in Clients \ {c} : pc'[x] = pc[x] /\ ctx'[x] = ctx[x]
    BY <1>1, <1>5 DEF SsiInitialize, RegisterEvent, UnregisterEvent, Finalize, Fini, Goto, Flags, PcType
  <2>3. ~Decides(c)'
    BY <1>1, <1>5 DEF SsiInitialize, RegisterEvent, UnregisterEvent, Finalize, Fini, Goto, Ready, PcType, Decides
  <2>4. \A d \in Daemons : Keeper(c, d) => Keeper(c, d)'
    BY <1>1, <1>5 DEF SsiInitialize, RegisterEvent, UnregisterEvent, Finalize, Fini, Goto, Ready, Flags, PcType, Keeper
  <2> QED BY <1>1, <1>2, <1>4, <2>1, <2>2, <2>3, <2>4, QuietStep DEF Flags
<1>6. ASSUME NEW c \in Clients, StartRead(c) \/ StopRead(c) PROVE Ordered'
  BY <1>1, <1>4, <1>6, ReadStep
<1>7. ASSUME NEW c \in Clients, StartProc(c) PROVE Ordered'
  BY <1>1, <1>4, <1>7, StartProcStep
<1>8. ASSUME NEW c \in Clients, Spawn(c) PROVE Ordered'
  BY <1>1, <1>4, <1>8, SpawnStep
<1>9. ASSUME NEW c \in Clients, StopProc(c) PROVE Ordered'
  BY <1>1, <1>4, <1>9, StopProcStep
<1>10. ASSUME NEW c \in Clients, Kill(c) PROVE Ordered'
  BY <1>1, <1>4, <1>10, KillStep
<1>11. ASSUME NEW c \in Clients, ClientDies(c) PROVE Ordered'
  BY <1>11 DEF ClientDies
<1>12. ASSUME NEW d \in Daemons, Daemonise(d) \/ DaemonFails(d) PROVE Ordered'
  BY <1>1, <1>4, <1>12, DaemonStep
<1>13. CASE UNCHANGED vars
  BY <1>4, <1>13 DEF vars, Ordered, FileNames, OneAlive, OneDecides, ReadIsNotForked, DecidesRightly, Kept,
     Alive, Decides, Serving, Keeper
<1> QED
  BY <1>5, <1>6, <1>7, <1>8, <1>9, <1>10, <1>11, <1>12, <1>13 DEF Next, Manage

LEMMA Inductive == Spec => []IInv
<1>1. IInv /\ [Next]_vars => IInv'
  BY TypeStep, ShapeStep, RoomStep, WatchedStep, OrderlyStep DEF IInv
<1> QED BY InitIInv, <1>1, PTL DEF Spec

-----------------------------------------------------------------------------
(* The pid file and what a process has read of it name a process that has   *)
(* been started, and there is always room for the daemon a process has      *)
(* decided to start (_write_pid_file, startEventMonitor).                   *)
THEOREM TypeCorrect == Spec => []TypeOK
<1>1. IInv => TypeOK
  BY DEF IInv
<1> QED BY <1>1, Inductive, PTL

(* A process that holds an event handle is served by a daemon, unless       *)
(* another process has finalized the library, a daemon has failed or could  *)
(* not be started, or the one it found had a signal to die of               *)
(* (startEventMonitor, stopEventMonitor, _signal_handler).                  *)
THEOREM HolderAlwaysWatched == Spec => []HolderWatched
<1>1. IInv => HolderWatched
  BY DEF IInv, Watched, HolderWatched, CountsOn
<1> QED BY <1>1, Inductive, PTL

(* When the last process has finalized the library no daemon is left,       *)
(* unless a pid file was read before a new daemon was in it, or a process   *)
(* died (stopEventMonitor, readPidFile, _write_pid_file).                   *)
THEOREM NoDaemonIsLeft == Spec => []NoDaemonLeft
<1>1. IInv => NoDaemonLeft
  BY DEF IInv, Orderly, Ordered, Kept, Keeper, NoDaemonLeft
<1> QED BY <1>1, Inductive, PTL
=============================================================================
