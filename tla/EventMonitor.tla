---------------------------- MODULE EventMonitor ----------------------------
(***************************************************************************)
(* ssieventmonitor: the daemon that notices changes of the system and      *)
(* starts ssimsg for them.                                                 *)
(*                                                                         *)
(* It watches two sources.  inotify tells of links made and removed in     *)
(* /dev/disk/by-path, and every such event starts an ssimsg.  /proc/mdstat *)
(* tells only that something of md has changed; the daemon reads it into   *)
(* one of two buffers in turn and starts an ssimsg when the containers in  *)
(* them differ.  After an ssimsg for a link it reads mdstat again, without *)
(* comparing.                                                              *)
(***************************************************************************)
EXTENDS Integers, FiniteSets, Sequences

CONSTANTS
  Devnums,         \* numbers an md container may have
  Disks,           \* disks that may be members of a container
  MAX_CONTAINERS,  \* containers a buffer holds
  MaxQueue,        \* bound: inotify events that wait to be read
  MaxFaults        \* bound: system calls of the daemon that fail

ASSUME MAX_CONTAINERSAssumption == MAX_CONTAINERS \in Nat \ {0}
ASSUME MaxQueueAssumption == MaxQueue \in Nat
ASSUME MaxFaultsAssumption == MaxFaults \in Nat

VARIABLES
  mdstat,     \* the imsm containers in /proc/mdstat, in its order
  moved,      \* md's event count has moved since the daemon last read mdstat
  queue,      \* links made or removed, not read from inotify yet
  containers, \* containers[i]: what the buffer i holds
  current,    \* the buffer of the latest reading
  pc,         \* what the daemon does next
  readable,   \* pselect found the inotify descriptor readable
  batch,      \* events of the last read from inotify still to be handled
  blind,      \* inotify_init failed, and the daemon did not notice
  faults,     \* system calls that failed
  told,       \* history: the containers when the last ssimsg was started,
              \* or when the daemon first looked
  link,       \* history: a link was made or removed, and no ssimsg was
              \* tried since
  excused     \* history: a system call failed, or the containers changed
              \* between a reading and its ssimsg; until a later reading, or
              \* the ssimsg for a link, begins such a pair anew

system == <<mdstat, moved, queue>>
buffers == <<containers, current>>
history == <<told, link, excused>>
vars == <<system, buffers, pc, readable, batch, blind, faults, history>>

Container == [devnum : Devnums, devs : SUBSET Disks]

(* What a reading collects: a container that finds the buffer full is       *)
(* dropped.  Two buffers hold the same containers with the same members or  *)
(* they do not; the order of neither counts.                                *)
Collect(listed) == {listed[i] : i \in {j \in DOMAIN listed : j <= MAX_CONTAINERS}}

-----------------------------------------------------------------------------
(* The system: md and udev *)

(* One container is assembled (md lists the newest first), stopped, or has  *)
(* its members changed.                                                     *)
MdChanges ==
  /\ \/ \E c \in Container : /\ \A i \in DOMAIN mdstat : mdstat[i].devnum # c.devnum
                             /\ mdstat' = <<c>> \o mdstat
     \/ \E i \in DOMAIN mdstat : mdstat' = SubSeq(mdstat, 1, i - 1) \o SubSeq(mdstat, i + 1, Len(mdstat))
     \/ \E i \in DOMAIN mdstat, d \in SUBSET Disks :
          d # mdstat[i].devs /\ mdstat' = [mdstat EXCEPT ![i].devs = d]
  /\ moved' = TRUE
  /\ excused' = (excused \/ pc \in {"announce", "reread"})
  /\ UNCHANGED <<queue, buffers, pc, readable, batch, blind, faults, told, link>>

(* An event of md that changes no container: a volume starts, rebuilds ... *)
MdEvent ==
  /\ ~moved /\ moved' = TRUE
  /\ UNCHANGED <<mdstat, queue, buffers, pc, readable, batch, blind, faults, history>>

Watching == pc \notin {"start", "configure", "exit"}

(* A link appears in or disappears from /dev/disk/by-path. *)
LinkChanges ==
  /\ Watching
  /\ queue < MaxQueue
  /\ queue' = IF blind THEN queue ELSE queue + 1
  /\ link' = TRUE
  /\ UNCHANGED <<mdstat, moved, buffers, pc, readable, batch, blind, faults, told, excused>>

-----------------------------------------------------------------------------
(* The daemon *)

Fails == faults < MaxFaults /\ faults' = faults + 1

ReadMdstatSameBuffer ==
  /\ current' = current
  /\ containers' = [containers EXCEPT ![current] = Collect(mdstat)]
  /\ moved' = FALSE
  /\ UNCHANGED faults

(* _read_mdstat: clear the other buffer, make it the current one and read   *)
(* into it.  When dup or fdopen fails, it stays empty.                      *)
ReadMdstat ==
  /\ current' = 1 - current
  /\ \/ /\ containers' = [containers EXCEPT ![current'] = Collect(mdstat)]
        /\ moved' = FALSE
        /\ UNCHANGED faults
     \/ /\ Fails
        /\ containers' = [containers EXCEPT ![current'] = {}]
        /\ UNCHANGED moved

MembersAdded == containers'[current'] \ containers'[1 - current'] # {}

(* _members_changed, on what ReadMdstat left. *)
MembersChanged == containers'[current'] # containers'[1 - current']

(* _exec_ssimsg: vfork, and ssimsg runs to its end; or vfork fails.  The     *)
(* result is not used.  (ssimsg is installed where execve looks for it.)    *)
ExecSsimsg ==
  /\ link' = FALSE
  /\ \/ told' = Collect(mdstat) /\ UNCHANGED faults
     \/ Fails /\ UNCHANGED told

Failed == faults' # faults

(* _event_watch up to the configuration of inotify. *)
Start ==
  /\ pc = "start"
  /\ pc' = "configure"
  /\ ReadMdstat
  /\ told' = Collect(mdstat)
  /\ excused' = Failed
  /\ UNCHANGED <<mdstat, queue, readable, batch, blind, link>>

(* _configure_inotify: the daemon ends when it cannot watch the directory;  *)
(* when inotify_init fails, it goes on with the 1 that is returned for it.  *)
Configure ==
  /\ pc = "configure"
  /\ \/ pc' = "select" /\ UNCHANGED <<blind, faults>>
     \/ Fails /\ pc' = "exit" /\ UNCHANGED blind
     \/ Fails /\ pc' = "select" /\ blind' = TRUE
  /\ UNCHANGED <<system, buffers, readable, batch, history>>

(* pselect returns: with an exception of mdstat, with a readable inotify    *)
(* descriptor (/dev/null, which always is, when blind), or after the        *)
(* timeout, which counts as an exception.                                   *)
Select ==
  /\ pc = "select"
  /\ readable' = (queue > 0 \/ blind)
  /\ pc' = IF moved \/ ~readable' THEN "mdstat" ELSE "inotify"
  /\ UNCHANGED <<system, buffers, batch, blind, faults, history>>

AfterMdstat == IF readable THEN "inotify" ELSE "select"

(* _handle_mdstat: read, and announce a difference.  A change of md between *)
(* the reading and the start of ssimsg shows at the next reading.           *)
HandleMdstat ==
  /\ pc = "mdstat"
  /\ ReadMdstat
  /\ pc' = IF MembersChanged THEN "announce" ELSE AfterMdstat
  /\ excused' = (Failed \/ (excused /\ ~MembersChanged))
  /\ UNCHANGED <<mdstat, queue, readable, batch, blind, told, link>>

Announce ==
  /\ pc = "announce"
  /\ ExecSsimsg
  /\ excused' = (excused \/ Failed)
  /\ pc' = AfterMdstat
  /\ UNCHANGED <<system, buffers, readable, batch, blind>>

ReadInotifyFewer ==
  /\ pc = "inotify"
  /\ IF blind
     THEN pc' = "select" /\ UNCHANGED <<queue, batch>>
     ELSE \E n \in 1 .. queue :
            /\ queue' = queue - n
            /\ batch' = IF n = 1 THEN 0 ELSE n
            /\ pc' = IF n = 1 THEN "select" ELSE "event"
  /\ UNCHANGED <<mdstat, moved, buffers, readable, blind, faults, history>>

(* _handle_inotify: read as many events as fit the buffer; when blind, the  *)
(* read fails.                                                              *)
ReadInotify ==
  /\ pc = "inotify"
  /\ IF blind
     THEN pc' = "select" /\ UNCHANGED <<queue, batch>>
     ELSE \E n \in 1 .. queue : queue' = queue - n /\ batch' = n /\ pc' = "event"
  /\ UNCHANGED <<mdstat, moved, buffers, readable, blind, faults, history>>

(* ... every event starts an ssimsg ... *)
HandleEvent ==
  /\ pc = "event"
  /\ ExecSsimsg
  /\ excused' = Failed
  /\ pc' = "reread"
  /\ UNCHANGED <<system, buffers, readable, batch, blind>>

RereadPastEnd ==
  /\ pc = "reread"
  /\ ReadMdstat
  /\ batch' = batch - 1
  /\ pc' = IF batch = 0 THEN "select" ELSE "event"
  /\ excused' = (excused \/ Failed)
  /\ UNCHANGED <<mdstat, queue, readable, blind, told, link>>

(* ... and then mdstat is read, and its changes meanwhile are not compared. *)
Reread ==
  /\ pc = "reread"
  /\ ReadMdstat
  /\ batch' = batch - 1
  /\ pc' = IF batch' = 0 THEN "select" ELSE "event"
  /\ excused' = (excused \/ Failed)
  /\ UNCHANGED <<mdstat, queue, readable, blind, told, link>>

-----------------------------------------------------------------------------
Init ==
  /\ mdstat = <<>>
  /\ moved = FALSE
  /\ queue = 0
  /\ containers = [i \in {0, 1} |-> {}]
  /\ current = 1
  /\ pc = "start"
  /\ readable = FALSE
  /\ batch = 0
  /\ blind = FALSE
  /\ faults = 0
  /\ told = {}
  /\ link = FALSE
  /\ excused = FALSE

System == MdChanges \/ MdEvent \/ LinkChanges
Loop == Select \/ HandleMdstat \/ Announce \/ ReadInotify \/ HandleEvent \/ Reread
Daemon == Start \/ Configure \/ Loop

Next == System \/ Daemon

Spec == Init /\ [][Next]_vars

(* The daemon is scheduled, and pselect returns when it can.                *)
FairSpec == Spec /\ WF_vars(Daemon)

-----------------------------------------------------------------------------
(* Every variable has its type; the queue and the batch are never negative. *)
TypeOK ==
  /\ mdstat \in Seq(Container)
  /\ moved \in BOOLEAN
  /\ queue \in 0 .. MaxQueue
  /\ containers \in [{0, 1} -> SUBSET Container]
  /\ current \in {0, 1}
  /\ pc \in {"start", "configure", "select", "mdstat", "announce", "inotify", "event", "reread", "exit"}
  /\ readable \in BOOLEAN
  /\ batch \in 0 .. MaxQueue
  /\ blind \in BOOLEAN
  /\ faults \in 0 .. MaxFaults
  /\ told \subseteq Container
  /\ link \in BOOLEAN
  /\ excused \in BOOLEAN

(* Containers the consumer was not told of are still to be noticed: ssimsg  *)
(* is about to start for them, or the latest reading is not the present     *)
(* one, so the next comparison finds the difference, in whichever buffer.   *)
(* Excused are failed system calls and changes that come between a reading  *)
(* and its ssimsg.                                                          *)
ChangeNoticeable ==
  Watching /\ Collect(mdstat) # told /\ ~excused =>
    pc \in {"announce", "event"} \/ containers[current] # Collect(mdstat)

(* A link made or removed while the daemon watches is waiting in inotify or *)
(* in the batch that is being handled until an ssimsg is started for it.    *)
LinkNoticeable ==
  link /\ ~blind => queue > 0 \/ (pc = "event" /\ batch > 0)

(* The consumer is told of what differs from what it was told last, unless  *)
(* a system call fails or a change comes between a reading and its ssimsg.  *)
Untold == Watching /\ (Collect(mdstat) # told \/ (link /\ ~blind))
ChangeTold == Untold ~> ~Untold \/ excused

(* SsiGetEventHandle.3: an event for any device added or removed.  Even     *)
(* when every system call succeeds, a difference in the containers may      *)
(* never be told.                                                           *)
EveryChangeTold == Untold ~> ~Untold
=============================================================================
