------------------------- MODULE EventMonitorProofs -------------------------
(***************************************************************************)
(* What ssieventmonitor never misses, for any number of containers, disks, *)
(* waiting events and failing system calls.  The argument: outside of a    *)
(* reading and its ssimsg, the current buffer holds what was told last, so *)
(* that a later difference from it is a difference from what was told.     *)
(***************************************************************************)
EXTENDS EventMonitor, SequenceTheorems, TLAPS

(* The places of the loop at which the current buffer is what was told. *)
Settled == {"configure", "select", "mdstat", "inotify", "event"}

BuffersTold ==
  ~excused =>
    /\ pc \in Settled => containers[current] = told
    /\ pc = "announce" => containers[current] = Collect(mdstat)
    /\ pc = "reread" => told = Collect(mdstat)

BatchCounted == batch > 0 <=> pc \in {"event", "reread"}

IInv == TypeOK /\ BatchCounted /\ BuffersTold /\ LinkNoticeable

(* A reading collects containers. *)
LEMMA CollectType == ASSUME mdstat \in Seq(Container) PROVE Collect(mdstat) \subseteq Container
BY DEF Collect

(* What a reading leaves, whether it succeeds or fails. *)
LEMMA ReadType ==
  ASSUME TypeOK, ReadMdstat
  PROVE  /\ current' \in {0, 1} /\ current' = 1 - current
         /\ containers' \in [{0, 1} -> SUBSET Container]
         /\ containers'[1 - current'] = containers[current]
         /\ moved' \in BOOLEAN
         /\ faults' \in 0 .. MaxFaults
         /\ ~Failed => containers'[current'] = Collect(mdstat)
<1>1. current \in {0, 1} /\ current' = 1 - current /\ current' \in {0, 1} /\ 1 - current' = current
  <2>1. current = 0 \/ current = 1
    BY DEF TypeOK
  <2>2. current' = 1 - current
    BY DEF ReadMdstat
  <2> QED BY <2>1, <2>2
<1>2. Collect(mdstat) \in SUBSET Container
  BY CollectType DEF TypeOK
<1>3. CASE /\ containers' = [containers EXCEPT ![current'] = Collect(mdstat)]
           /\ moved' = FALSE
           /\ UNCHANGED faults
  <2>1. containers' \in [{0, 1} -> SUBSET Container]
    BY <1>1, <1>2, <1>3 DEF TypeOK
  <2>2. containers'[1 - current'] = containers[current] /\ containers'[current'] = Collect(mdstat)
    BY <1>1, <1>3 DEF TypeOK
  <2>3. moved' \in BOOLEAN /\ faults' \in 0 .. MaxFaults
    BY <1>3 DEF TypeOK
  <2> QED BY <1>1, <2>1, <2>2, <2>3
<1>4. CASE /\ Fails
           /\ containers' = [containers EXCEPT ![current'] = {}]
           /\ UNCHANGED moved
  BY <1>1, <1>4, MaxFaultsAssumption DEF TypeOK, Fails, Failed
<1> QED BY <1>3, <1>4 DEF ReadMdstat

(* What starting ssimsg leaves. *)
LEMMA ExecType ==
  ASSUME TypeOK, ExecSsimsg
  PROVE  /\ link' = FALSE
         /\ told' \subseteq Container
         /\ faults' \in 0 .. MaxFaults
         /\ ~Failed => told' = Collect(mdstat)
<1>1. Collect(mdstat) \subseteq Container
  BY CollectType DEF TypeOK
<1>2. CASE told' = Collect(mdstat) /\ UNCHANGED faults
  BY <1>1, <1>2 DEF ExecSsimsg, TypeOK
<1>3. CASE Fails /\ UNCHANGED told
  BY <1>3, MaxFaultsAssumption DEF ExecSsimsg, TypeOK, Fails, Failed
<1> QED BY <1>2, <1>3 DEF ExecSsimsg

(* The system only adds to what is to be noticed. *)
LEMMA MdChangesStep == ASSUME IInv, MdChanges PROVE IInv'
<1> USE DEF IInv
<1>1. mdstat' \in Seq(Container)
  <2>1. CASE \E c \in Container : mdstat' = <<c>> \o mdstat
    BY <2>1 DEF TypeOK
  <2>2. CASE \E i \in DOMAIN mdstat :
               mdstat' = SubSeq(mdstat, 1, i - 1) \o SubSeq(mdstat, i + 1, Len(mdstat))
    <3>1. PICK i \in DOMAIN mdstat :
            mdstat' = SubSeq(mdstat, 1, i - 1) \o SubSeq(mdstat, i + 1, Len(mdstat))
      BY <2>2
    <3>2. mdstat \in Seq(Container) /\ i \in 1 .. Len(mdstat) /\ Len(mdstat) \in Nat
      BY DEF TypeOK
    <3>3. SubSeq(mdstat, 1, i - 1) \in Seq(Container)
      BY <3>2, SubSeqProperties
    <3>4. SubSeq(mdstat, i + 1, Len(mdstat)) \in Seq(Container)
      BY <3>2, SubSeqProperties
    <3> QED BY <3>1, <3>3, <3>4
  <2>3. CASE \E i \in DOMAIN mdstat, d \in SUBSET Disks : mdstat' = [mdstat EXCEPT ![i].devs = d]
    <3>1. PICK i \in DOMAIN mdstat, d \in SUBSET Disks : mdstat' = [mdstat EXCEPT ![i].devs = d]
      BY <2>3
    <3>2. mdstat \in Seq(Container) /\ i \in 1 .. Len(mdstat) /\ mdstat[i] \in Container
      BY DEF TypeOK
    <3>3. [mdstat[i] EXCEPT !.devs = d] \in Container
      BY <3>2 DEF Container
    <3>4. mdstat' = [mdstat EXCEPT ![i] = [mdstat[i] EXCEPT !.devs = d]]
      BY <3>1
    <3> QED BY <3>2, <3>3, <3>4, ExceptSeq
  <2> QED BY <2>1, <2>2, <2>3 DEF MdChanges
<1>2. TypeOK'
  BY <1>1 DEF MdChanges, TypeOK, buffers
<1>3. BatchCounted' /\ LinkNoticeable'
  BY DEF MdChanges, BatchCounted, LinkNoticeable
<1>4. BuffersTold'
  BY DEF MdChanges, BuffersTold, buffers
<1> QED BY <1>2, <1>3, <1>4

(* Neither events of md nor links touch what the daemon has read. *)
LEMMA SystemStep == ASSUME IInv, MdEvent \/ LinkChanges PROVE IInv'
<1> USE DEF IInv
<1>1. CASE MdEvent
  BY <1>1 DEF MdEvent, TypeOK, BatchCounted, BuffersTold, LinkNoticeable, Collect, buffers, history
<1>2. CASE LinkChanges
  <2>1. queue' \in 0 .. MaxQueue /\ (~blind => queue' > 0)
    BY <1>2, MaxQueueAssumption DEF LinkChanges, TypeOK
  <2> QED BY <1>2, <2>1 DEF LinkChanges, TypeOK, BatchCounted, BuffersTold, LinkNoticeable, Collect, buffers
<1> QED BY <1>1, <1>2
-----------------------------------------------------------------------------
(* The steps of the daemon *)

(* The first reading, and the configuration of inotify. *)
LEMMA StartStep == ASSUME IInv, Start \/ Configure PROVE IInv'
<1> USE DEF IInv
<1>1. CASE Start
  <2>1. Collect(mdstat') = Collect(mdstat) /\ told' \subseteq Container
    BY <1>1, CollectType DEF Start, TypeOK
  <2>2. TypeOK'
    BY <1>1, <2>1, ReadType DEF Start, Failed, TypeOK
  <2>3. BuffersTold'
    BY <1>1, <2>1, ReadType DEF Start, BuffersTold
  <2>4. BatchCounted' /\ LinkNoticeable'
    BY <1>1 DEF Start, BatchCounted, LinkNoticeable
  <2> QED BY <2>2, <2>3, <2>4
<1>2. CASE Configure
  <2>1. TypeOK'
    <3>1. pc' \in {"select", "exit"} /\ UNCHANGED <<system, buffers, readable, batch, history>>
      BY <1>2 DEF Configure
    <3>2. blind' = blind \/ blind' = TRUE
      BY <1>2 DEF Configure
    <3>3. UNCHANGED faults \/ Fails
      BY <1>2 DEF Configure
    <3>4. faults' \in 0 .. MaxFaults
      BY <3>3, MaxFaultsAssumption DEF Fails, TypeOK
    <3> QED BY <3>1, <3>2, <3>4 DEF TypeOK, system, buffers, history
  <2>2. BuffersTold'
    BY <1>2 DEF Configure, BuffersTold, Settled, Collect, system, buffers, history
  <2>3. BatchCounted' /\ LinkNoticeable'
    BY <1>2 DEF Configure, BatchCounted, LinkNoticeable, system, history
  <2> QED BY <2>1, <2>2, <2>3
<1> QED BY <1>1, <1>2

(* pselect and the reading of inotify change no buffer. *)
LEMMA WaitStep == ASSUME IInv, Select \/ ReadInotify PROVE IInv'
<1> USE DEF IInv
<1>1. CASE Select
  <2>1. TypeOK'
    BY <1>1 DEF Select, TypeOK, system, buffers, history
  <2>2. BuffersTold'
    BY <1>1 DEF Select, BuffersTold, Settled, Collect, system, buffers, history
  <2>3. BatchCounted' /\ LinkNoticeable'
    BY <1>1 DEF Select, BatchCounted, LinkNoticeable, system, history
  <2> QED BY <2>1, <2>2, <2>3
<1>2. CASE ReadInotify
  <2>1. BuffersTold'
    BY <1>2 DEF ReadInotify, BuffersTold, Settled, Collect, buffers, history
  <2>2. CASE blind
    BY <1>2, <2>1, <2>2 DEF ReadInotify, TypeOK, BatchCounted, LinkNoticeable, buffers, history
  <2>3. CASE ~blind
    <3>1. PICK n \in 1 .. queue : queue' = queue - n /\ batch' = n /\ pc' = "event"
      BY <1>2, <2>3 DEF ReadInotify
    <3>2. queue' \in 0 .. MaxQueue /\ batch' \in 0 .. MaxQueue /\ batch' > 0
      BY <3>1, MaxQueueAssumption DEF TypeOK
    <3>3. TypeOK'
      BY <1>2, <3>1, <3>2 DEF ReadInotify, TypeOK, buffers, history
    <3> QED BY <2>1, <3>1, <3>2, <3>3 DEF BatchCounted, LinkNoticeable
  <2> QED BY <2>2, <2>3
<1> QED BY <1>1, <1>2

(* A reading that is compared: when it does not differ, it is still what    *)
(* was told; when it does, an ssimsg follows.                               *)
LEMMA HandleMdstatStep == ASSUME IInv, HandleMdstat PROVE IInv'
<1> USE DEF IInv
<1>1. pc = "mdstat" /\ pc' \in {"announce", "inotify", "select"} /\ batch' = batch /\ queue' = queue
  BY DEF HandleMdstat, AfterMdstat
<1>2. TypeOK'
  BY <1>1, ReadType DEF HandleMdstat, TypeOK
<1>3. Collect(mdstat') = Collect(mdstat)
  BY DEF HandleMdstat
<1>4. BuffersTold'
  <2> SUFFICES ASSUME ~excused' PROVE /\ pc' \in Settled => containers'[current'] = told'
                                      /\ pc' = "announce" => containers'[current'] = Collect(mdstat')
                                      /\ pc' # "reread"
    BY DEF BuffersTold
  <2>1. ~Failed /\ (~excused \/ MembersChanged)
    BY DEF HandleMdstat
  <2>2. containers'[current'] = Collect(mdstat)
    BY <2>1, ReadType DEF HandleMdstat
  <2>3. CASE MembersChanged
    BY <1>3, <2>2, <2>3 DEF HandleMdstat, Settled
  <2>4. CASE ~MembersChanged
    <3>1. containers'[current'] = containers[current]
      BY <2>4, ReadType DEF HandleMdstat, MembersChanged
    <3>2. containers[current] = told
      BY <1>1, <2>1, <2>4 DEF BuffersTold, Settled
    <3>3. pc' \in {"inotify", "select"}
      BY <2>4 DEF HandleMdstat, AfterMdstat
    <3> QED BY <3>1, <3>2, <3>3 DEF HandleMdstat
  <2> QED BY <2>3, <2>4
<1>5. BatchCounted' /\ LinkNoticeable'
  BY <1>1 DEF HandleMdstat, BatchCounted, LinkNoticeable
<1> QED BY <1>2, <1>4, <1>5

(* The ssimsg for a difference, and the one for a link. *)
LEMMA ExecStep == ASSUME IInv, Announce \/ HandleEvent PROVE IInv'
<1> USE DEF IInv
<1>1. ExecSsimsg /\ UNCHANGED <<system, buffers, readable, batch, blind>>
  BY DEF Announce, HandleEvent
<1>2. Collect(mdstat') = Collect(mdstat) /\ containers'[current'] = containers[current]
  BY <1>1 DEF system, buffers
<1>3. CASE Announce
  <2>1. pc = "announce" /\ pc' \in {"inotify", "select"}
    BY <1>3 DEF Announce, AfterMdstat
  <2>2. TypeOK'
    BY <1>1, <1>3, <2>1, ExecType DEF Announce, TypeOK, system, buffers
  <2>3. BuffersTold'
    BY <1>1, <1>2, <1>3, <2>1, ExecType DEF Announce, BuffersTold, Settled
  <2>4. BatchCounted' /\ LinkNoticeable'
    BY <1>1, <2>1, ExecType DEF BatchCounted, LinkNoticeable
  <2> QED BY <2>2, <2>3, <2>4
<1>4. CASE HandleEvent
  <2>1. TypeOK'
    BY <1>1, <1>4, ExecType DEF HandleEvent, TypeOK, system, buffers
  <2>2. BuffersTold'
    BY <1>1, <1>2, <1>4, ExecType DEF HandleEvent, BuffersTold, Settled
  <2>3. BatchCounted' /\ LinkNoticeable'
    BY <1>1, <1>4, ExecType DEF HandleEvent, BatchCounted, LinkNoticeable
  <2> QED BY <2>1, <2>2, <2>3
<1> QED BY <1>3, <1>4

(* The reading after the ssimsg for a link finds what was told, or the      *)
(* containers have changed since.                                           *)
LEMMA RereadStep == ASSUME IInv, Reread PROVE IInv'
<1> USE DEF IInv
<1>1. pc = "reread" /\ batch' = batch - 1 /\ queue' = queue /\ batch > 0
  BY DEF Reread, BatchCounted
<1>2. batch' \in 0 .. MaxQueue /\ pc' \in {"select", "event"} /\ (batch' > 0 <=> pc' = "event")
  BY <1>1, MaxQueueAssumption DEF Reread, TypeOK
<1>3. TypeOK'
  BY <1>2, ReadType DEF Reread, TypeOK
<1>4. BuffersTold'
  BY <1>1, <1>2, ReadType DEF Reread, BuffersTold, Settled
<1>5. BatchCounted' /\ LinkNoticeable'
  BY <1>1, <1>2 DEF Reread, BatchCounted, LinkNoticeable
<1> QED BY <1>3, <1>4, <1>5

-----------------------------------------------------------------------------
(* The inductive invariant of EventMonitor. *)
THEOREM Invariance == Spec => []IInv
<1>1. Init => IInv
  BY MaxQueueAssumption, MaxFaultsAssumption, EmptySeq
  DEF Init, IInv, TypeOK, BatchCounted, BuffersTold, LinkNoticeable, Settled
<1>2. IInv /\ [Next]_vars => IInv'
  <2> SUFFICES ASSUME IInv, [Next]_vars PROVE IInv'
    OBVIOUS
  <2>1. CASE Next
    BY <2>1, MdChangesStep, SystemStep, StartStep, WaitStep, HandleMdstatStep, ExecStep, RereadStep
    DEF Next, System, Daemon, Loop
  <2>2. CASE UNCHANGED vars
    BY <2>2 DEF vars, system, buffers, history, IInv, TypeOK, BatchCounted, BuffersTold,
                LinkNoticeable, Collect
  <2> QED BY <2>1, <2>2
<1> QED BY <1>1, <1>2, PTL DEF Spec

(* Every variable keeps its type: the batch of events is never counted      *)
(* below zero, and readings only ever hold containers.                      *)
THEOREM TypeCorrect == Spec => []TypeOK
<1>1. IInv => TypeOK
  BY DEF IInv
<1> QED BY <1>1, Invariance, PTL

(* A difference from what was told is never hidden by the two buffers.      *)
THEOREM ChangesStayNoticeable == Spec => []ChangeNoticeable
<1>1. IInv => ChangeNoticeable
  BY DEF IInv, TypeOK, BuffersTold, Settled, ChangeNoticeable, Watching
<1> QED BY <1>1, Invariance, PTL

(* No link event that inotify holds is dropped.                             *)
THEOREM LinksStayNoticeable == Spec => []LinkNoticeable
<1>1. IInv => LinkNoticeable
  BY DEF IInv
<1> QED BY <1>1, Invariance, PTL
=============================================================================
