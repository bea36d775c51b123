------------------------------- MODULE RaidOps -------------------------------
(***************************************************************************)
(* The operations that change arrays and volumes.                          *)
(*                                                                         *)
(* Every call of the API builds a session of its own, so it takes a        *)
(* picture of the system, decides by it what it may do and with which      *)
(* disks, and then runs a chain of mdadm commands, seconds apart.  Any     *)
(* command may fail.  Meanwhile other processes run their calls, disks     *)
(* fail and the kernel puts spares to use.                                 *)
(*                                                                         *)
(* A call that is refused by what it finds in its picture runs no command  *)
(* and is not a step here.  Sizes, strip sizes, names, the kinds of the    *)
(* disks and the layout of the metadata are left out: they only decide     *)
(* whether a call is refused or a command fails, and both may happen.      *)
(***************************************************************************)
EXTENDS Naturals, FiniteSets, Sequences

CONSTANTS
  Procs,        \* processes that call the library
  Disks,        \* block devices
  SystemDisks,  \* disks that hold /boot
  Arrays,       \* md devices a container may have
  Vols,         \* md devices a volume may have
  NoArray,      \* no container
  First,        \* the container there is at the start ...
  Built,        \* ... and the disks it has been built from
  MaxTries,     \* attempts of Array::remove
  MaxCalls,     \* bound: calls that are made
  MaxFaults     \* bound: disks that fail

ASSUME FiniteAssumption == IsFiniteSet(Disks) /\ IsFiniteSet(Vols)
ASSUME SystemDisksAssumption == SystemDisks \subseteq Disks
ASSUME NoArrayAssumption == NoArray \notin Arrays
ASSUME FirstAssumption == First \in Arrays
ASSUME BuiltAssumption == Built \subseteq Disks \ SystemDisks
ASSUME MaxTriesAssumption == MaxTries \in Nat \ {0}
ASSUME MaxCallsAssumption == MaxCalls \in Nat
ASSUME MaxFaultsAssumption == MaxFaults \in Nat

VARIABLES
  held,    \* held[d]: the running container that has the disk
  meta,    \* meta[d]: the container the metadata on the disk names
  up,      \* the containers that run
  volume,  \* volume[v]: what v is
  pc,      \* pc[p]: the command p runs next, or "idle"
  call,    \* call[p]: what the call of p has found and decided
  result,  \* result[p]: how the last call of p ended
  calls,   \* calls made so far
  faults,  \* disks failed so far
  stuck    \* history: volumes a call could not start again, did not come to start again
           \* for an exception, failed to delete, took for the one that had the device
           \* before, or took a disk or their container from while they were stopped and
           \* not in its picture

world == <<held, meta, up, volume>>
bounds == <<calls, faults>>
vars == <<world, pc, call, result, bounds, stuck>>

Levels == {0, 1, 5, 10}
Container == Arrays \cup {NoArray}

(* A volume is Busy while it is initialized, migrates, grows or rebuilds.   *)
Volume == [arr : Container, disks : SUBSET Disks, level : Levels,
           state : {"Normal", "Degraded", "Busy", "Verifying"}, running : BOOLEAN]
NoVolume == [arr |-> NoArray, disks |-> {}, level |-> 0, state |-> "Normal", running |-> FALSE]

Ops == {"None", "AddSpare", "Rebuild", "GlobalSpare", "RemoveSpare", "Grow", "Modify", "Delete", "Rename",
        "Create", "CreateFromArray", "ClearMetadata", "Expand", "Verify", "CancelVerify"}
Commands == {"add", "reshape", "relevel", "unplug", "wipe", "stopVolume", "kill", "stopArray",
             "wipeAll", "name", "scan", "assemble", "create", "createVolume", "sync", "cancel"}

NoCall == [op |-> "None", arr |-> NoArray, vol |-> {}, level |-> 0,
           want |-> {},      \* disks the caller named
           disks |-> {},     \* disks to take back, to wipe or to build from
           todo |-> {},      \* disks the present command is still to treat
           cur |-> {},       \* the disk taken out, whose metadata is to go
           joined |-> {},    \* disks this call has put into the container
           seen |-> {},      \* the volumes of the container in the picture
           left |-> {},      \* containers still to be tried
           plan |-> <<>>,    \* commands to follow the present one
           tries |-> 0, status |-> "ok",
           refused |-> FALSE,  \* a command of the clean-up has failed
           alone |-> FALSE]    \* no other call has run beside this one

-----------------------------------------------------------------------------
(* The picture a call takes of the system *)

Exists(v) == volume[v].arr # NoArray
Of(a) == {v \in Vols : Exists(v) /\ volume[v].arr = a}

(* Array::discover finds the volumes that run.                              *)
Visible(a) == {v \in Of(a) : volume[v].running}
Components(a) == {d \in Disks : held[d] = a}
InVolume(d) == \E v \in Vols : Exists(v) /\ d \in volume[v].disks

(* BlockDevice::__internal_determine_disk_usage                             *)
Usage(d) ==
  CASE meta[d] = NoArray -> "PassThru"
    [] meta[d] # NoArray /\ InVolume(d) -> IF held[d] # NoArray THEN "ArrayMember" ELSE "OfflineArray"
    [] OTHER -> IF held[d] # NoArray THEN "Spare" ELSE "PassThruReadOnlyMount"

Spares(a) == {d \in Components(a) : Usage(d) = "Spare"}

(* m_Busy *)
Busy(a) == \E v \in Visible(a) : volume[v].state # "Normal"

AnyDisk(S) == S

(* Array::getSpareableEndDevices, and the disks addSpare does not skip.     *)
Spareable(S) == {d \in S : Usage(d) # "Spare"}
Skipped(a, S) == {d \in S : held[d] = a /\ Usage(d) = "Spare"}

PassThru(S) == \A d \in S : Usage(d) = "PassThru"

(* The conditions of Array::addSpare and of Array::setEndDevices.           *)
Usable(S) == \A d \in S : d \notin SystemDisks /\ Usage(d) = "PassThru"
MayAdd(a, S) == Usable(S \ Skipped(a, S))

(* Volume::setComponentSize, with the limits of RaidInfo.                   *)
Fits(level, n) ==
  \/ level = 0 /\ n >= 2
  \/ level = 1 /\ n = 2
  \/ level = 5 /\ n >= 3
  \/ level = 10 /\ n = 4

(* RaidInfo::getRaidLevelInfo, migrSupport                                  *)
MigrSupport == {<<0, 0>>, <<0, 10>>, <<0, 5>>, <<1, 0>>, <<10, 0>>, <<5, 5>>}

-----------------------------------------------------------------------------
(* A call begins *)

MayBegin(p) == pc[p] = "idle" /\ calls < MaxCalls

Begin(p, first, c) ==
  /\ calls' = calls + 1
  /\ pc' = [pc EXCEPT ![p] = first]
  /\ call' = [q \in Procs |->
                IF q = p THEN [c EXCEPT !.alone = \A r \in Procs : pc[r] = "idle"]
                         ELSE [call[q] EXCEPT !.alone = FALSE]]
  /\ result' = [result EXCEPT ![p] = "none"]
  /\ UNCHANGED <<world, faults, stuck>>

(* Growing by a chain that starts with putting in S: nothing is put in when *)
(* all of S are spares of the container.                                    *)
Adding(a, S, plan) == IF S \subseteq Skipped(a, S) THEN plan ELSE <<"add">> \o plan

Chain(p, c, plan) == Begin(p, Head(plan), [c EXCEPT !.plan = Tail(plan)])

Growth(op, a, S) ==
  [NoCall EXCEPT !.op = op, !.arr = a, !.want = S, !.disks = Spareable(S),
                 !.todo = S \ Skipped(a, S), !.seen = Visible(a)]

(* SsiDiskMarkAsSpare for an array                                          *)
MarkAsSpare(p, a, d) ==
  /\ MayBegin(p)
  /\ a \in up /\ held[d] # a
  /\ MayAdd(a, {d})
  /\ Begin(p, "add", Growth("AddSpare", a, {d}))

(* SsiVolumeRebuild                                                         *)
Rebuild(p, v, d) ==
  /\ MayBegin(p)
  /\ v \in Visible(volume[v].arr)
  /\ volume[v].state = "Degraded" /\ volume[v].level # 0
  /\ MayAdd(volume[v].arr, {d}) /\ Skipped(volume[v].arr, {d}) = {}
  /\ Begin(p, "add", Growth("Rebuild", volume[v].arr, {d}))

(* SsiDiskMarkAsSpare without an array: Controller::makeSpare tries the     *)
(* containers one by one and builds a new one when none takes the disk.     *)
MakeSpare(p, d) ==
  /\ MayBegin(p)
  /\ Usable({d})
  /\ \/ \E a \in up : Begin(p, "add", [Growth("GlobalSpare", a, {d}) EXCEPT !.left = up \ {a}])
     \/ up = {} /\ Begin(p, "create", Growth("GlobalSpare", NoArray, {d}))

(* SsiDiskUnmarkAsSpare                                                     *)
UnmarkAsSpare(p, d) ==
  /\ MayBegin(p)
  /\ Usage(d) = "Spare"
  /\ Begin(p, "unplug", [NoCall EXCEPT !.op = "RemoveSpare", !.arr = held[d], !.todo = {d},
                                       !.seen = Visible(held[d])])

(* SsiAddDisksToArray                                                       *)
AddDisks(p, a, S) ==
  /\ MayBegin(p)
  /\ a \in up /\ ~Busy(a) /\ S # {}
  /\ \A v \in Visible(a) : volume[v].level \notin {1, 10}
  /\ MayAdd(a, S)
  /\ Chain(p, Growth("Grow", a, S), Adding(a, S, <<"reshape">>))

(* Array::grow within a migration: refused when busy or when a disk cannot  *)
(* be put in, which ends the chain.                                         *)
GrowPlan(a, S) == IF S = {} THEN <<>>
                  ELSE IF Busy(a) \/ ~MayAdd(a, S) THEN <<"refuse">>
                  ELSE Adding(a, S, <<"reshape">>)

(* __toRaid0, __toRaid10, __toRaid5: the chain of a migration, or none when *)
(* it is refused at once.  Without disks and to the same level only the     *)
(* strip size changes, which is left out.                                   *)
GrowOnly(a, S) == IF S = {} \/ Busy(a) \/ ~MayAdd(a, S) THEN {} ELSE {GrowPlan(a, S)}

ToRaid0(v, S) ==
  LET a == volume[v].arr
  IN IF volume[v].level = 0 THEN GrowOnly(a, S) ELSE {<<"relevel">> \o GrowPlan(a, S)}

ToRaid10(v, S) ==
  LET a == volume[v].arr
  IN IF Cardinality(volume[v].disks) = 2 /\ Cardinality(S) = 2 /\ MayAdd(a, S)
     THEN {Adding(a, S, <<"relevel">>)} ELSE {}

ToRaid5(v, S) ==
  LET a == volume[v].arr
  IN IF volume[v].level = 5 THEN GrowOnly(a, S)
     ELSE IF Cardinality(S) = 1 /\ MayAdd(a, S) THEN {Adding(a, S, <<"relevel">>)} ELSE {}

(* SsiRaidLevelModify, Volume::modify                                       *)
Modify(p, v, level, S) ==
  /\ MayBegin(p)
  /\ Exists(v) /\ volume[v].running
  /\ <<volume[v].level, level>> \in MigrSupport
  /\ \E plan \in (CASE level = 0 -> ToRaid0(v, S) [] level = 10 -> ToRaid10(v, S)
                    [] OTHER -> ToRaid5(v, S)) :
       Chain(p, [Growth("Modify", volume[v].arr, S) EXCEPT !.vol = {v}, !.level = level], plan)

(* SsiVolumeDelete                                                          *)
Delete(p, v) ==
  /\ MayBegin(p)
  /\ Exists(v) /\ volume[v].running
  /\ Begin(p, "stopVolume",
           [NoCall EXCEPT !.op = "Delete", !.arr = volume[v].arr, !.vol = {v},
                          !.disks = Components(volume[v].arr), !.seen = Visible(volume[v].arr)])

(* SsiVolumeRename: the new name may be one that renameVolume refuses.      *)
Rename(p, v) ==
  /\ MayBegin(p)
  /\ Exists(v) /\ volume[v].running /\ volume[v].state = "Normal"
  /\ \E plan \in {<<"name">>, <<"scan">>} :
       Begin(p, "stopVolume", [NoCall EXCEPT !.op = "Rename", !.arr = volume[v].arr, !.vol = {v},
                                             !.plan = plan, !.seen = Visible(volume[v].arr)])

(* SsiVolumeCreateFromDisks                                                 *)
CreateFromDisks(p, level, S) ==
  /\ MayBegin(p)
  /\ S # {} /\ Usable(S)
  /\ Begin(p, "create", [NoCall EXCEPT !.op = "Create", !.level = level, !.disks = S])

(* SsiVolumeCreate, from the members of the container, or from all its      *)
(* disks when it has no members.                                            *)
CreateFromArray(p, level, a) ==
  LET members == {d \in Components(a) : Usage(d) = "ArrayMember"}
      S == IF members = {} THEN Components(a) ELSE members
  IN /\ MayBegin(p)
     /\ a \in up
     /\ S \cap SystemDisks = {}
     /\ Fits(level, Cardinality(S))
     /\ Begin(p, "createVolume", [NoCall EXCEPT !.op = "CreateFromArray", !.arr = a, !.level = level,
                                                !.disks = S, !.seen = Visible(a)])

(* SsiDiskClearMetadata                                                     *)
ClearMetadata(p, d) ==
  /\ MayBegin(p)
  /\ d \notin SystemDisks
  /\ Usage(d) \in {"OfflineArray", "PassThruReadOnlyMount"}
  /\ Begin(p, "wipe", [NoCall EXCEPT !.op = "ClearMetadata", !.todo = {d}, !.cur = {d}])

(* SsiExpandVolume and SsiVolumeVerify                                      *)
Sync(p, v, op) ==
  /\ MayBegin(p)
  /\ Exists(v) /\ volume[v].running /\ volume[v].state = "Normal" /\ volume[v].level # 0
  /\ Begin(p, "sync", [NoCall EXCEPT !.op = op, !.vol = {v}])

(* SsiVolumeCancelVerify                                                    *)
CancelVerify(p, v) ==
  /\ MayBegin(p)
  /\ Exists(v) /\ volume[v].running /\ volume[v].state = "Verifying"
  /\ Begin(p, "cancel", [NoCall EXCEPT !.op = "CancelVerify", !.vol = {v}])

CallAPI(p) ==
  \/ \E a \in Arrays, d \in Disks : MarkAsSpare(p, a, d)
  \/ \E v \in Vols, d \in Disks : Rebuild(p, v, d)
  \/ \E d \in Disks : MakeSpare(p, d) \/ UnmarkAsSpare(p, d) \/ ClearMetadata(p, d)
  \/ \E a \in Arrays, S \in SUBSET Disks : AddDisks(p, a, S)
  \/ \E v \in Vols, level \in Levels, S \in SUBSET Disks : Modify(p, v, level, S)
  \/ \E v \in Vols : Delete(p, v) \/ Rename(p, v) \/ CancelVerify(p, v)
  \/ \E v \in Vols, op \in {"Expand", "Verify"} : Sync(p, v, op)
  \/ \E level \in Levels, S \in SUBSET Disks : CreateFromDisks(p, level, S)
  \/ \E level \in Levels, a \in Arrays : CreateFromArray(p, level, a)

-----------------------------------------------------------------------------
(* What a call does after a command *)

Return(p, status) ==
  /\ pc' = [pc EXCEPT ![p] = "idle"]
  /\ call' = [call EXCEPT ![p] = NoCall]
  /\ result' = [result EXCEPT ![p] = status]

Goto(p, command, c) ==
  /\ pc' = [pc EXCEPT ![p] = command]
  /\ call' = [call EXCEPT ![p] = c]
  /\ UNCHANGED result

(* On with the chain; "refuse" is a growth that ends before its commands.   *)
Proceed(p, c) ==
  IF c.plan = <<>> THEN Return(p, "ok")
  ELSE IF Head(c.plan) = "refuse" THEN Return(p, "invalid")
  ELSE Goto(p, Head(c.plan), [c EXCEPT !.plan = Tail(c.plan)])

(* A call that failed says so; "stuck" when its clean-up failed as well     *)
(* (SSI_StatusFailed for both).                                             *)
Status(c) == IF c.status = "ok" THEN "ok" ELSE IF c.refused THEN "stuck" ELSE "failed"

LeaveIn(p, c) == Return(p, "failed")

(* removeSpare(addedToSpare, true)                                          *)
TakeBack(p, c) ==
  IF c.disks = {} THEN Return(p, "failed")
  ELSE Goto(p, "unplug", [c EXCEPT !.todo = c.disks, !.status = "failed"])

(* The disks of c.todo, one after the other, whatever comes of each.        *)
NextSpare(p, c) == IF c.todo = {} THEN Return(p, Status(c)) ELSE Goto(p, "unplug", c)

RetryForever(p, c) ==
  /\ Goto(p, "stopArray", [c EXCEPT !.tries = @ + 1])
  /\ UNCHANGED stuck

RetryThenOk(p, c) ==
  IF c.tries + 1 < MaxTries
  THEN Goto(p, "stopArray", [c EXCEPT !.tries = @ + 1]) /\ UNCHANGED stuck
  ELSE Return(p, "ok") /\ stuck' = stuck \cup c.vol

(* Array::remove: the next attempt, or the end.                             *)
Retry(p, c) ==
  IF c.tries + 1 < MaxTries
  THEN Goto(p, "stopArray", [c EXCEPT !.tries = @ + 1]) /\ UNCHANGED stuck
  ELSE Return(p, "stuck") /\ stuck' = stuck \cup c.vol

-----------------------------------------------------------------------------
(* The mdadm commands.  What each may and may not do to the system is what  *)
(* the library counts on.                                                   *)

OwnStep == UNCHANGED <<bounds, stuck>>

(* A volume is gone with the last of its metadata.                          *)
Remnant(m) == [v \in Vols |-> IF \A d \in volume[v].disks : m[d] # volume[v].arr
                              THEN NoVolume ELSE volume[v]]

Without(f, S) == [d \in Disks |-> IF d \in S THEN NoArray ELSE f[d]]
With(f, S, a) == [d \in Disks |-> IF d \in S THEN a ELSE f[d]]

(* mdadm <container> -a <disks>: fails when it cannot take all of them.     *)
Add(p) ==
  LET c == call[p]
  IN /\ pc[p] = "add"
     /\ \E T \in SUBSET {d \in c.todo : held[d] = NoArray /\ c.arr \in up} :
          /\ held' = With(held, T, c.arr)
          /\ meta' = With(meta, T, c.arr)
          /\ volume' = Remnant(meta')
          /\ IF T = c.todo THEN Proceed(p, [c EXCEPT !.joined = T])
             ELSE IF c.op # "GlobalSpare" THEN Return(p, "failed")
             ELSE IF c.left = {} THEN Goto(p, "create", c)
             ELSE \E a \in c.left : Goto(p, "add", [c EXCEPT !.arr = a, !.left = @ \ {a}])
     /\ UNCHANGED up /\ OwnStep

(* mdadm --grow <container> --raid-devices: md takes as many spares as the  *)
(* caller named disks, into every volume.                                   *)
Reshape(p) ==
  LET c == call[p]
      Grown(T) == [v \in Vols |->
                     IF v \in Visible(c.arr)
                     THEN [volume[v] EXCEPT !.disks = @ \cup T, !.state = "Busy"] ELSE volume[v]]
  IN /\ pc[p] = "reshape"
     /\ \/ /\ c.arr \in up /\ ~Busy(c.arr)
           /\ \E T \in SUBSET Spares(c.arr) :
                Cardinality(T) = Cardinality(c.want) /\ volume' = Grown(T)
           /\ Proceed(p, c)
        \/ TakeBack(p, c) /\ UNCHANGED volume
     /\ UNCHANGED <<held, meta, up>> /\ OwnStep

RelevelForgiven(p, c) == Return(p, "ok")

(* When mdadm fails, __toRaid0 returns the status of canAddEndDevices.      *)
RelevelFails(p, c) == IF c.level = 0 THEN Return(p, "ok") ELSE TakeBack(p, c)

(* mdadm <volume> --grow -l: to RAID 0 half of the disks leave the volume,  *)
(* to RAID 5 and 10 spares join it.                                         *)
Relevel(p) ==
  LET c == call[p]
      Half(v) == {T \in SUBSET volume[v].disks : 2 * Cardinality(T) = Cardinality(volume[v].disks)}
      Joined(v) == {volume[v].disks \cup T :
                      T \in {U \in SUBSET Spares(c.arr) : Cardinality(U) = Cardinality(c.want)}}
  IN /\ pc[p] = "relevel"
     /\ \/ \E v \in c.vol :
             /\ v \in Visible(c.arr)
             /\ <<volume[v].level, c.level>> \in MigrSupport /\ volume[v].level # c.level
             /\ \E D \in (IF c.level = 0 THEN Half(v) ELSE Joined(v)) :
                  volume' = [volume EXCEPT ![v].disks = D, ![v].level = c.level, ![v].state = "Busy"]
             /\ Proceed(p, c)
        \/ RelevelFails(p, c) /\ UNCHANGED volume
     /\ UNCHANGED <<held, meta, up>> /\ OwnStep

(* removeSpare: mdadm <container> -r <disk>; a disk in use is not let go,   *)
(* which a disk of a stopped volume is not.                                 *)
Unplug(p) ==
  LET c == call[p]
  IN /\ pc[p] = "unplug"
     /\ \E d \in c.todo :
          \/ /\ held[d] = c.arr
             /\ \A v \in Visible(c.arr) : d \notin volume[v].disks
             /\ held' = Without(held, {d})
             /\ stuck' = stuck \cup {v \in Of(c.arr) : d \in volume[v].disks}
             /\ Goto(p, "wipe", [c EXCEPT !.cur = {d}])
          \/ /\ NextSpare(p, [c EXCEPT !.todo = @ \ {d}, !.status = "failed", !.refused = TRUE])
             /\ UNCHANGED <<held, stuck>>
     /\ UNCHANGED <<meta, up, volume, bounds>>

(* ... then mdadm --zero-superblock <disk>, which spares a disk in use; and *)
(* clearMetadata.                                                           *)
Wipe(p) ==
  LET c == call[p]
      rest == [c EXCEPT !.todo = @ \ c.cur, !.cur = {}]
  IN /\ pc[p] = "wipe"
     /\ \/ /\ \A d \in c.cur : held[d] = NoArray
           /\ meta' = Without(meta, c.cur)
           /\ volume' = Remnant(meta')
           /\ NextSpare(p, rest)
        \/ /\ NextSpare(p, [rest EXCEPT !.status = "failed", !.refused = TRUE])
           /\ UNCHANGED <<meta, volume>>
     /\ UNCHANGED <<held, up>> /\ OwnStep

(* m_Volumes.size() is 1: the container goes with its volume.               *)
AtMostTwo(c) == Cardinality(c.seen) <= 2
LastVolume(c) == Cardinality(c.seen) = 1

(* Volume::remove and Volume::rename: mdadm -S <volume>                     *)
StopVolume(p) ==
  LET c == call[p]
      Stopped == IF c.op = "Rename"
                 THEN Goto(p, Head(c.plan),
                           [c EXCEPT !.status = IF c.plan = <<"scan">> THEN "failed" ELSE "ok"])
                 ELSE IF LastVolume(c) THEN Goto(p, "stopArray", c)
                 ELSE Goto(p, "kill", c)
      Refused == IF c.op = "Rename" THEN Goto(p, "assemble", [c EXCEPT !.status = "failed"])
                 ELSE Return(p, "failed")
  IN /\ pc[p] = "stopVolume"
     /\ \/ \E v \in c.vol : /\ volume[v].running
                            /\ volume' = [volume EXCEPT ![v].running = FALSE]
                            /\ stuck' = IF volume[v].arr = c.arr THEN stuck ELSE stuck \cup {v}
                            /\ Stopped
        \/ Refused /\ UNCHANGED <<volume, stuck>>
     /\ UNCHANGED <<held, meta, up, bounds>>

(* Array::removeVolume: mdadm --kill-subarray, of a volume that is stopped. *)
(* A volume that cannot be killed stays stopped.                            *)
Kill(p) ==
  LET c == call[p]
  IN /\ pc[p] = "kill"
     /\ \/ /\ c.arr \in up
           /\ \E v \in c.vol : /\ Exists(v) /\ ~volume[v].running
                               /\ volume' = [volume EXCEPT ![v] = NoVolume]
           /\ Return(p, "ok")
           /\ UNCHANGED stuck
        \/ /\ Return(p, "failed")
           /\ stuck' = stuck \cup c.vol
           /\ UNCHANGED volume
     /\ UNCHANGED <<held, meta, up, bounds>>

(* Array::remove: mdadm -S <container>                                      *)
StopArray(p) ==
  LET c == call[p]
  IN /\ pc[p] = "stopArray"
     /\ \/ /\ c.arr \in up /\ Visible(c.arr) = {}
           /\ up' = up \ {c.arr}
           /\ held' = Without(held, Components(c.arr))
           /\ volume' = Remnant(meta)
           /\ stuck' = stuck \cup (Of(c.arr) \ c.seen)
           /\ Goto(p, "wipeAll", c)
        \/ Retry(p, c) /\ UNCHANGED <<up, held, volume>>
     /\ UNCHANGED <<meta, bounds>>

(* ... then mdadm --zero-superblock <disks>; when that fails the container  *)
(* is stopped again.                                                        *)
WipeAll(p) ==
  LET c == call[p]
  IN /\ pc[p] = "wipeAll"
     /\ \E T \in SUBSET {d \in c.disks : held[d] = NoArray} :
          /\ meta' = Without(meta, T)
          /\ volume' = Remnant(meta')
          /\ IF T # c.disks THEN Retry(p, c)
             ELSE /\ Return(p, IF c.op = "Delete" THEN "ok" ELSE "failed")
                  /\ stuck' = stuck \cup {v \in c.vol : volume'[v] # NoVolume}
     /\ UNCHANGED <<held, up, bounds>>

NameReturns(p) ==
  LET c == call[p]
  IN /\ pc[p] = "name"
     /\ \/ /\ c.arr \in up /\ \A v \in c.vol : Exists(v) /\ ~volume[v].running
           /\ Goto(p, "scan", c)
        \/ Return(p, "failed")
     /\ UNCHANGED world /\ OwnStep

(* Array::renameVolume: mdadm --update-subarray                             *)
Name(p) ==
  LET c == call[p]
  IN /\ pc[p] = "name"
     /\ \/ /\ c.arr \in up /\ \A v \in c.vol : Exists(v) /\ ~volume[v].running
           /\ Goto(p, "scan", c)
        \/ Goto(p, "scan", [c EXCEPT !.status = "failed"])
     /\ UNCHANGED world /\ OwnStep

(* ... then mdadm -Ebs, and its output to the configuration file.  When the *)
(* file cannot be opened, File::write throws, nobody on the way out of the  *)
(* library catches it, and the volume is not assembled.                     *)
Scan(p) ==
  /\ pc[p] = "scan"
  /\ \/ /\ \E status \in {call[p].status, "failed"} :
             Goto(p, "assemble", [call[p] EXCEPT !.status = status])
        /\ UNCHANGED stuck
     \/ /\ Return(p, "thrown")
        /\ stuck' = stuck \cup call[p].vol
  /\ UNCHANGED <<world, bounds>>

(* The disks of v that its container still has, enough to start it with     *)
There(v) == {d \in volume[v].disks : held[d] = volume[v].arr}
Startable(v) == There(v) # {} /\ (volume[v].level = 0 => There(v) = volume[v].disks)

(* Array::assemble: mdadm -I <container> starts what is stopped in it.      *)
Assemble(p) ==
  LET c == call[p]
      Starts == {v \in Of(c.arr) : ~volume[v].running /\ Startable(v)}
      Started == [v \in Vols |->
                    IF v \in Starts
                    THEN [volume[v] EXCEPT !.running = TRUE, !.disks = There(v),
                                           !.state = IF There(v) = volume[v].disks THEN @ ELSE "Degraded"]
                    ELSE volume[v]]
  IN /\ pc[p] = "assemble"
     /\ \/ /\ c.arr \in up
           /\ volume' = Started
           /\ stuck' = {v \in stuck \cup c.vol : Exists(v) /\ ~volume'[v].running}
           /\ Return(p, c.status)
        \/ /\ Return(p, "failed")
           /\ stuck' = stuck \cup c.vol
           /\ UNCHANGED volume
     /\ UNCHANGED <<held, meta, up, bounds>>

(* Array::create: mdadm -CR of a container of a new name.  The library may  *)
(* fail to learn which device it has become.                                *)
Create(p) ==
  LET c == call[p]
      S == IF c.op = "GlobalSpare" THEN c.want ELSE c.disks
      Unused(a) == a \notin up /\ \A d \in Disks : meta[d] # a
      Made(k) == IF c.op = "GlobalSpare" THEN Return(p, "ok")
                  ELSE Goto(p, IF Fits(c.level, Cardinality(S)) THEN "createVolume" ELSE "stopArray",
                            [c EXCEPT !.arr = k, !.joined = S])
  IN /\ pc[p] = "create"
     /\ \/ \E a \in Arrays :
             /\ Unused(a) /\ \A d \in S : held[d] = NoArray
             /\ up' = up \cup {a}
             /\ held' = With(held, S, a)
             /\ meta' = With(meta, S, a)
             /\ volume' = Remnant(meta')
             /\ \E k \in {a, NoArray} : Made(k)
        \/ Return(p, "failed") /\ UNCHANGED world
     /\ OwnStep

(* Volume::create: mdadm -CR of the volume, with either spelling of the     *)
(* write hole policy; then a new container is removed again.                *)
CreateVolume(p) ==
  LET c == call[p]
      New(a) == [arr |-> a, disks |-> c.disks, level |-> c.level, state |-> "Busy", running |-> TRUE]
  IN /\ pc[p] = "createVolume"
     /\ \/ \E a \in up, v \in Vols :
             /\ ~Exists(v) /\ \A d \in c.disks : held[d] = a
             /\ volume' = [volume EXCEPT ![v] = New(a)]
             /\ Return(p, "ok")
        \/ /\ IF c.tries = 0 THEN Goto(p, "createVolume", [c EXCEPT !.tries = 1])
              ELSE IF c.op = "Create"
              THEN Goto(p, "stopArray", [c EXCEPT !.tries = 0, !.status = "failed"])
              ELSE Return(p, "failed")
           /\ UNCHANGED volume
     /\ UNCHANGED <<held, meta, up>> /\ OwnStep

(* Volume::expand, mdadm --grow --size; and Volume::verify, `check' or      *)
(* `repair' to sync_action                                                  *)
StartSync(p) ==
  LET c == call[p]
  IN /\ pc[p] = "sync"
     /\ \/ /\ \E v \in c.vol :
                /\ Exists(v) /\ volume[v].running /\ volume[v].state = "Normal"
                /\ volume' = [volume EXCEPT ![v].state = IF c.op = "Verify" THEN "Verifying" ELSE "Busy"]
           /\ Return(p, "ok")
        \/ Return(p, "failed") /\ UNCHANGED volume
     /\ UNCHANGED <<held, meta, up>> /\ OwnStep

(* Volume::cancelVerify: `idle' to sync_action.  What else the volume has   *)
(* begun meanwhile, md takes up again.                                      *)
Cancel(p) ==
  LET c == call[p]
  IN /\ pc[p] = "cancel"
     /\ \/ /\ \E v \in c.vol :
                /\ Exists(v) /\ volume[v].running
                /\ volume' = IF volume[v].state = "Verifying"
                             THEN [volume EXCEPT ![v].state = "Normal"] ELSE volume
           /\ Return(p, "ok")
        \/ Return(p, "failed") /\ UNCHANGED volume
     /\ UNCHANGED <<held, meta, up>> /\ OwnStep

Command(p) ==
  \/ Add(p) \/ Reshape(p) \/ Relevel(p) \/ Unplug(p) \/ Wipe(p)
  \/ StopVolume(p) \/ Kill(p) \/ StopArray(p) \/ WipeAll(p)
  \/ Name(p) \/ Scan(p) \/ Assemble(p)
  \/ Create(p) \/ CreateVolume(p)
  \/ StartSync(p) \/ Cancel(p)

-----------------------------------------------------------------------------
(* The kernel *)

(* A disk fails, and leaves the volumes, all redundant, that it was in.     *)
DiskFails(d) ==
  /\ faults < MaxFaults /\ faults' = faults + 1
  /\ held[d] # NoArray /\ InVolume(d)
  /\ \A v \in Of(held[d]) : volume[v].running /\ volume[v].level # 0 /\ Cardinality(volume[v].disks) > 1
  /\ volume' = [v \in Vols |-> IF d \in volume[v].disks /\ volume[v].arr = held[d]
                               THEN [volume[v] EXCEPT !.disks = @ \ {d}, !.state = "Degraded"]
                               ELSE volume[v]]
  /\ held' = Without(held, {d})
  /\ UNCHANGED <<meta, up, pc, call, result, calls, stuck>>

(* A spare takes the place of a disk that failed.                           *)
SpareTaken(v, d) ==
  /\ v \in Visible(volume[v].arr) /\ volume[v].state = "Degraded"
  /\ d \in Spares(volume[v].arr)
  /\ volume' = [volume EXCEPT ![v].disks = @ \cup {d}, ![v].state = "Busy"]
  /\ UNCHANGED <<held, meta, up, pc, call, result, bounds, stuck>>

(* An initialization, a migration, a rebuild or a verification is complete. *)
Settles(v) ==
  /\ Exists(v) /\ volume[v].running /\ volume[v].state \in {"Busy", "Verifying"}
  /\ volume' = [volume EXCEPT ![v].state = "Normal"]
  /\ UNCHANGED <<held, meta, up, pc, call, result, bounds, stuck>>

Kernel ==
  \/ \E d \in Disks : DiskFails(d)
  \/ \E v \in Vols, d \in Disks : SpareTaken(v, d)
  \/ \E v \in Vols : Settles(v)

-----------------------------------------------------------------------------
(* The library starts on a system with one container, of the disks Built,   *)
(* or none, and any volumes on these disks.                                 *)
Init ==
  /\ up = IF Built = {} THEN {} ELSE {First}
  /\ held = [d \in Disks |-> IF d \in Built THEN First ELSE NoArray]
  /\ meta = held
  /\ \E V \in SUBSET Vols, level \in [Vols -> Levels] :
       /\ \A v \in V : Fits(level[v], Cardinality(Built))
       /\ volume = [v \in Vols |-> IF v \in V
                                   THEN [arr |-> First, disks |-> Built, level |-> level[v],
                                         state |-> "Normal", running |-> TRUE]
                                   ELSE NoVolume]
  /\ pc = [p \in Procs |-> "idle"]
  /\ call = [p \in Procs |-> NoCall]
  /\ result = [p \in Procs |-> "none"]
  /\ calls = 0
  /\ faults = 0
  /\ stuck = {}

Next ==
  \/ \E p \in Procs : CallAPI(p) \/ Command(p)
  \/ Kernel

Spec == Init /\ [][Next]_vars

-----------------------------------------------------------------------------
(* Every variable has its type; Array::remove does not try for ever.        *)
TypeOK ==
  /\ held \in [Disks -> Container]
  /\ meta \in [Disks -> Container]
  /\ up \subseteq Arrays
  /\ volume \in [Vols -> Volume]
  /\ pc \in [Procs -> Commands \cup {"idle"}]
  /\ call \in [Procs -> [op : Ops, arr : Container, vol : SUBSET Vols, level : Levels,
                         want : SUBSET Disks, disks : SUBSET Disks, todo : SUBSET Disks,
                         cur : SUBSET Disks, joined : SUBSET Disks, seen : SUBSET Vols,
                         left : SUBSET Arrays, plan : Seq(Commands \cup {"refuse"}),
                         tries : 0 .. MaxTries, status : {"ok", "failed"}, refused : BOOLEAN,
                         alone : BOOLEAN]]
  /\ result \in [Procs -> {"none", "ok", "failed", "stuck", "invalid", "thrown"}]
  /\ calls \in 0 .. MaxCalls
  /\ faults \in 0 .. MaxFaults
  /\ stuck \subseteq Vols

(* /boot stays out of RAID: whichever way a disk comes into a container, no *)
(* metadata is ever written to a system disk.                               *)
SystemDisksUntouched == \A d \in SystemDisks : meta[d] = NoArray

(* A volume that is down in a container that runs was stopped by a call     *)
(* that is still at work on it, or by one that tried to start or to delete  *)
(* it and could not, that an exception ended before it could start it, or   *)
(* that meant the volume the device was before.                             *)
DownIsExplained ==
  \A v \in Vols :
    Exists(v) /\ ~volume[v].running /\ volume[v].arr \in up =>
      \/ v \in stuck
      \/ \E p \in Procs :
           v \in call[p].vol /\ pc[p] \in {"kill", "stopArray", "wipeAll", "name", "scan", "assemble"}

Destroys(p, v) == pc'[p] # pc[p] /\ Exists(v) /\ volume'[v] = NoVolume

(* No call destroys a volume which its picture showed in the container it   *)
(* works on, except the one it is to delete, whatever other calls do        *)
(* between its commands; unless another call is deleting the volume, or has *)
(* tried to and failed, or has taken from it, while it was down and not in  *)
(* its picture, a disk or its container.                                    *)
Doomed(v) == v \in stuck \/ \E q \in Procs : call[q].op = "Delete" /\ v \in call[q].vol

VisibleVolumesSurvive ==
  [][\A p \in Procs : \A v \in call[p].seen : Destroys(p, v) => Doomed(v)]_vars

(* SsiVolumeDelete.3: "Deletes a volume.", of the handle passed.  A volume  *)
(* that is down is not in the picture, and is destroyed with the container. *)
DeletesOnlyItsVolume ==
  [][\A p \in Procs, v \in Vols : call[p].op = "Delete" /\ Destroys(p, v) => v \in call[p].vol]_vars

Returns(p, status) == pc[p] # "idle" /\ pc'[p] = "idle" /\ result'[p] = status

(* A volume whose deletion has succeeded is gone, when no other call has    *)
(* put disks into it meanwhile: the kernel takes spares of the picture only.*)
DeletedIsGone ==
  [][\A p \in Procs : Returns(p, "ok") /\ call[p].op = "Delete" /\ call[p].alone =>
       \A v \in call[p].vol : volume'[v] = NoVolume]_vars

(* A growth, a migration or a creation that fails, and whose clean-up does  *)
(* not, leaves no metadata on any of the disks it has put in.               *)
FailureLeavesNoTrace ==
  [][\A p \in Procs : Returns(p, "failed") /\ call[p].alone =>
       \A d \in call[p].joined : meta'[d] = NoArray]_vars

(* Taking back the disks of a growth never takes a spare away that the      *)
(* container had before, though the caller may have named it.               *)
OwnDisksTakenBack ==
  [][\A p \in Procs : call[p].op \in {"Grow", "Modify"} =>
       \A d \in Disks : pc[p] = "unplug" /\ pc'[p] = "wipe" /\ held[d] # held'[d] =>
         d \in call[p].joined]_vars

(* SsiRaidLevelModify.3: "SSI_StatusOk - Indicates success."  A migration   *)
(* that has returned it has changed the level, except to RAID 0, where the  *)
(* call returns it also when mdadm has failed.                              *)
ModifyOkMeansDone ==
  [][\A p \in Procs : Returns(p, "ok") /\ call[p].op = "Modify" /\ call[p].alone /\ call[p].level # 0 =>
       \A v \in call[p].vol : volume'[v].level = call[p].level]_vars
=============================================================================
