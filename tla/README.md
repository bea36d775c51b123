# A formal model of the Intel SSI library for Linux

The repository is `libssi`: a C library API (`src/src/*.cpp`, headers in
`src/include`) over a C++ engine (`src/lib/engine`) that discovers Intel RSTe/VROC
storage in sysfs, manages imsm RAID containers and volumes through `mdadm`, and
notifies its consumers of changes through two small programs,
`src/tools/ssieventmonitor.cpp` and `src/tools/ssimsg.cpp`.

This directory holds TLA+ modules of the parts of it in which order, sharing and
failure decide whether it is correct, TLC configurations that check them on small
instances, and TLAPS proofs of what can be proved for every instance.  Paths below
are relative to the directory that contains `src/`.

## 1. Inventory

| Component | State | Operations | Interacts with |
|---|---|---|---|
| Library context, `src/src/initialize.cpp`, `src/lib/engine/context_manager.*` | `pContextMgr`; owns the three managers | `SsiInitialize`, `SsiFinalize` | everything; mdadm configuration |
| Sessions and handles, `session_manager.cpp`, `handle_manager.h`, `session.cpp`, `src/src/session.cpp`, `src/src/templates.h` | map handle -> Session; map handle -> object; the containers of each Session | open, close, temporary session, discovery, registration, lookup, reading of handles | called by every API function; one `HandleManager<Object>` for all sessions of the process |
| Event notification, `event_manager.cpp`, `event.cpp`, `src/src/event.cpp` | map handle -> Event; `m_semId` of each; a System V semaphore shared by all processes | get, free, wait; destructor removes the semaphore | `ssimsg`, `ssieventmonitor` |
| `ssimsg`, `src/tools/ssimsg.cpp` | none | find the semaphore, read it, post it | started by `ssieventmonitor` and by `mdadm --monitor` |
| `ssieventmonitor`, `src/tools/ssieventmonitor.cpp` | two buffers of containers, inotify and mdstat descriptors; a pid file | pselect loop; daemonising, termination | kernel (`/proc/mdstat`, inotify), `ssimsg`, `EventManager` |
| mdadm configuration, `mdadm_config.cpp` | `/etc/mdadm.conf`, its backup, the mdadm monitor's pid file | check and repair, start and stop the monitor | run at initialisation, finalisation and at the end of every discovery |
| RAID operations, `array.cpp`, `volume.cpp`, `raid_device.cpp`, `block_device.cpp`, their API files | the discovered arrays, volumes, disks | create, delete, rename, grow, expand, rebuild, migrate, verify, spares, clear metadata | sequences of `mdadm` commands and sysfs writes |
| RAID capabilities, `raid_info.cpp` | option ROM capabilities | migration matrix, levels, strip sizes | volume creation and migration |
| Storage topology, `controller.cpp`, `phy.cpp`, `port.cpp`, `enclosure.cpp`, `routing_device.cpp`, `end_device.cpp` | the objects of a session, their links, the lists of each scope | attachment while they are discovered; registration; queries | sysfs through the back ends; `HandleManager` |
| Back ends, `ahci*.cpp`, `isci*.cpp`, `nvme_phy.cpp`, `vmd.cpp` | the links of phys and ports | discovery of one controller | `filesystem.cpp`; SMP and SCSI requests |
| `filesystem.cpp`, `string.cpp`, `utils.cpp` | - | paths, directories, pid files, the shell | sysfs |
| orom, efi, mpb, log | - | firmware tables, metadata blocks, log lines | - |

What is hard here:

* *Nothing is locked.*  No mutex exists in the library, while
  `doc/man/man3/ssi_functions.3` requires every function to be re-entrant.  Threads
  interleave in `HandleManager`, `SessionManager` and `EventManager`.
* *Handles are resolved twice.*  A consumer reads a handle in one session; a mutating
  call looks it up in another, temporary session with its own discovery.
* *The event path crosses processes.*  Daemon, ssimsg and consumer share a semaphore
  through system calls with gaps between them; any process may die.
* *The daemon has two sources of change* with different handling, and compares only
  one of them.
* *Daemon and monitor are shared by pid files.*  Any process may start ssieventmonitor or
  the mdadm monitor, and every process that finalizes kills them for all.
* *The configuration of the system is replaced* by whichever process finds that it is not
  the library's own, in steps another one may fall between.
* *Discovery is a walk*, not a snapshot: devices appear and vanish between two readings.
* *RAID operations are chains of commands*, of which any may fail, with retries.

What makes each part correct: a handle names at most one live object and never
another one than it was issued for; no object outlives its session; a session is a
snapshot, which has what was there all the time, once, with lists and links that agree;
every event that occurs while a handle is held is received; the semaphore
neither grows without bound nor leaks; every change leads to an ssimsg; who holds a handle
has a daemon, and none is left behind; the administrator's mdadm.conf survives; a failed
chain of commands leaves the arrays as they were or says what it left.  The hazards,
each at its line, are listed in `PROJECT.json`.

## 2. Modules

| Module | Models | Proofs |
|---|---|---|
| `NotificationService` | what the holder of an event handle is promised: the abstract specification | - |
| `EventSemaphore` | EventManager, Event, the semaphore, ssimsg; implements `NotificationService` | `EventSemaphoreProofs` |
| `EventMonitor` | the event loop of ssieventmonitor with mdstat and inotify | `EventMonitorProofs` |
| `MonitorDaemon` | start, pid file and end of ssieventmonitor by several processes | `MonitorDaemonProofs` |
| `MdadmConfig` | check, backup and replacement of mdadm.conf, the mdadm monitor | `MdadmConfigProofs` |
| `SessionHandles` | SessionManager, HandleManager, sessions and temporary sessions | `SessionHandlesProofs` |
| `Topology` | the discovery of a session: the walk of sysfs, links, scopes, registration | `TopologyProofs`, `TopologySessionProofs` |
| `RaidOps` | operations on arrays and volumes as chains of mdadm commands that may fail | `RaidOpsProofs` |

`MCEventSemaphore`, `MCSessionHandles` and `MCRaidOps` add the symmetry sets of the
TLC runs, `MCTopology` the cabling.

### 2.1 EventSemaphore

State: `m_events` (the Events registered in each client), `semOf` (`m_semId` of each
Event that exists), `waits` (which Event a thread is blocked on), the kernel's `key`,
`semval` and `nextSem`, and for each ssimsg the next system call `pc` and the
identifier `sid` it found.  `owed` and `crashed` are history.

| Action | Code |
|---|---|
| `Initialize`, `Finalize` | `SsiInitialize`; `SsiFinalize` with `~EventManager` |
| `GetEventHandle` (`SemGetCreate`) | `SsiGetEventHandle`, `EventManager::registerEvent`, `Event::registerEvent` |
| `FreeEventHandle` | `SsiFreeEventHandle`, `unregisterEvent` |
| `WaitCall`, `WaitOk`, `WaitFails` | `SsiEventWait`: `getEvent`, then `semtimedop` returns with success, or with a timeout or a removed semaphore |
| `Release`/`Destroy` in the actions that drop a reference | the `shared_ptr` and `~Event` |
| `Crash` | the process dies |
| `MsgSemGet`, `MsgGetVal`, `MsgSemOp` | the three system calls of ssimsg |

Granularity: one system call is one step.  A call of `EventManager` is one step too,
except that `SsiEventWait` blocks.  Abstractions: time (a wait may time out whenever
the semaphore is 0), failing `ftok`, failing allocation, and identifiers of
semaphores that belong to others.

`ServiceProvided` is the specification of `NotificationService` under the refinement
mapping `holding` = a handle is registered, `credit` = the semaphore's value and the
ssimsg that have found the present semaphore, `owed` = an Event is owed something.  An
ssimsg that starts is `Occurs`, one that reads a value that is not 0 and ends is `Merge`,
a wait that succeeds is `Deliver`, and everything else stutters.  It is stated for one
caller: two processes take each other's events from the one semaphore.

### 2.2 SessionHandles

State: `m_sessions` and `m_objects` are the two maps, `devs[s]` and `m_handle[s]` the
objects of a Session and their handles, `call[t]` the API call of thread `t` with its
local variables, `hw` the devices present.  `mem` is the consumer: the handle it last
read, with what it stood for.  `fresh` and `excused` are history.

| Action | Code |
|---|---|
| `OpenCall`, `OpenInsert`, `OpenReturns` | `SsiSessionOpen`, `SessionManager::openSession`; the insertion is split where `HandleManager::insert` goes back to the map |
| `OperateCall`, `Operate` | `getTempSession`, then `Container::find` of the handle: the common frame of all mutating calls |
| `Discover`, `Add` | `Session::initialize` finding one device after the other; `Session::addEndDevice` and its siblings, split in the same way |
| `InitializeThrows` | the `catch` of `openSession` and of `getTempSession` |
| `ReadCall`, `Read` | `getSession`, then `SsiGet...Handles` |
| `Close` | `SsiSessionClose` |
| `Release`, `Destroy` | the last `shared_ptr` of a Session; `~Session`, which calls `HandleManager::remove` for one object after the other, in the thread that dropped it |
| `SsiInitialize`, `SsiFinalize`, `Hotplug` | the context; the system |

Every access to a `std::map` is one step.  (The code does not make it so: concurrent
access to a map is undefined behaviour.  The model gives the code the benefit of
atomic accesses; even so two discoveries that overlap may leave a device without a
handle, section 6.)  Memory may run out wherever an object is put into a map or a list:
`openSession` then fails, but `Session::addEndDevice` and its siblings ignore the results
of `ContextManager::add` and of `Container::add`, so that an object may be in the Session
without a handle, or registered and in no Session (`Orphan`), which no destructor removes.
Abstractions: one kind of object for all; a discovery visits devices in a fixed order; the
effect of an operation is whether and which device it reaches.

### 2.3 EventMonitor

State: `mdstat`, `moved`, `queue` are the kernel's; `containers[2]` and `current` the
buffers; `pc`, `readable`, `batch` the place in the loop.  `blind` is the descriptor 1
that stands for a failed `inotify_init`.  `told`, `link` and `excused` are history.

| Action | Code |
|---|---|
| `Start`, `Configure` | `_event_watch`, `_configure_inotify` |
| `Select` | `pselect` in `_handle_all` |
| `HandleMdstat`, `Announce` | `_handle_mdstat`: `_read_mdstat` and `_members_changed`; `_exec_ssimsg` |
| `ReadInotify`, `HandleEvent`, `Reread` | `_handle_inotify`: `read`; for every event `_exec_ssimsg`, then `_read_mdstat` |
| `MdChanges`, `MdEvent`, `LinkChanges` | the kernel and udev |

A reading of mdstat is one step, as is the run of an ssimsg.  SIGTERM, which ends the
daemon anywhere, is in `MonitorDaemon`.  ssimsg is taken to be
installed in one of the directories `_exec_ssimsg` tries; a child of `vfork` that finds
it nowhere returns from the function, which is undefined.

### 2.4 MonitorDaemon

State: of each client `ctx`, `registered` (its `EventManager` has an Event),
`m_notInitialized`, its place `pc` in a call and the `pid` it has read; of each daemon
`daemon`, from "forked" to "dead"; the `pidfile`.  `unwatched` and `raced` are history.

| Action | Code |
|---|---|
| `SsiInitialize`, `RegisterEvent`, `UnregisterEvent`, `Finalize` | `EventManager`: constructor, `registerEvent`, `unregisterEvent`, destructor |
| `StartRead`, `StartProc`, `Spawn` | `startEventMonitor`: `readPidFile`, `processExist`, the shell that runs `ssieventmonitor --daemonise` |
| `StopRead`, `StopProc`, `Kill`, `Fini` | `stopEventMonitor`: the same and `kill`; the rest of `SsiFinalize` |
| `WritePidFile`, `Terminate` | `_deamonise` in the child; the handler of SIGTERM, which unlinks the file |
| `DaemonFails`, `ClientDies` | a daemon that ends by itself or is killed; a process that dies |

A process identifier is not reused.  One call runs in a process at a time.

### 2.5 MdadmConfig

State: `conf` and `orig` are what `/etc/mdadm.conf` and its backup hold, as one of a few
contents (nothing, empty, what the administrator wrote last or before, the library's own,
and the library's own with arrays appended); `config[c]` is what client `c` has read and
is to save, `pc[c]` its next system call; `monitor` and `dying` are the process
`autorebuild.pid` names.  `excused` is history.

| Action | Code |
|---|---|
| `SsiInitialize`, `CheckConfiguration` | `configuration_init`, called by `SsiInitialize` and at the end of every `Session::initialize` |
| `Read`, `ReadFails`, `Probe` | reading of the file and its comparison; `monitor_running` |
| `Backup`, `Save`, `Truncate`, `Write` | `backup_config`, `write_config`: opening truncates, writing follows |
| `Stop`, `Start`, `Launch`, `SsiFinalize` | `stop_monitor`, `start_monitor`; `configuration_fini` |
| `AdminEdits`, `RenameAppends`, `OtherMonitor`, `MonitorDies`, `ClientDies` | the administrator, `Array::renameVolume`, the distribution, the signal, a process that dies |

`Save` and `Write` may fail after the file has been truncated: `File::write` throws only
when it cannot open the file, and ignores what `::write` returns (`filesystem.cpp:267-275`).
The model takes `autorebuild.pid` to name the running mdadm monitor, as the code does.

### 2.6 Topology

State: `plugged` is the hardware; `todo` is the call stack with the loops of the walk,
innermost task first; the rest are the members of the objects built so far: `phys`,
`ports`, `wires`, `subtractive`, `joined` of the wiring; `parent` and `scope` (the four
lists of a scope); `enclosures`, `lister`, `mounted`, `members`, `box` of the enclosures;
`session` is the sequence of registered objects.

| Actions | Code |
|---|---|
| `ListPhys`, `ReadPhy`, `CreatePort`, `ListPorts`, `DiscoverPort`, `AttachExpander`, `OpenEndDevice` | ISCI: `isci.cpp`, `isci_phy.cpp`, `isci_expander_phy.cpp`, `isci_port.cpp`, `port.cpp` |
| `ReadDir`, `StatTargets`, `AttachSingle`, `AttachMember`, `AttachMultiplier` | AHCI: `ahci.cpp`, `ahci_phy.cpp`, `ahci_multiplier.cpp` |
| `ReadDir`, `StatNvme`, `ReadNvmeDriver`, `AttachSingle` | VMD: `vmd.cpp`, `nvme_phy.cpp` |
| `AddToSession` | `addToSession` of Controller, RoutingDevice, Enclosure, EndDevice; registration in the session |
| `Opened`, `Stop` | `Session::initialize` returns, or throws |
| `Change` | hot plug between any two readings |

Each step is one reading of sysfs with all the code does of it, with these exceptions.
`DiscoverPort` is the up to three listings of a port (`isci_port.cpp:56`, `66` and `84`),
and `CreatePort` those of `isci_expander_phy.cpp:76-88`: what a port leads to is decided at
one moment.  Left out by that is an expander that vanishes between line 86, which lists it,
and line 88, which resolves its path to an empty one: the port is then taken for the
subtractive port of its expander and the one that was is dropped.  `ReadDir` lists the NVMe
drives once for the one controller VMD domains are merged into, where `VMD::discover` lists
them for every domain (`vmd.cpp:95-113`).  `ahci.cpp:79` dereferences the first entry of a
listing of an `ata` port, which is empty when its host vanishes at that moment; the search
for the hosts of an AHCI controller is not modelled.  The names of objects,
sysfs attributes, SMP and SCSI requests are left out, and the number of a handle is in
`SessionHandles`.  `At`, the owner of each device, is any finite tree: `TreeAssumption`
says that of any devices one has none of them above it, and one none below.

### 2.7 RaidOps

State: `held` (which running container has a disk), `meta` (what the metadata on it
says), `up` (the containers that run) and `volume` are mdadm's and the kernel's; `pc`,
`call` and `result` are the API call of each process: its next command, what it found
and decided, and how the last one ended.  `stuck`, and `joined`, `alone` and `refused`
of a call, are history.

A call of the API discovers the system in a session of its own and decides by that
picture.  This is one step (`Begin`), with the refusals of the code as its guards: a
call that is refused runs no command and is not a step.  Then each mdadm command is a
step, which may fail, and what the code does after it belongs to it.

| Actions that begin a call | Code | Commands |
|---|---|---|
| `MarkAsSpare`, `MakeSpare`, `Rebuild` | `SsiDiskMarkAsSpare`, `Controller::makeSpare`, `SsiVolumeRebuild` | `Add`; `MakeSpare` tries one container after the other, then `Create` |
| `UnmarkAsSpare` | `SsiDiskUnmarkAsSpare` | `Unplug`, `Wipe` (`Array::removeSpare`) |
| `AddDisks` | `SsiAddDisksToArray`, `Array::grow` | `Add`, `Reshape`; when that fails, `Unplug` and `Wipe` for every disk put in (`TakeBack`) |
| `Modify` | `SsiRaidLevelModify`, `Volume::modify` and `__toRaid0`, `__toRaid10`, `__toRaid5` | `Relevel` before or after `Add`, and `Reshape` |
| `Delete` | `SsiVolumeDelete`, `Volume::remove` | `StopVolume`, then `Kill`, or for the last volume `StopArray` and `WipeAll` with `Retry` (`Array::remove`) |
| `Rename` | `SsiVolumeRename` | `StopVolume`, `Name`, `Scan`, `Assemble` |
| `CreateFromDisks` | `SsiVolumeCreateFromDisks` | `Create`, `CreateVolume`; when that fails `StopArray` and `WipeAll` |
| `CreateFromArray` | `SsiVolumeCreate` | `CreateVolume` |
| `ClearMetadata` | `SsiDiskClearMetadata` | `Wipe` |
| `Sync` | `SsiExpandVolume`, `SsiVolumeVerify` | `StartSync` |
| `CancelVerify` | `SsiVolumeCancelVerify` | `Cancel` |

`DiskFails`, `SpareTaken` and `Settles` are md and mdmon.  What mdadm does to the
system is taken from what the code counts on: it refuses a disk that is in use, a
container with running volumes is not stopped, `-I` starts what is stopped.  mdadm is
atomic, except that `-a` and `--zero-superblock` may treat some of their disks and fail.

Left out: sizes, strip sizes, names (apart from the ones `renameVolume` refuses), kinds
of disk, the order of volumes in a container, a process that dies in the middle of a call,
the write hole policy and the cache, which are settings nothing else here depends on.  The
status "stuck" is `SSI_StatusFailed` of a call whose clean-up has failed as well; "thrown"
is no status: an exception has left the call.  The one case is the renaming, which appends
to `/etc/mdadm.conf` what `mdadm -Ebs` lists (`Scan`); when the file cannot be opened,
`File::write` throws, and nothing up to the consumer catches it.

mdadm starts a volume of which enough disks are there, and not all have to be
(`Startable`, `There`): a volume with one missing comes up degraded.

`stuck` has the volumes a call could not start again, did not come to start again because
of that exception, failed to delete, or took something
from which it did not see: a disk (`Unplug`) or the container (`StopArray`) of a volume
that is down and not in its picture.  A volume a call has stopped is known to it by its
device.  When that device has been given to a volume of another container meanwhile, the
call stops that one and leaves it down: `stuck` records it too.  This last case needs
three calls, one more than the run makes; the theorems cover it.

## 3. Runs

| Run | Bounds | Shows |
|---|---|---|
| `event_sole` | 1 client, 1 thread, 4 ssimsg, 2 Events, 2 semaphores | No event is lost, every event is delivered, the notification service is implemented. |
| `event_shared` | 2 clients with 2 threads, 2 ssimsg, 4 Events, 3 semaphores | The semaphore's value is bounded, a waiter keeps its Event, the semaphore is removed with its last user. |
| `sessions` | 2 threads, 2 devices, 2 Sessions, handles 1..3, 1 orphan | Handles are unique, nothing stays registered but what a list could not take, sessions are snapshots, a repeated discovery numbers alike. |
| `handle_reuse` | 1 thread, 2 devices, 2 Sessions, handles 1..6, no orphan | *Violation*: a handle of a closed session stands for another device. |
| `open_handles` | 1 thread, 2 devices, 2 Sessions, handles 1..6, no orphan | *Violation*: an operation does not find the device of a handle whose session is open. |
| `monitor` | 2 containers, buffers of 1, 1 disk, 2 waiting events, 1 fault | No lasting difference and no link is missed, except where excused. |
| `monitor_absorbs` | 1 container, 1 disk, 1 waiting event, no fault | *Violation*: a change between a reading and its ssimsg is never told. |
| `daemon` | 3 clients, 3 daemons, 1 fault | Who holds a handle has a daemon, and no daemon is left behind, except where excused. |
| `mdadm_config` | 2 clients, 3 faults or interferences | The administrator's file survives; the mdadm monitor comes back. |
| `topology` | 1 SAS, 1 SATA and 1 VMD controller with 13 devices, of which 1 is absent at first; 2 changes; 2 lanes | What was there all the time is reported, once, with lists, controllers, enclosures and links that agree; opening fails only when something is unplugged. |
| `raid_ops` | 2 processes, 4 disks and a system disk, 2 containers, 2 volumes, 2 calls, 4 attempts, 1 failing disk | No volume of the picture is destroyed but the one to be deleted; a volume that is down has a reason; a failure leaves no disk behind and takes no spare away; success of a deletion or migration is one; system disks are not touched. |
| `raid_delete` | 1 process, otherwise the same | *Violation*: deleting the only running volume destroys one that is down. |

Why the bounds are enough.  Three ssimsg let two overtake a third between reading and
posting, and the fourth starts meanwhile; two semaphores let one be removed and created
again while an ssimsg still holds the old identifier.  Two threads are the least that race
for a handle, and three handles with up to four objects make them run out with holes below
the last key; one orphan is one that every later session has to live with.  A buffer of one container with two containers in mdstat exercises truncation
and its dependence on the order; two waiting events make a batch with a successor.  Three
clients are one that holds a handle, one that starts a daemon and one that ends it; three
daemons are one to be replaced, one started too many and one after it.  Two clients are
enough for one check to fall between the steps of another, with three interferences beside
them.  The cabling has two expanders in a row, so that lists are copied twice, an enclosure
on each kind of owner, a multiplier with two disks and links of two lanes; two changes let
one device vanish that another one is listed with, or come behind one that goes.  Two calls
are a first one that leaves something behind and a second one that meets it, or two at
once; two disks in the container and two outside admit every migration, those that start
from RAID 5 or RAID 10 as second calls; four is the number of attempts in `Array::remove`.
The theorems of section 5 remove the bounds for the properties they state.

A deadlock is not an error in the runs of EventSemaphore: `MaxSem` stops the creation of
semaphores, which is a bound of the model; nor in those of RaidOps, where `MaxCalls` is
one, nor in `topology`, where a discovery ends.  The other runs check for deadlock.

The history variables say what a property is about and constrain no action, with one
exception that is a bound: `Read` does not replace the handle the consumer remembers
while an operation uses it.  The excuses are causes, not effects:

* `HandlesAssigned` excuses discoveries that overlapped and handles or memory that ran out,
  since `SsiInitialize` (section 6).  `NoStaleObject` excepts an object whose `Container::add`
  failed.  `SnapshotStable` is about a session `SsiSessionOpen` has returned.
* `ChangeNoticeable` and `ChangeTold` excuse failed system calls and changes between a
  reading and its ssimsg, and `monitor_absorbs` shows the latter.
* `HolderWatched` excuses a holder after another process has finalized, after a daemon has
  failed or could not be started, and one that found a daemon with a signal to die of:
  `m_notInitialized` is not set again.  `NoDaemonLeft` excuses readings of the pid file
  while a daemon that is starting is not in it, a daemon that could not write it, and
  processes that die.
* `UserConfigKept` excuses checks that fail to read or to save the file, a process that
  dies or fails between truncating and writing the backup, an administrator who writes during a
  check, and a renaming, which makes the library's own file look like the administrator's.
* `StableReported` excuses devices listed in one `Directory` with another that vanishes,
  multipliers with one disk and enclosures on an HBA (section 6).
* `DeletedIsGone` and `FailureLeavesNoTrace` speak of calls no other one ran beside: disks
  that another process adds to a container between the picture and the end are not among
  those a call treats.  `VisibleVolumesSurvive` excuses a volume that another call is
  deleting, and what is in `stuck`.  `DownIsExplained` counts a volume in `stuck` as explained,
  the one an exception left down included.

## 4. Fairness

* `EventSemaphore!FairSpec`: a started ssimsg runs to its end (it never blocks), a
  `semtimedop` that can return does (it has a timeout), and the consumer keeps calling
  `SsiEventWait` on a handle it holds, as the interface asks it to.  Nothing is assumed
  of `SsiGetEventHandle`, `SsiFreeEventHandle`, crashes or the start of an ssimsg.
* `EventMonitor!FairSpec`: the daemon is scheduled, and `pselect` returns when a
  descriptor is ready or its 5 seconds are over.  Nothing is assumed of the system.
* `MdadmConfig!FairSpec`: a check that has begun goes on (no step of it waits for
  anything), mdadm dies of the SIGTERM it has been sent, and a client that has initialized
  the library opens a session now and then, which is what starts a check.  Nothing is
  assumed of other processes.

## 5. Proofs

All theorems hold for every value of the constants that the modules' assumptions
admit; TLC evaluates these assumptions in the runs.

* `EventSemaphoreProofs`.  `TypeCorrect`; `SemvalStaysBounded`: `BoundInv` adds to the
  bound that identifiers grow, that a posting ssimsg has one, and that a removed
  semaphore has no value, without which a post to a reused identifier could not be
  excluded; `WaitersKeepTheirEvents`: `RefInv` says that every referenced Event exists;
  `SemaphoreNeverLeaks`: a semaphore nobody names is removed with the Event that drops the
  last reference; `SoleHandleUsable` and `SoleNoLostEvent`: for one client with one thread
  and any number of ssimsg, `SoleInv` says that at most one Event exists, that it is
  registered and names the current semaphore.  The value may exceed 1 and an ssimsg may be
  dropped, yet either a token or a posting ssimsg is always there for what is owed.
  `SoleServiceProvided`: under the same assumption every step is a step of
  `NotificationService` or a stutter.
* `SessionHandlesProofs`.  `Invariance` proves an inductive invariant of several parts:
  calls are well formed; a Session under construction or being destroyed belongs to one call
  only, and an opening one is registered; an unreferenced Session has no objects; objects and
  map agree in both directions, also for the objects not discovered yet and those already
  removed; an object about to be added has a handle that was free when it was computed; what
  the consumer remembers of an open session is what the session has.  From it follow
  `TypeCorrect`, `HandlesStayUnique`, `NoObjectLeaks`, `SoleDiscoveryAssigns` and
  the action property `SessionsAreSnapshots`.  `OpenHandlesAreRefused` is the other side of
  the violation `open_handles`: what that run shows once is so always, an operation finds
  nothing under a handle of a session that is open.  `ReadHandleIsFound` needs one invariant more:
  `Alike` says that a session numbered alone from 1 gives each of its devices its place in
  the hardware as handle, and is complete once it is not under construction, until
  something is plugged; what was read from one such session is what the next one assigns.
* `EventMonitorProofs`.  `Invariance`: unless excused, the current buffer is what was
  told last wherever the loop is between two pairs of reading and ssimsg, equals mdstat
  between a reading and its ssimsg, and what was told equals mdstat between the ssimsg
  for a link and the reading after it.  From it follow `TypeCorrect`,
  `ChangesStayNoticeable` and `LinksStayNoticeable`.
* `MonitorDaemonProofs`.  `TypeCorrect`; `HolderAlwaysWatched`: whoever counts on a daemon
  and is not excused has one that serves, which `AllBut` keeps up when one is killed;
  `NoDaemonIsLeft`: as long as the pid file was not read too early, one process at a time is
  between reading it and starting a daemon, at most one daemon is alive, the file names it
  once it runs, and a process that has not read the file for the last time is there to end it.
* `MdadmConfigProofs`.  `TypeCorrect`; `UserConfigIsKept`: whoever is about to truncate the
  file can count on a copy, in the backup or on its way there, and whoever is about to
  overwrite the backup holds the same copy.
* `RaidOpsProofs`.  `TypeCorrect` says, with the type of the chains, that a container is
  stopped at most `MaxTries` times; `SystemDisksStayOut`: `CallSafe` says that what a chain
  may still put into a container is free of system disks, which its beginning has checked;
  `NoSpareIsLost`: `CallOwns` says that before a call can come to take its disks back, it has
  put them in itself; `DownForAReason`: a volume that is down is one that a call under way has stopped, or in
  `stuck`, where `Scan` puts it when the exception ends the renaming; the invariant says besides
  which volumes of a container that is stopped remain, and that a volume a call is starting or deleting is the
  one it stopped or is in `stuck`.
  On top of these: `VolumesSurvive`: what destroys a volume is the loss
  of metadata on all its disks, so `VInv` follows the disks.  `Matched` says that a disk in a
  container names it in its metadata, `Whole` that a volume not in `stuck` and not being
  removed has its disks, in its container; `Kinds` which kind of call may be at which
  command, and with which disks.  `DeletionIsDone`, `FailureIsUndone` and
  `ModificationIsDone` speak of a call that no other one runs beside, and `AInv` is what such a
  call knows: the disks it has taken back are clean (`Cleaned`), the disks it is to wipe are
  all that the volume and its container have (`Deletes`), the volume it changes runs and has
  its new level unless that is still to come (`Modifies`).  The disks and volumes are finite
  (`FiniteAssumption`), as mdadm's refusals count them.
* `TopologyProofs`.  `TypeCorrect`: `Types` says which object a task of the walk is about, and
  what the lists of an object may hold.  That the recursive functions over the tree
  (`Among`, `Gathered`) return lists of devices at all is an induction over the tree, which
  `TreeAssumption` allows: the devices for which it fails would have one with none of them
  below it.  `FailureNeedsUnplug`: `Seen` says that every port and task was reached through
  devices that are plugged in or have been unplugged since, and that an expander to be
  attached has been found by the port that leads to it.  `ControllersAgree`: `Up` says that
  the parent of an object is what it is plugged into, that the tasks still to do hold
  objects with their parents, and that the lists of an object are made of those of the
  routing devices below it, so that whatever a controller lists leads up to it.
  `EnclosuresFollow`: every task that is about a controller or a device below it comes
  before the registration of that controller (`Staged`), and an expander that has tasks leads
  up to its controller (`Rooted`), so nothing is attached below a controller that has been
  registered.  An expander mounts the last of its own enclosures that its controller lists
  (`Mounts`); `Enclosure::addToSession` goes through that list in order, so the last one to
  take a disk is the one its expander names (`Fills`), and a disk and its enclosure agree.
  `ScopesFollow`: `Divided` says that the tasks that are left are about different devices,
  and none about one that is attached already, so that a device is attached once.  `Scoped`:
  the lists of a routing device to be attached are complete and without repetition, and the
  copies that `attachRoutingDevice` makes keep the lists of everything above it so.
* `TopologySessionProofs`, on top of it, is about what an open session holds.
  `RegisteredOnce`: phys and ports are listed once, by their own object (`Numbered`);
  nothing of what is below a controller that has still to add its objects is in the session,
  so that adding them repeats none (`Registers`).  `LinksFollow`: what is linked is on a list
  or belongs to a device that a list or a task has (`AllWired`, `AllJoined`); a task about a
  phy or a port has it in the list of its owner (`Backed`); a routing device with something
  to do, or with something on its lists, is attached or has a task that will attach it
  (`Escorted`, `Hung`); and once a controller is added all that is below it is in the session
  (`Complete`), so that in an open library no list holds an object that is not (`Whole`).
  `StableFound`: a device that is there all the time, with all it hangs from, and that the
  code reports at all (`Wanted`) is on a list, or a task is pledged to see it attached
  (`Covered`).  Every task honours its pledges (`Honours`): it lists the device or hands it on
  to a task it leaves.  What `Covered` needs beside it is that what was read of a host has all
  that is wanted of it (`Backed` again), and that the ports of an object are listed only after
  the phys that find them have been read (`PortsKnown`).  When no task is left every such
  device is on a list, and `Whole` says that what is listed is registered.
  `NamesAssumption` says that phys and ports are objects of classes of their own.

Only model-checked: `EventDelivered`, `ChangeTold` and `MonitorRestored`, as liveness under
fairness is out of the prover's reach.  Every invariant and every action property that a
passing run checks has a theorem.

## 6. What the checks found

Violations, each of a run of its own:

* `handle_reuse`: handles start over when nothing is registered (`handle_manager.h:172`),
  which `ssi_types.3:94-96` rules out.  The same renumbering is what lets a consumer
  operate after it closed its session (`ReproducibleHandleFound`).
* `open_handles`: while a session is open its objects hold their handles, and the temporary
  session of an operation is numbered after them, so the operation with any handle of the
  open session is refused.  `SsiSessionOpen.3:89-92` says that handles "are valid across ALL
  sessions", and that a volume that "has a handle of X" will "always have X"; the unit tests
  operate with handles of the session they hold open (`ut_markasspare.cpp:62-111`).
* `monitor_absorbs`: `ssieventmonitor.cpp:478`; `SsiGetEventHandle.3:69-70`.
* `raid_delete`: `Array::discover` sees running volumes only, and `volume.cpp:385` and
  `array.cpp:318` count these to find out whether the container may go.  A volume that a
  failed renaming left down goes with it; `SsiVolumeDelete.3:40-44`.

Weaknesses the models show or excuse, without a run of their own:

* Two `SsiSessionOpen` (or operations) that overlap may compute the same next handle; the
  second insertion finds it taken, `session.cpp:326` ignores that, and the device is in the
  session with the NULL handle (against `ssi_functions.3:199-201`).  `HandlesAssigned`
  excuses it; `HandlesUnique` holds all the same.
* An object that was registered and that its container had no memory for stays registered
  until `SsiFinalize` (`session.cpp:326`).
* A renaming for which `/etc/mdadm.conf` cannot be opened throws after the volume was stopped
  and renamed (`array.cpp:375`, `filesystem.cpp:267-270`): the volume stays down, although
  `volume.cpp:364` means to "assemble volume again even when rename failed", and the exception
  reaches the consumer of `SsiVolumeRename`.  `DownIsExplained` has it as a reason.
* A `::write` that fails after the truncation leaves `mdadm.conf` or its backup empty, and
  nobody is told (`filesystem.cpp:271-275`).
* A handle that is freed while another thread waits on it, and obtained again, shares the
  semaphore; when the old wait returns, its Event's destructor removes it (`event.cpp:53`,
  against `SsiGetEventHandle.3:65-67`).
* A migration to RAID 0 that fails after its checks returns their status, `SSI_StatusOk`
  (`volume.cpp:1107` and `1133`, against `SsiRaidLevelModify.3:66`).  `ModifyOkMeansDone`
  excepts this level.
* `Volume::modify` does not check for the state `Normal` that `SsiRaidLevelModify.3` asks
  for; `Volume::remove` knows no system or locked volumes (`SsiVolumeDelete.3`); the disks a
  failing `mdadm -a` has taken are not taken back.
* The disk of a volume that another process has stopped, to delete or to rename it, is not in
  use: `mdadm -r` of `Array::removeSpare` takes it out and the wipe after it destroys its part
  of the volume (`array.cpp:289`).  `VisibleVolumesSurvive` excuses it by `stuck`.
* The disks behind a port multiplier name no controller (`ssi.h:1031-1032`), and a
  multiplier with one disk is taken for that disk.  An enclosure on an HBA is dropped.  Of
  two enclosures on one expander both list its disks, which point to the last.
* A device that vanishes between `readdir` and `stat` empties the listing it is in
  (`filesystem.cpp:88`), yet `SsiSessionOpen` succeeds.  An ISCI port that vanishes makes
  the whole call fail (`isci_port.cpp:87`); an expander that vanishes in its discovery
  leaves a null pointer.  `SsiSessionOpen.3:39-42` speaks of a snapshot.

## 7. Not modelled

* Attributes of disks, phys and controllers, and the getters of `session.cpp` and of the API:
  they copy what discovery has stored, and change nothing.
* Parsing of mdadm's output, of sysfs and of option ROM, EFI and metadata, SMP and SCSI
  requests, logging: input and output without state that outlives a call.
* Undefined behaviour of unlocked access to one `std::map`, and `SsiFinalize` with open
  sessions, whose members are destroyed in an order that leaves dangling references.
* The vendored Boost and safeclib, the unit tests, and `ssi.h`, which is mostly the
  declaration of records.

These are by far the most lines of the repository: of some 46,000, about 18,000 are the
engine, the API and the tools, and of these the control that has state, order or failure to
get wrong is what the modules stand for.

## 8. Plan

1. The composition of `MonitorDaemon`, `EventMonitor` and `EventSemaphore`: an event that
   occurs is returned to a holder that is watched.
2. A registration split at its check of the number of handles, for two threads that get
   event handles at once.
