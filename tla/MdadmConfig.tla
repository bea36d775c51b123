----------------------------- MODULE MdadmConfig -----------------------------
(***************************************************************************)
(* The configuration of mdadm and its monitor.  SsiInitialize and the end  *)
(* of every discovery check /etc/mdadm.conf.  When it is not the library's *)
(* own, the library saves it to /etc/mdadm.conf.original and writes its    *)
(* own; then it restarts `mdadm --monitor', which runs ssimsg.             *)
(* SsiFinalize stops the monitor.  Other processes do the same meanwhile.  *)
(***************************************************************************)
EXTENDS Naturals

CONSTANTS
  Clients,   \* processes that load the library
  MaxFaults  \* bound: calls that fail, processes that die and interferences

ASSUME MaxFaultsAssumption == MaxFaults \in Nat

VARIABLES
  ctx,      \* ctx[c]: pContextMgr is not NULL
  pc,       \* pc[c]: what c does next, "idle" between two calls
  config,   \* config[c]: what c has read and is to save
  conf,     \* what /etc/mdadm.conf holds
  orig,     \* what /etc/mdadm.conf.original holds
  monitor,  \* the mdadm monitor autorebuild.pid names
  dying,    \* it has been sent SIGTERM
  faults,   \* faults so far
  excused   \* history: something happened the library does not guard against

files == <<conf, orig, config, excused>>
processes == <<monitor, dying>>
vars == <<ctx, pc, files, processes, faults>>

(* "user" is what the administrator has written last, "old" what he had     *)
(* before, "std" the library's stdConfig, "renamed" the same with arrays    *)
(* appended by Array::renameVolume.                                         *)
Content == {"absent", "empty", "user", "old", "std", "renamed"}
Nothing == "absent"

Steps == {"idle", "read", "probe", "backup", "save", "truncate", "write", "stop", "start", "launch"}

Fault == faults < MaxFaults /\ faults' = faults + 1

-----------------------------------------------------------------------------
(* configuration_init.  Opening a file for writing truncates it; its new    *)
(* content is there one system call later, if that call does not fail,      *)
(* which File::__internal_write does not look at.                           *)

Goto(c, from, to) ==
  /\ pc[c] = from
  /\ pc' = [pc EXCEPT ![c] = to]
  /\ UNCHANGED ctx

(* The end of the check, and of SsiInitialize when it belongs to that.      *)
Checked(c, from) ==
  /\ pc[c] = from
  /\ pc' = [pc EXCEPT ![c] = "idle"]
  /\ ctx' = [ctx EXCEPT ![c] = TRUE]

(* SsiInitialize, and check_configuration in Session::initialize            *)
SsiInitialize(c) == ~ctx[c] /\ Goto(c, "idle", "read") /\ UNCHANGED <<files, processes, faults>>
CheckConfiguration(c) == ctx[c] /\ Goto(c, "idle", "read") /\ UNCHANGED <<files, processes, faults>>

Keep(c, content) == config' = [config EXCEPT ![c] = content]

ReadBacksUpAnything(c) ==
  /\ IF conf = "std" THEN Goto(c, "read", "probe") /\ UNCHANGED config
     ELSE Goto(c, "read", "backup") /\ Keep(c, conf)
  /\ UNCHANGED <<conf, orig, excused, processes, faults>>

(* An absent or an empty file throws, which leaves nothing to be saved.     *)
Read(c) ==
  /\ IF conf = "std" THEN Goto(c, "read", "probe") /\ UNCHANGED config
     ELSE IF conf \in {"absent", "empty"} THEN Goto(c, "read", "truncate") /\ UNCHANGED config
     ELSE Goto(c, "read", "backup") /\ Keep(c, conf)
  /\ UNCHANGED <<conf, orig, excused, processes, faults>>

(* A file that cannot be read is replaced all the same.                     *)
ReadFails(c) ==
  /\ Goto(c, "read", "truncate")
  /\ Fault
  /\ excused' = TRUE
  /\ UNCHANGED <<conf, orig, config, processes>>

(* monitor_running: the process autorebuild.pid names is mdadm with ssimsg, *)
(* whether or not it has a signal to die of.                                *)
MonitorRunning == monitor = "ours"

Probe(c) ==
  /\ \/ MonitorRunning /\ Checked(c, "probe")
     \/ ~MonitorRunning /\ Goto(c, "probe", "stop")
  /\ UNCHANGED <<files, processes, faults>>

(* backup_config; nobody looks whether it has failed.                       *)
Backup(c) ==
  /\ \/ Goto(c, "backup", "save") /\ orig' = "empty" /\ UNCHANGED <<config, excused, faults>>
     \/ /\ Goto(c, "backup", "truncate") /\ UNCHANGED orig
        /\ Fault /\ excused' = TRUE /\ Keep(c, Nothing)
  /\ UNCHANGED <<conf, processes>>

Save(c) ==
  /\ Goto(c, "save", "truncate")
  /\ \/ orig' = config[c] /\ UNCHANGED <<excused, faults>>
     \/ UNCHANGED orig /\ Fault /\ excused' = TRUE
  /\ Keep(c, Nothing)
  /\ UNCHANGED <<conf, processes>>

(* write_config                                                             *)
Truncate(c) ==
  /\ \/ Goto(c, "truncate", "write") /\ conf' = "empty" /\ UNCHANGED faults
     \/ Goto(c, "truncate", "stop") /\ Fault /\ UNCHANGED conf
  /\ UNCHANGED <<orig, config, excused, processes>>

Write(c) ==
  /\ Goto(c, "write", "stop")
  /\ \/ conf' = "std" /\ UNCHANGED faults
     \/ UNCHANGED conf /\ Fault
  /\ UNCHANGED <<orig, config, excused, processes>>

(* stop_monitor: kill -15 of the process autorebuild.pid names.             *)
StopMonitor == dying' = (monitor # "none") /\ UNCHANGED monitor

StopsNothing(c) == Goto(c, "stop", "start") /\ UNCHANGED <<files, processes, faults>>

Stop(c) ==
  /\ Goto(c, "stop", "start")
  /\ StopMonitor
  /\ UNCHANGED <<files, faults>>

(* start_monitor finds it running, perhaps the one it has just told to die. *)
Start(c) ==
  /\ \/ MonitorRunning /\ Checked(c, "start")
     \/ ~MonitorRunning /\ Goto(c, "start", "launch")
  /\ UNCHANGED <<files, processes, faults>>

(* mdadm --monitor --scan: mdadm runs one of these at a time.               *)
Launch(c) ==
  /\ Checked(c, "launch")
  /\ \/ monitor = "none" /\ monitor' = "ours" /\ UNCHANGED faults
     \/ monitor = "none" /\ Fault /\ UNCHANGED monitor
     \/ monitor # "none" /\ UNCHANGED <<monitor, faults>>
  /\ UNCHANGED <<files, dying>>

(* SsiFinalize: configuration_fini                                          *)
SsiFinalize(c) ==
  /\ ctx[c] /\ pc[c] = "idle"
  /\ ctx' = [ctx EXCEPT ![c] = FALSE]
  /\ StopMonitor
  /\ UNCHANGED <<pc, files, faults>>

ConfigurationInit(c) ==
  \/ Read(c) \/ ReadFails(c) \/ Probe(c) \/ Backup(c) \/ Save(c) \/ Truncate(c) \/ Write(c)
  \/ Stop(c) \/ Start(c) \/ Launch(c)

-----------------------------------------------------------------------------
(* What others do *)

Aged(content) == IF content = "user" THEN "old" ELSE content

(* The administrator writes the file, which may cross a check.              *)
AdminEdits ==
  /\ Fault
  /\ conf' = "user"
  /\ orig' = Aged(orig)
  /\ config' = [c \in Clients |-> Aged(config[c])]
  /\ excused' = \E c \in Clients : pc[c] \in {"backup", "save", "truncate", "write"}
  /\ UNCHANGED <<ctx, pc, processes>>

(* Array::renameVolume appends the scan of mdadm to the file.  Later checks *)
(* take the result for a file of the administrator's.                       *)
RenameAppends(c) ==
  /\ ctx[c] /\ pc[c] = "idle"
  /\ Fault
  /\ conf' = IF conf = "user" THEN conf ELSE "renamed"
  /\ excused' = (excused \/ conf' = "renamed")
  /\ UNCHANGED <<ctx, pc, orig, config, processes>>

(* The distribution starts a monitor of its own.                            *)
OtherMonitor ==
  /\ Fault
  /\ monitor = "none" /\ monitor' = "foreign"
  /\ UNCHANGED <<ctx, pc, files, dying>>

MonitorDies ==
  /\ dying
  /\ monitor' = "none" /\ dying' = FALSE
  /\ UNCHANGED <<ctx, pc, files, faults>>

(* A process that dies between truncating and writing the backup takes what *)
(* may be the only copy with it.                                            *)
ClientDies(c) ==
  /\ ctx[c] \/ pc[c] # "idle"
  /\ Fault
  /\ ctx' = [ctx EXCEPT ![c] = FALSE]
  /\ pc' = [pc EXCEPT ![c] = "idle"]
  /\ excused' = (excused \/ pc[c] = "save")
  /\ Keep(c, Nothing)
  /\ UNCHANGED <<conf, orig, processes>>

-----------------------------------------------------------------------------
Init ==
  /\ ctx = [c \in Clients |-> FALSE]
  /\ pc = [c \in Clients |-> "idle"]
  /\ config = [c \in Clients |-> Nothing]
  /\ conf \in {"absent", "user", "std"}
  /\ orig = "absent"
  /\ monitor \in {"none", "foreign"}
  /\ dying = FALSE
  /\ faults = 0
  /\ excused = (conf # "user")

Next ==
  \/ \E c \in Clients : SsiInitialize(c) \/ CheckConfiguration(c) \/ SsiFinalize(c)
  \/ \E c \in Clients : ConfigurationInit(c)
  \/ \E c \in Clients : RenameAppends(c) \/ ClientDies(c)
  \/ AdminEdits \/ OtherMonitor \/ MonitorDies

Spec == Init /\ [][Next]_vars

(* A check goes on, a process that has been told to die does, and a client  *)
(* opens a session now and then.                                            *)
Fairness ==
  /\ \A c \in Clients : WF_vars(ConfigurationInit(c)) /\ WF_vars(CheckConfiguration(c))
  /\ WF_vars(MonitorDies)

FairSpec == Spec /\ Fairness

-----------------------------------------------------------------------------
(* Every variable has its type; what a check is to save is neither nothing *)
(* at all nor the library's own file (configuration_init).                  *)
TypeOK ==
  /\ ctx \in [Clients -> BOOLEAN]
  /\ pc \in [Clients -> Steps]
  /\ config \in [Clients -> Content \ {"empty", "std"}]
  /\ conf \in Content
  /\ orig \in Content
  /\ monitor \in {"none", "ours", "foreign"}
  /\ dying \in BOOLEAN
  /\ faults \in 0 .. MaxFaults
  /\ excused \in BOOLEAN

(* README:29, "Previous version is saved as /etc/mdadm.conf.original": the  *)
(* file the administrator wrote is in place, or in the backup, or about to  *)
(* be written there by a check, however the checks of several processes     *)
(* interleave; unless one of them failed to read or to save it or died      *)
(* while saving it, or he wrote during a check, or a renaming changed the   *)
(* library's own file.                                                      *)
UserConfigKept ==
  \/ excused
  \/ conf = "user" \/ orig = "user"
  \/ \E c \in Clients : pc[c] = "save" /\ config[c] = "user"

(* While a client is there and goes on to open sessions, a monitor runs     *)
(* with ssimsg again, though a check takes one that is about to die for one *)
(* that runs, and other processes stop it when they finalize.               *)
MonitorRestored ==
  \A c \in Clients : ctx[c] ~> (~ctx[c] \/ (monitor = "ours" /\ ~dying))
=============================================================================
