-------------------------- MODULE MdadmConfigProofs --------------------------
(***************************************************************************)
(* The administrator's mdadm.conf outlives any number of processes that    *)
(* check it and replace it at the same time.  The argument: whoever is     *)
(* about to truncate the file can count on a copy, in the backup or on its *)
(* way there, and whoever is about to overwrite the backup holds the same  *)
(* copy.                                                                    *)
(***************************************************************************)
EXTENDS MdadmConfig, TLAPS

Secured == orig = "user" \/ \E c \in Clients : pc[c] = "save" /\ config[c] = "user"

HoldsUsers == \A c \in Clients : pc[c] \in {"backup", "save"} => config[c] = "user"
TruncatesSecured == \A c \in Clients : pc[c] \in {"truncate", "write"} => Secured

Safe == (conf = "user" \/ Secured) /\ HoldsUsers /\ TruncatesSecured /\ conf # "renamed"

IInv == TypeOK /\ conf # "old" /\ (~excused => Safe)

-----------------------------------------------------------------------------
(* The two halves of TypeOK *)
Flags ==
  /\ ctx \in [Clients -> BOOLEAN]
  /\ dying \in BOOLEAN
  /\ excused \in BOOLEAN

Contents ==
  /\ pc \in [Clients -> Steps]
  /\ config \in [Clients -> Content \ {"empty", "std"}]
  /\ conf \in Content
  /\ orig \in Content
  /\ monitor \in {"none", "ours", "foreign"}
  /\ faults \in 0 .. MaxFaults

LEMMA TypeParts == TypeOK <=> Flags /\ Contents
BY DEF TypeOK, Flags, Contents

LEMMA InitIInv == Init => IInv
<1> SUFFICES ASSUME Init PROVE IInv
  OBVIOUS
<1>1. Contents
  BY MaxFaultsAssumption DEF Init, Contents, Content, Steps, Nothing
<1>2. Flags
  BY DEF Init, Flags
<1>3. ~excused => Safe
  BY DEF Init, Safe, HoldsUsers, TruncatesSecured
<1> QED BY <1>1, <1>2, <1>3, TypeParts DEF Init, IInv

LEMMA FlagsStep == Flags /\ [Next]_vars => Flags'
<1> SUFFICES ASSUME Flags, [Next]_vars PROVE Flags'
  OBVIOUS
<1> USE DEF Flags, files, processes
<1>1. ASSUME NEW c \in Clients, SsiInitialize(c) \/ CheckConfiguration(c) \/ SsiFinalize(c) PROVE Flags'
  BY <1>1 DEF SsiInitialize, CheckConfiguration, SsiFinalize, StopMonitor, Goto
<1>2. ASSUME NEW c \in Clients, ConfigurationInit(c) PROVE Flags'
  BY <1>2 DEF ConfigurationInit, Read, ReadFails, Probe, Backup, Save, Truncate, Write, Stop, StopMonitor, Start,
     Launch, Goto, Checked
<1>3. ASSUME NEW c \in Clients, RenameAppends(c) \/ ClientDies(c) PROVE Flags'
  BY <1>3 DEF RenameAppends, ClientDies
<1>4. CASE AdminEdits \/ OtherMonitor \/ MonitorDies \/ UNCHANGED vars
  BY <1>4 DEF AdminEdits, OtherMonitor, MonitorDies, vars
<1> QED BY <1>1, <1>2, <1>3, <1>4 DEF Next

LEMMA ContentsStep == Contents /\ [Next]_vars => Contents'
<1> SUFFICES ASSUME Contents, [Next]_vars PROVE Contents'
  OBVIOUS
<1> USE MaxFaultsAssumption DEF Contents, Content, Steps, Nothing, files, processes
<1>1. ASSUME NEW c \in Clients, SsiInitialize(c) \/ CheckConfiguration(c) \/ SsiFinalize(c) PROVE Contents'
  BY <1>1 DEF SsiInitialize, CheckConfiguration, SsiFinalize, StopMonitor, Goto
<1>2. ASSUME NEW c \in Clients, Read(c) PROVE Contents'
  BY <1>2 DEF Read, Goto, Keep
<1>3. ASSUME NEW c \in Clients, ReadFails(c) PROVE Contents'
  BY <1>3 DEF ReadFails, Goto, Fault
<1>4. ASSUME NEW c \in Clients, Probe(c) \/ Start(c) PROVE Contents'
  BY <1>4 DEF Probe, Start, Goto, Checked
<1>5. ASSUME NEW c \in Clients, Backup(c) PROVE Contents'
  BY <1>5 DEF Backup, Goto, Keep, Fault
<1>6. ASSUME NEW c \in Clients, Save(c) PROVE Contents'
  BY <1>6 DEF Save, Goto, Keep, Fault
<1>7. ASSUME NEW c \in Clients, Truncate(c) \/ Write(c) PROVE Contents'
  BY <1>7 DEF Truncate, Write, Goto, Fault
<1>8. ASSUME NEW c \in Clients, Stop(c) PROVE Contents'
  BY <1>8 DEF Stop, StopMonitor, Goto
<1>9. ASSUME NEW c \in Clients, Launch(c) PROVE Contents'
  BY <1>9 DEF Launch, Checked, Fault
<1>10. ASSUME NEW c \in Clients, RenameAppends(c) PROVE Contents'
  BY <1>10 DEF RenameAppends, Fault
<1>11. ASSUME NEW c \in Clients, ClientDies(c) PROVE Contents'
  BY <1>11 DEF ClientDies, Keep, Fault
<1>12. CASE AdminEdits
  BY <1>12 DEF AdminEdits, Aged, Fault
<1>13. CASE OtherMonitor \/ MonitorDies
  BY <1>13 DEF OtherMonitor, MonitorDies, Fault
<1>14. CASE UNCHANGED vars
  BY <1>14 DEF vars
<1> QED
  BY <1>1, <1>2, <1>3, <1>4, <1>5, <1>6, <1>7, <1>8, <1>9, <1>10, <1>11, <1>12, <1>13, <1>14
  DEF Next, ConfigurationInit

LEMMA TypeStep == TypeOK /\ [Next]_vars => TypeOK'
<1>1. TypeOK' <=> Flags' /\ Contents'
  BY DEF TypeOK, Flags, Contents
<1> QED BY <1>1, TypeParts, FlagsStep, ContentsStep

(* A step of c that touches no file and leaves c out of the replacement, or *)
(* no further in it than it was.                                            *)
LEMMA QuietStep ==
  ASSUME TypeOK, Safe, NEW c \in Clients,
         UNCHANGED <<conf, orig, config>>,
         \A x \in Clients \ {c} : pc'[x] = pc[x],
         pc[c] # "save", pc'[c] \notin {"backup", "save", "write"},
         pc'[c] = "truncate" => Secured
  PROVE  Safe'
<1>1. Secured => Secured'
  BY DEF Secured
<1>2. HoldsUsers'
  BY DEF Safe, HoldsUsers
<1>3. TruncatesSecured'
  BY <1>1 DEF Safe, TruncatesSecured
<1> QED BY <1>1, <1>2, <1>3 DEF Safe

LEMMA SafeStep == IInv /\ [Next]_vars /\ ~excused' => Safe'
<1> SUFFICES ASSUME IInv, [Next]_vars, ~excused' PROVE Safe'
  OBVIOUS
<1>0. TypeOK /\ conf # "old" /\ (~excused => Safe) /\ pc \in [Clients -> Steps]
      /\ config \in [Clients -> Content \ {"empty", "std"}]
  BY DEF IInv, TypeOK
<1>a. CASE AdminEdits
  <2>1. conf' = "user" /\ \A c \in Clients : pc'[c] \notin {"backup", "save", "truncate", "write"}
    BY <1>a DEF AdminEdits
  <2> QED BY <2>1 DEF Safe, HoldsUsers, TruncatesSecured
<1>b. ASSUME ~AdminEdits PROVE ~excused
  BY <1>b DEF Next, SsiInitialize, CheckConfiguration, SsiFinalize, ConfigurationInit, Read, ReadFails, Probe, Backup,
     Save, Truncate, Write, Stop, Start, Launch, RenameAppends, ClientDies, OtherMonitor, MonitorDies, files, vars
<1>c. ASSUME Safe, NEW c \in Clients, SsiInitialize(c) \/ CheckConfiguration(c) \/ SsiFinalize(c) PROVE Safe'
  BY <1>0, <1>c, QuietStep DEF SsiInitialize, CheckConfiguration, SsiFinalize, Goto, files, Steps
<1>d. ASSUME Safe, NEW c \in Clients, Probe(c) \/ Stop(c) \/ Start(c) \/ Launch(c) PROVE Safe'
  BY <1>0, <1>d, QuietStep DEF Probe, Stop, Start, Launch, Goto, Checked, files, Steps
<1>e. ASSUME Safe, NEW c \in Clients, Read(c) PROVE Safe'
  <2>1. CASE conf = "std"
    BY <1>0, <1>e, <2>1, QuietStep DEF Read, Goto, Steps
  <2>2. CASE conf \in {"absent", "empty"}
    <3>1. Secured
      BY <1>e, <2>2 DEF Safe
    <3> QED BY <1>0, <1>e, <2>2, <3>1, QuietStep DEF Read, Goto, Steps
  <2>3. CASE conf \notin {"std", "absent", "empty"}
    <3>1. conf = "user"
      BY <1>0, <1>e, <2>3 DEF Safe, TypeOK, Content
    <3>2. pc[c] = "read" /\ pc' = [pc EXCEPT ![c] = "backup"] /\ config' = [config EXCEPT ![c] = "user"]
          /\ UNCHANGED <<conf, orig>>
      BY <1>e, <2>3, <3>1 DEF Read, Goto, Keep
    <3>3. Secured => Secured'
      BY <1>0, <3>2 DEF Secured
    <3>4. HoldsUsers' /\ TruncatesSecured'
      BY <1>0, <1>e, <3>2, <3>3 DEF Safe, HoldsUsers, TruncatesSecured
    <3> QED BY <3>1, <3>2, <3>4 DEF Safe
  <2> QED BY <2>1, <2>2, <2>3
<1>f. ASSUME Safe, NEW c \in Clients, Backup(c) PROVE Safe'
  <2>1. pc[c] = "backup" /\ pc' = [pc EXCEPT ![c] = "save"] /\ UNCHANGED <<conf, config>>
    BY <1>f DEF Backup, Goto
  <2>2. config[c] = "user"
    BY <1>f, <2>1 DEF Safe, HoldsUsers
  <2>3. Secured'
    BY <1>0, <2>1, <2>2 DEF Secured
  <2>4. HoldsUsers' /\ TruncatesSecured'
    BY <1>0, <1>f, <2>1, <2>3 DEF Safe, HoldsUsers, TruncatesSecured
  <2> QED BY <1>f, <2>1, <2>3, <2>4 DEF Safe
<1>g. ASSUME Safe, NEW c \in Clients, Save(c) PROVE Safe'
  <2>1. /\ pc[c] = "save" /\ pc' = [pc EXCEPT ![c] = "truncate"]
        /\ orig' = config[c] /\ config' = [config EXCEPT ![c] = Nothing] /\ UNCHANGED conf
    BY <1>g DEF Save, Goto, Keep
  <2>2. Secured'
    BY <1>g, <2>1 DEF Safe, HoldsUsers, Secured
  <2>3. HoldsUsers' /\ TruncatesSecured'
    BY <1>0, <1>g, <2>1, <2>2 DEF Safe, HoldsUsers, TruncatesSecured
  <2> QED BY <1>g, <2>1, <2>2, <2>3 DEF Safe
<1>h. ASSUME Safe, NEW c \in Clients, Truncate(c) \/ Write(c) PROVE Safe'
  <2>1. /\ pc[c] \in {"truncate", "write"} /\ \A x \in Clients \ {c} : pc'[x] = pc[x]
        /\ pc'[c] \in {"write", "stop"}
        /\ conf' \in {conf, "empty", "std"} /\ UNCHANGED <<orig, config>>
    BY <1>0, <1>h DEF Truncate, Write, Goto
  <2>2. Secured
    BY <1>h, <2>1 DEF Safe, TruncatesSecured
  <2>3. Secured'
    BY <2>1, <2>2 DEF Secured
  <2>4. HoldsUsers' /\ TruncatesSecured'
    BY <1>h, <2>1, <2>3 DEF Safe, HoldsUsers, TruncatesSecured
  <2> QED BY <1>h, <2>1, <2>3, <2>4 DEF Safe
<1>i. ASSUME NEW c \in Clients, RenameAppends(c), Safe PROVE Safe'
  <2>1. UNCHANGED <<pc, orig, config, conf>>
    BY <1>i DEF RenameAppends
  <2> QED BY <1>i, <2>1 DEF Safe, Secured, HoldsUsers, TruncatesSecured
<1>j. ASSUME Safe, NEW c \in Clients, ClientDies(c) PROVE Safe'
  <2>1. /\ pc[c] # "save" /\ UNCHANGED <<conf, orig>>
        /\ \A x \in Clients \ {c} : pc'[x] = pc[x] /\ config'[x] = config[x]
        /\ pc'[c] = "idle"
    BY <1>0, <1>j DEF ClientDies, Keep
  <2>2. Secured => Secured'
    BY <2>1 DEF Secured
  <2>3. HoldsUsers' /\ TruncatesSecured'
    BY <1>j, <2>1, <2>2 DEF Safe, HoldsUsers, TruncatesSecured
  <2> QED BY <1>j, <2>1, <2>2, <2>3 DEF Safe
<1>k. ASSUME Safe, OtherMonitor \/ MonitorDies \/ UNCHANGED vars PROVE Safe'
  BY <1>k DEF OtherMonitor, MonitorDies, vars, files, Safe, Secured, HoldsUsers, TruncatesSecured
<1>l. ASSUME NEW c \in Clients, ReadFails(c) PROVE FALSE
  BY <1>l DEF ReadFails
<1> QED
  BY <1>0, <1>a, <1>b, <1>c, <1>d, <1>e, <1>f, <1>g, <1>h, <1>i, <1>j, <1>k, <1>l DEF Next, ConfigurationInit

(* No process has older content of the administrator's left to put in place. *)
LEMMA NotOldStep == conf # "old" /\ [Next]_vars => conf' # "old"
BY DEF Next, SsiInitialize, CheckConfiguration, SsiFinalize, ConfigurationInit, Read, ReadFails, Probe, Backup,
   Save, Truncate, Write, Stop, Start, Launch, RenameAppends, ClientDies, AdminEdits, OtherMonitor, MonitorDies,
   files, vars

LEMMA Inductive == Spec => []IInv
<1>1. IInv /\ [Next]_vars => IInv'
  BY TypeStep, SafeStep, NotOldStep DEF IInv
<1> QED BY InitIInv, <1>1, PTL DEF Spec

-----------------------------------------------------------------------------
(* What a check is to save is neither nothing at all nor the library's own  *)
(* file (configuration_init).                                               *)
THEOREM TypeCorrect == Spec => []TypeOK
<1>1. IInv => TypeOK
  BY DEF IInv
<1> QED BY <1>1, Inductive, PTL

(* The file the administrator wrote is in place, in the backup, or about to *)
(* be written there, whatever the number of processes that check it at the  *)
(* same time (configuration_init, backup_config, write_config).             *)
THEOREM UserConfigIsKept == Spec => []UserConfigKept
<1>1. IInv => UserConfigKept
  BY DEF IInv, Safe, Secured, UserConfigKept
<1> QED BY <1>1, Inductive, PTL
=============================================================================
