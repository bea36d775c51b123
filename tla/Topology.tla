------------------------------- MODULE Topology -------------------------------
(***************************************************************************)
(* The discovery of SsiSessionOpen: Session::initialize walks sysfs        *)
(* controller by controller, phy by phy and port by port, and builds the   *)
(* objects of a session, their links and the lists of every scope, while   *)
(* devices are plugged and unplugged.  Each step is one reading of sysfs   *)
(* with what the code does of it; todo is the call stack and the loops.    *)
(* A phy and a port are named by the device that has them and the device   *)
(* at the other end of their cable.                                        *)
(***************************************************************************)
EXTENDS Naturals, FiniteSets, SequencesExt

CONSTANTS
  Ahci, Isci, Vmd,            \* controllers; all VMD domains are one of them
  Disks, Ses, Expanders, Multipliers,
  At,          \* At[d]: the controller, expander or multiplier d is plugged in
  Order,       \* the controllers and devices in the order of readdir
  Lanes,       \* phys of the link to an expander
  MaxAbsent,   \* bound: devices that are not plugged when the session opens
  MaxChanges,  \* bound: devices plugged or unplugged meanwhile, each once
  None

Devices == Disks \cup Ses \cup Expanders \cup Multipliers
Controllers == Ahci \cup Isci \cup Vmd
Routers == Expanders \cup Multipliers
Owners == Controllers \cup Routers

ASSUME KindsAssumption ==
  /\ Ahci \cap (Isci \cup Vmd) = {} /\ Isci \cap Vmd = {} /\ Controllers \cap Devices = {}
  /\ Disks \cap (Ses \cup Routers) = {} /\ Ses \cap Routers = {} /\ Expanders \cap Multipliers = {}
  /\ None \notin Controllers \cup Devices
ASSUME CablingAssumption ==
  /\ At \in [Devices -> Owners]
  /\ \A d \in Multipliers : At[d] \in Ahci
  /\ \A d \in Expanders \cup Ses : At[d] \in Isci \cup Expanders

(* The devices are a finite tree: some of any of them has none of them      *)
(* above it, and some has none below it.                                    *)
ASSUME TreeAssumption ==
  \A S \in SUBSET Devices : S # {} =>
    (\E d \in S : At[d] \notin S) /\ (\E d \in S : \A x \in S : At[x] # d)
ASSUME OrderAssumption ==
  Order \in Seq(Controllers \cup Devices) /\ ToSet(Order) = Controllers \cup Devices /\ IsInjective(Order)
ASSUME LanesAssumption == Lanes \in Nat \ {0}
ASSUME BoundsAssumption == MaxAbsent \in Nat /\ MaxChanges \in Nat

VARIABLES
  plugged,     \* devices that are plugged in
  changed,     \* devices plugged or unplugged since the session opened
  todo,        \* what is left to do, innermost first
  status,      \* "scan", "open", "failed" (an exception) or "crashed"
  phys,        \* m_Phys of a controller or routing device
  ports,       \* m_Ports of it
  wires,       \* <<phy, port>>: m_pPort of the phy, m_Phys of the port
  subtractive, \* routing devices that have m_pSubtractivePort
  joined,      \* <<port, port>>: m_pRemotePort of both
  parent,      \* m_pParent of a device
  scope,       \* m_EndDevices_Direct, m_EndDevices, m_RoutingDevices_Direct
               \* and m_RoutingDevices
  enclosures,  \* m_Enclosures_Direct of a controller
  lister,      \* m_RoutingDevices of an enclosure, which has one at most
  mounted,     \* m_pEnclosure of a routing device
  members,     \* m_EndDevices of an enclosure
  box,         \* m_pEnclosure of an end device
  session      \* the objects registered, in this order

cabling == <<plugged, changed>>
wiring == <<phys, ports, wires, subtractive, joined>>
tree == <<parent, scope>>
boxes == <<enclosures, lister, mounted, members, box>>
vars == <<cabling, todo, status, wiring, tree, boxes, session>>

-----------------------------------------------------------------------------
(* What sysfs shows                                                         *)

Present(d) ==
  LET there[x \in Devices] == x \in plugged /\ (At[x] \in Controllers \/ there[At[x]])
  IN  there[d]

(* What of seq is in S, in the same order                                   *)
Among(seq, S) ==
  LET picked[n \in 0 .. Len(seq)] ==
        IF n = 0 THEN <<>>
        ELSE IF seq[n] \in S THEN Append(picked[n - 1], seq[n]) ELSE picked[n - 1]
  IN  picked[Len(seq)]

There == {d \in Devices : Present(d)}
Plugged(o) == Among(Order, {d \in Devices : At[d] = o})

(* The SCSI targets of an AHCI host, which has one disk or a multiplier     *)
Targets(h) == Among(IF h \in Disks THEN <<h>> ELSE Plugged(h), There)

(* Hot plug.  The kernel never gives the name of an unplugged device to     *)
(* another one, so each device changes once.                                *)
Change(d) ==
  /\ status = "scan"
  /\ d \notin changed /\ Cardinality(changed) < MaxChanges
  /\ changed' = changed \cup {d}
  /\ plugged' = IF d \in plugged THEN plugged \ {d} ELSE plugged \cup {d}
  /\ UNCHANGED <<todo, status, wiring, tree, boxes, session>>

-----------------------------------------------------------------------------
(* The stack                                                                *)

Doing(what) == status = "scan" /\ todo # <<>> /\ Head(todo)[1] = what
Owner == Head(todo)[2]
Device == Head(todo)[3]
Argument == Head(todo)[4]

Continue(tasks) == todo' = tasks \o Tail(todo) /\ UNCHANGED <<cabling, status, session>>

Each(what, o, devices) == [i \in DOMAIN devices |-> <<what, o, devices[i]>>]

(* An exception leaves SessionManager::openSession without the session.     *)
Stop(how) ==
  /\ status' = how /\ todo' = <<>> /\ session' = <<>>
  /\ UNCHANGED <<cabling, wiring, tree, boxes>>

Phy(o, d, n) == <<"phy", o, d, n>>
Port(o, d) == <<"port", o, d>>
OwnWire(d) == <<Phy(d, d, 1), Port(d, d)>>

(* Phys and ports are objects of classes of their own.                      *)
ASSUME NamesAssumption ==
  \A o \in Controllers \cup Devices : \A d \in Devices :
    /\ Port(o, d) \notin Controllers \cup Devices
    /\ \A n \in 1 .. Lanes : Phy(o, d, n) \notin Controllers \cup Devices

-----------------------------------------------------------------------------
(* Links between objects                                                    *)

AttachEndDevice(o, d) == scope' = [scope EXCEPT ![o].ends = Append(@, d)]

AttachRoutingDeviceDirect(o, r) ==
  scope' = [scope EXCEPT ![o].routers = Append(@, r), ![o].allEnds = @ \o scope[r].ends]

(* attachRoutingDevice of Controller and RoutingDevice                      *)
AttachRoutingDevice(o, r) ==
  scope' = [scope EXCEPT ![o].routers = Append(@, r),
                         ![o].allEnds = @ \o scope[r].ends \o scope[r].allEnds,
                         ![o].allRouters = @ \o scope[r].routers \o scope[r].allRouters]

(* StorageObject::getController of an owner: the end of the m_pParent chain *)
Root(o) ==
  LET up[x \in Owners \cup {None}] == IF x \in Controllers \cup {None} THEN x ELSE up[parent[x]]
  IN  up[o]

(* RoutingDevice::attachEnclosure up to Controller::attachEnclosure         *)
TakeEnclosure(o, s) ==
  /\ lister' = [lister EXCEPT ![s] = o]
  /\ mounted' = [mounted EXCEPT ![o] = s]
  /\ enclosures' = IF Root(o) = None THEN enclosures
                   ELSE [enclosures EXCEPT ![Root(o)] = Append(@, s)]
  /\ UNCHANGED <<members, box>>

(* Port::attachEnclosure, which ignores an enclosure on a controller        *)
AttachEnclosure(o, s) == IF o \in Controllers THEN UNCHANGED boxes ELSE TakeEnclosure(o, s)

-----------------------------------------------------------------------------
(* ISCI: phys first, then their ports                                       *)

PhysTo(o, d) == [n \in 1 .. (IF d \in Expanders THEN Lanes ELSE 1) |-> Phy(o, d, n)]
PhysOf(o) ==
  (IF o \in Expanders THEN PhysTo(o, o) ELSE <<>>)
    \o FlattenSeq([i \in DOMAIN Plugged(o) |-> PhysTo(o, Plugged(o)[i])])

(* The phys of an HBA are always there, those of an expander while it is.   *)
ListPhys(o) ==
  /\ IF o \in Isci \/ Present(o)
     THEN /\ phys' = [phys EXCEPT ![o] = PhysOf(o)]
          /\ Continue(PhysOf(o) \o << <<"ports", o>> >>)
     ELSE Continue(<<>>) /\ UNCHANGED phys
  /\ UNCHANGED <<ports, wires, subtractive, joined, tree, boxes>>

KnownPort(o, d) == Port(o, d) \in ToSet(ports[o]) \/ (o = d /\ o \in subtractive)

ReadPhyCreatesPort(o, d, n) ==
  /\ IF ~Present(d) THEN Continue(<<>>) /\ UNCHANGED <<ports, wires>>
     ELSE IF o \in Expanders /\ ~KnownPort(o, d)
     THEN Continue(<< <<"create", o, d, n>> >>) /\ UNCHANGED <<ports, wires>>
     ELSE /\ Continue(<<>>)
          /\ wires' = wires \cup {<<Phy(o, d, n), Port(o, d)>>}
          /\ ports' = IF o \in Isci THEN [ports EXCEPT ![o] = Append(@, Port(o, d))] ELSE ports
  /\ UNCHANGED <<phys, subtractive, joined, tree, boxes>>

ReadPhyThrows(o, d, n) ==
  IF ~Present(d) THEN Stop("failed") ELSE
  /\ Continue(<< <<"create", o, d, n>> >>)
  /\ UNCHANGED <<wiring, tree, boxes>>

(* ISCI_Phy::discover and ISCI_Expander_Phy::discover: the link `port' of   *)
(* the phy, and the port of the same path if a phy has been there before    *)
ReadPhy(o, d, n) ==
  /\ IF ~Present(d) THEN Continue(<<>>) /\ UNCHANGED <<ports, wires>>
     ELSE IF o \in Expanders /\ ~KnownPort(o, d)
     THEN Continue(<< <<"create", o, d, n>> >>) /\ UNCHANGED <<ports, wires>>
     ELSE /\ Continue(<<>>)
          /\ wires' = wires \cup {<<Phy(o, d, n), Port(o, d)>>}
          /\ ports' = IF KnownPort(o, d) THEN ports
                      ELSE [ports EXCEPT ![o] = Append(@, Port(o, d))]
  /\ UNCHANGED <<phys, subtractive, joined, tree, boxes>>

(* ISCI_Expander_Phy::__internal_create_port: the entry `host' or the link  *)
(* back to the other expander tells the port that leads to the controller.  *)
(* The listings and the resolving of the path are one reading here: an      *)
(* expander that vanishes between its listing and the resolving is left out.*)
CreatePort(o, d, n) ==
  /\ IF o = d /\ Present(d)
     THEN subtractive' = subtractive \cup {o} /\ UNCHANGED ports
     ELSE ports' = [ports EXCEPT ![o] = Append(@, Port(o, d))] /\ UNCHANGED subtractive
  /\ wires' = wires \cup {<<Phy(o, d, n), Port(o, d)>>}
  /\ Continue(<<>>)
  /\ UNCHANGED <<phys, joined, tree, boxes>>

ListPorts(o) == Continue(ports[o]) /\ UNCHANGED <<wiring, tree, boxes>>

DiscoverPortOrphan(o, d) ==
  IF ~Present(d) THEN Stop("failed") ELSE
  /\ Continue(IF d \in Expanders THEN << <<"list", d>>, <<"attach", o, d>> >> ELSE << <<"end", o, d>> >>)
  /\ UNCHANGED <<wiring, tree, boxes>>

(* ISCI_Port::discover.  An expander has its parent before its discovery.   *)
(* The listings of expander, end_device and host are one reading here.      *)
DiscoverPort(o, d) ==
  IF ~Present(d) THEN Stop("failed") ELSE
  /\ IF d \in Expanders
     THEN /\ parent' = [parent EXCEPT ![d] = o]
          /\ Continue(<< <<"list", d>>, <<"attach", o, d>> >>)
     ELSE Continue(<< <<"end", o, d>> >>) /\ UNCHANGED parent
  /\ UNCHANGED <<scope, wiring, boxes>>

(* The subtractive port of an expander that vanished in time is a null      *)
(* pointer, which Port::attachPort dereferences.                            *)
AttachExpander(o, e) ==
  IF e \notin subtractive THEN Stop("crashed") ELSE
  /\ joined' = joined \cup {<<Port(o, e), Port(e, e)>>}
  /\ AttachRoutingDevice(o, e)
  /\ Continue(<<>>)
  /\ UNCHANGED <<phys, ports, wires, subtractive, parent, boxes>>

AttachEndOrphan(o, d, port) ==
  /\ joined' = joined \cup {<<port, Port(d, d)>>}
  /\ wires' = wires \cup {OwnWire(d)}
  /\ AttachEndDevice(o, d)
  /\ UNCHANGED parent

(* EndDevice::discover, setParent, and attachPort of the port that leads to *)
(* it, which attaches it to the parent of that port                         *)
AttachEnd(o, d, port) ==
  /\ joined' = joined \cup {<<port, Port(d, d)>>}
  /\ wires' = wires \cup {OwnWire(d)}
  /\ AttachEndDevice(o, d)
  /\ parent' = [parent EXCEPT ![d] = o]

(* ISCI_Port::__internal_create_storage_object                              *)
OpenEndDevice(o, d) ==
  /\ Continue(<<>>)
  /\ IF ~Present(d) THEN UNCHANGED <<wires, joined, tree, boxes>>
     ELSE IF d \in Disks THEN AttachEnd(o, d, Port(o, d)) /\ UNCHANGED boxes
     ELSE /\ parent' = [parent EXCEPT ![d] = o]
          /\ AttachEnclosure(o, d)
          /\ UNCHANGED <<wires, joined, scope>>
  /\ UNCHANGED <<phys, ports, subtractive>>

-----------------------------------------------------------------------------
(* AHCI and VMD: a Directory reads the names first and then the status of   *)
(* each entry; if one has vanished, it is empty.  (All VMD domains are one  *)
(* controller here, so the listing of drives is read once.)                 *)

ReadDir(o, d) ==
  /\ LET listing == IF o \in Vmd THEN Among(Plugged(o), There) ELSE Targets(d)
     IN  Continue(<< <<"stat", o, d, listing>> >>)
  /\ UNCHANGED <<wiring, tree, boxes>>

Found(listing) == IF \A d \in ToSet(listing) : Present(d) THEN listing ELSE <<>>

(* VMD::discover                                                            *)
StatNvme(v, listing) ==
  /\ Continue(Each("nvme", v, Found(listing)))
  /\ UNCHANGED <<wiring, tree, boxes>>

ReadNvmeDriver(v, d) ==
  /\ IF ~Present(d) THEN Continue(<<>>) /\ UNCHANGED <<phys, wires>>
     ELSE /\ phys' = [phys EXCEPT ![v] = Append(@, Phy(v, d, 1))]
          /\ wires' = wires \cup {<<Phy(v, d, 1), Port(v, d)>>}
          /\ Continue(<< <<"disk", v, d, d>> >>)
  /\ UNCHANGED <<ports, subtractive, joined, tree, boxes>>

(* AHCI_Phy::discover: one target is taken for a disk on the host.          *)
StatTargets(c, h, listing) ==
  /\ phys' = [phys EXCEPT ![c] = Append(@, Phy(c, h, 1))]
  /\ \/ Found(listing) = <<>> /\ Continue(<<>>) /\ UNCHANGED <<wires, subtractive>>
     \/ /\ Len(Found(listing)) = 1
        /\ wires' = wires \cup {<<Phy(c, h, 1), Port(c, h)>>}
        /\ Continue(<< <<"disk", c, Found(listing)[1], h>> >>)
        /\ UNCHANGED subtractive
     \/ /\ Len(Found(listing)) > 1
        /\ wires' = wires \cup {<<Phy(c, h, 1), Port(c, h)>>, OwnWire(h)}
        /\ subtractive' = subtractive \cup {h}
        /\ Continue(Each("member", h, Found(listing)) \o << <<"multiplier", c, h>> >>)
  /\ UNCHANGED <<ports, joined, tree, boxes>>

AttachSingleOrNothing(c, d, h) ==
  /\ IF Present(d)
     THEN AttachEnd(c, d, Port(c, h)) /\ ports' = [ports EXCEPT ![c] = Append(@, Port(c, h))]
     ELSE UNCHANGED <<ports, wires, joined, tree>>
  /\ Continue(<<>>)
  /\ UNCHANGED <<phys, subtractive, boxes>>

(* The rest of AHCI_Phy::discover for one target, and of NVME_Phy::discover *)
AttachSingle(c, d, h) ==
  /\ IF Present(d) THEN AttachEnd(c, d, Port(c, h)) ELSE UNCHANGED <<wires, joined, tree>>
  /\ ports' = [ports EXCEPT ![c] = Append(@, Port(c, h))]
  /\ Continue(<<>>)
  /\ UNCHANGED <<phys, subtractive, boxes>>

(* AHCI_Multiplier::__internal_attach_end_device, which sets no parent      *)
AttachMember(m, d) ==
  /\ IF Present(d)
     THEN /\ phys' = [phys EXCEPT ![m] = Append(@, Phy(m, d, 1))]
          /\ ports' = [ports EXCEPT ![m] = Append(@, Port(m, d))]
          /\ wires' = wires \cup {<<Phy(m, d, 1), Port(m, d)>>, OwnWire(d)}
          /\ joined' = joined \cup {<<Port(m, d), Port(d, d)>>}
          /\ AttachEndDevice(m, d)
     ELSE UNCHANGED <<phys, ports, wires, joined, scope>>
  /\ Continue(<<>>)
  /\ UNCHANGED <<subtractive, parent, boxes>>

AttachMultiplier(c, m) ==
  /\ parent' = [parent EXCEPT ![m] = c]
  /\ joined' = joined \cup {<<Port(c, m), Port(m, m)>>}
  /\ AttachRoutingDevice(c, m)
  /\ ports' = [ports EXCEPT ![c] = Append(@, Port(c, m))]
  /\ Continue(<<>>)
  /\ UNCHANGED <<phys, wires, subtractive, boxes>>

-----------------------------------------------------------------------------
(* Session::initialize                                                      *)

Concat(Op(_), seq) == FlattenSeq([i \in DOMAIN seq |-> Op(seq[i])])

(* EndDevice::addToSession                                                  *)
EndListed(d) == <<d, Phy(d, d, 1), Port(d, d)>>

RouterListedFlat(r) == <<r>> \o Concat(EndListed, scope[r].ends) \o phys[r] \o ports[r] \o <<Port(r, r)>>

(* RoutingDevice::addToSession, and AHCI_Multiplier::addToSession           *)
RouterListed(r) ==
  LET listed[x \in Routers] ==
        (IF x \in Multipliers THEN <<Phy(x, x, 1)>> ELSE <<>>)
          \o <<x>> \o Concat(EndListed, scope[x].ends) \o phys[x] \o ports[x]
          \o FlattenSeq([i \in DOMAIN scope[x].routers |-> listed[scope[x].routers[i]]])
          \o <<Port(x, x)>>
  IN  listed[r]

(* The disks an enclosure takes in Enclosure::addToSession                  *)
Taken(s) == scope[lister[s]].ends

(* Controller::addToSession; of several enclosures the last takes the disk. *)
AddToSession(c) ==
  /\ session' = session \o <<c>> \o Concat(EndListed, scope[c].ends)
                  \o Concat(RouterListed, scope[c].routers) \o ports[c] \o phys[c] \o enclosures[c]
  /\ members' = [s \in Ses |-> IF s \in ToSet(enclosures[c]) THEN Taken(s) ELSE members[s]]
  /\ box' = [d \in Disks |->
       LET takers == Among(enclosures[c], {s \in ToSet(enclosures[c]) : d \in ToSet(Taken(s))})
       IN  IF takers = <<>> THEN box[d] ELSE Last(takers)]
  /\ todo' = Tail(todo)
  /\ UNCHANGED <<cabling, status, wiring, tree, enclosures, lister, mounted>>

(* A controller is discovered, then registered with all it has.             *)
Tasks(c) ==
  (IF c \in Isci THEN << <<"list", c>> >>
   ELSE IF c \in Vmd THEN << <<"readdir", c, c>> >>
   ELSE Each("readdir", c, Plugged(c))) \o << <<"add", c>> >>

AllOf(controllers) == Among(Order, controllers)

Opened ==
  /\ status = "scan" /\ todo = <<>>
  /\ status' = "open"
  /\ UNCHANGED <<cabling, todo, wiring, tree, boxes, session>>

Init ==
  /\ plugged \in {Devices \ absent : absent \in {a \in SUBSET Devices : Cardinality(a) <= MaxAbsent}}
  /\ changed = {}
  /\ todo = Concat(Tasks, AllOf(Ahci) \o AllOf(Isci) \o AllOf(Vmd))
  /\ status = "scan"
  /\ phys = [o \in Owners |-> <<>>]
  /\ ports = [o \in Owners |-> <<>>]
  /\ wires = {} /\ subtractive = {} /\ joined = {}
  /\ parent = [d \in Devices |-> None]
  /\ scope = [o \in Owners |-> [ends |-> <<>>, allEnds |-> <<>>, routers |-> <<>>, allRouters |-> <<>>]]
  /\ enclosures = [c \in Controllers |-> <<>>]
  /\ lister = [s \in Ses |-> None]
  /\ mounted = [e \in Expanders |-> None]
  /\ members = [s \in Ses |-> <<>>]
  /\ box = [d \in Disks |-> None]
  /\ session = <<>>

Next ==
  \/ \E d \in Devices : Change(d)
  \/ Doing("list") /\ ListPhys(Owner)
  \/ Doing("phy") /\ ReadPhy(Owner, Device, Argument)
  \/ Doing("create") /\ CreatePort(Owner, Device, Argument)
  \/ Doing("ports") /\ ListPorts(Owner)
  \/ Doing("port") /\ DiscoverPort(Owner, Device)
  \/ Doing("attach") /\ AttachExpander(Owner, Device)
  \/ Doing("end") /\ OpenEndDevice(Owner, Device)
  \/ Doing("readdir") /\ ReadDir(Owner, Device)
  \/ Doing("stat") /\ Owner \in Vmd /\ StatNvme(Owner, Argument)
  \/ Doing("stat") /\ Owner \in Ahci /\ StatTargets(Owner, Device, Argument)
  \/ Doing("nvme") /\ ReadNvmeDriver(Owner, Device)
  \/ Doing("disk") /\ AttachSingle(Owner, Device, Argument)
  \/ Doing("member") /\ AttachMember(Owner, Device)
  \/ Doing("multiplier") /\ AttachMultiplier(Owner, Device)
  \/ Doing("add") /\ AddToSession(Owner)
  \/ Opened

Spec == Init /\ [][Next]_vars

-----------------------------------------------------------------------------
Objects ==
  Controllers \cup Devices \cup {Port(o, d) : o \in Owners \cup Devices, d \in Devices}
    \cup {Phy(o, d, n) : o \in Owners \cup Devices, d \in Devices, n \in 1 .. Lanes}

(* Every variable has its type.  In particular only a routing device is     *)
(* ever the lister of an enclosure (dynamic_pointer_cast in                 *)
(* Port::attachEnclosure).                                                  *)
TypeOK ==
  /\ plugged \subseteq Devices
  /\ changed \subseteq Devices /\ Cardinality(changed) <= MaxChanges
  /\ status \in {"scan", "open", "failed", "crashed"}
  /\ \A o \in Owners : ToSet(phys[o]) \cup ToSet(ports[o]) \subseteq Objects
  /\ \A w \in wires \cup joined : w[1] \in Objects /\ w[2] \in Objects
  /\ subtractive \subseteq Routers
  /\ parent \in [Devices -> Owners \cup {None}]
  /\ \A o \in Owners :
       /\ ToSet(scope[o].ends \o scope[o].allEnds) \subseteq Disks
       /\ ToSet(scope[o].routers \o scope[o].allRouters) \subseteq Routers
  /\ \A c \in Controllers : ToSet(enclosures[c]) \subseteq Ses
  /\ lister \in [Ses -> Expanders \cup {None}]
  /\ mounted \in [Expanders -> Ses \cup {None}]
  /\ \A s \in Ses : ToSet(members[s]) \subseteq Disks
  /\ box \in [Disks -> Ses \cup {None}]
  /\ ToSet(session) \subseteq Objects

Registered == ToSet(session)

(* d and all that leads to it have been plugged in all the time.            *)
Stable(d) ==
  LET still[x \in Devices] ==
        x \in plugged \ changed /\ (At[x] \in Controllers \/ still[At[x]])
  IN  still[d]

Unplugged == changed \ plugged

(* Devices whose Directory one of them empties when it vanishes             *)
ListedTogether(d) ==
  IF d \in Multipliers THEN ToSet(Plugged(d))
  ELSE IF d \in Disks /\ At[d] \in Vmd \cup Multipliers THEN ToSet(Plugged(At[d]))
  ELSE {}

(* An enclosure on an HBA is dropped, and a multiplier with one disk is     *)
(* taken for that disk.                                                     *)
Reportable(d) ==
  /\ ListedTogether(d) \cap Unplugged = {}
  /\ d \in Ses => At[d] \in Expanders
  /\ d \in Multipliers => Cardinality({x \in ToSet(Plugged(d)) : Stable(x)}) > 1

(* A session that opens has every device that was there all the time of the *)
(* discovery, whatever else was plugged or unplugged meanwhile, unless one  *)
(* vanished while the Directory that names both was read.                   *)
StableReported ==
  status = "open" => \A d \in Devices : Stable(d) /\ Reportable(d) => d \in Registered

(* An object is registered once, the ports with several phys and the        *)
(* devices behind several expanders included: Session::add and the          *)
(* HandleManager do not look for one that is there already.                 *)
OnceEach == IsInjective(session)

(* The lists of a scope, which the API answers queries from, are built by   *)
(* copying at attachment: m_EndDevices and m_RoutingDevices of a registered *)
(* object hold what is in the direct lists below it, once each.             *)
ScopesAgree ==
  LET below[o \in Owners] == UNION {{r} \cup below[r] : r \in ToSet(scope[o].routers)}
      Agree(direct, all, o, Direct(_)) ==
        /\ IsInjective(direct \o all)
        /\ ToSet(all) = UNION {Direct(r) : r \in below[o]}
  IN  \A o \in Registered \cap Owners :
        /\ Agree(scope[o].ends, scope[o].allEnds, o, LAMBDA r : ToSet(scope[r].ends))
        /\ Agree(scope[o].routers, scope[o].allRouters, o, LAMBDA r : ToSet(scope[r].routers))

(* The controller an end device or a routing device names in its            *)
(* information is the one that lists it, except for the disks of a port     *)
(* multiplier, which name none.                                             *)
ControllerAgrees ==
  \A c \in Registered \cap Controllers :
    \A d \in ToSet(scope[c].ends \o scope[c].allEnds \o scope[c].routers \o scope[c].allRouters) :
      \/ Root(parent[d]) = c
      \/ parent[d] = None /\ \E m \in Multipliers : d \in ToSet(scope[m].ends)

(* A registered disk and its enclosure agree, every disk on an expander     *)
(* with an enclosure is in one, and an enclosure has only the disks of the  *)
(* expander it is mounted in.                                               *)
EnclosuresAgree ==
  /\ \A d \in Registered \cap Disks : box[d] # None =>
       box[d] \in Registered /\ d \in ToSet(members[box[d]])
  /\ \A e \in Registered \cap Expanders : mounted[e] # None =>
       /\ lister[mounted[e]] = e
       /\ status = "open" => \A d \in ToSet(scope[e].ends) : box[d] = mounted[e]
  /\ \A s \in Registered \cap Ses :
       \A d \in ToSet(members[s]) : d \in ToSet(scope[lister[s]].ends) /\ lister[box[d]] = lister[s]

(* What a registered phy or port is linked to (associatedPort,              *)
(* connectedToPort) is registered too: the session has no handle that leads *)
(* out of it.                                                               *)
LinksRegistered ==
  status = "open" =>
    \A link \in wires \cup joined : link[1] \in Registered <=> link[2] \in Registered

(* SsiSessionOpen fails only when a device of an ISCI controller vanished,  *)
(* and it crashes only when that was an expander: never because of what is  *)
(* not there or what is plugged in meanwhile.                               *)
FailsOnlyOnUnplug ==
  /\ status = "failed" => \E d \in Unplugged : At[d] \in Isci \cup Expanders
  /\ status = "crashed" => Unplugged \cap Expanders # {}
=============================================================================
