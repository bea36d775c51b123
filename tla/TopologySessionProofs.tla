----------------------- MODULE TopologySessionProofs -----------------------
(***************************************************************************)
(* What a session that opens holds.  Each object is registered once: the   *)
(* tasks that are left are about different devices, so nothing is attached *)
(* twice.  What phys and ports are linked to is registered: nothing that   *)
(* holds one is lost.  And what is there all the time is found: a task     *)
(* hands on what it was to attach, or attaches it.                         *)
(***************************************************************************)
EXTENDS TopologyProofs

-----------------------------------------------------------------------------
(* Whose object it is                                                       *)

PhysFor(o) == {Phy(o, d, n) : d \in Devices, n \in 1 .. Lanes}
PortsFor(o) == {Port(o, d) : d \in Devices}
Mark(o) == {o} \cup PhysFor(o) \cup PortsFor(o)
Marks(S) == UNION {Mark(x) : x \in S}
Named == Controllers \cup Devices

LEMMA NameFacts == Owners \subseteq Named /\ Devices \subseteq Named /\ Disks \subseteq Named /\ Routers \subseteq Named
BY KindFacts DEF Named

LEMMA MarkFacts ==
  ASSUME NEW o \in Named
  PROVE  /\ o \notin PhysFor(o) /\ o \notin PortsFor(o) /\ PhysFor(o) \cap PortsFor(o) = {}
         /\ PhysFor(o) \cap Named = {} /\ PortsFor(o) \cap Named = {}
<1>1. PhysFor(o) \cap Named = {} /\ PortsFor(o) \cap Named = {}
  BY NamesAssumption DEF PhysFor, PortsFor, Named
<1>2. \A d, e, n : Port(o, d) # Phy(o, e, n)
  BY DEF Port, Phy
<1> QED BY <1>1, <1>2 DEF PhysFor, PortsFor

LEMMA MarkApart ==
  ASSUME NEW o \in Named, NEW u \in Named, o # u
  PROVE  Mark(o) \cap Mark(u) = {}
<1>1. PhysFor(o) \cap Named = {} /\ PortsFor(o) \cap Named = {} /\ PhysFor(u) \cap Named = {} /\ PortsFor(u) \cap Named = {}
  BY MarkFacts
<1>2. \A d, e, n, k : Port(o, d) # Phy(u, e, n) /\ Port(u, d) # Phy(o, e, n) /\ Port(o, d) # Port(u, e)
                      /\ Phy(o, d, n) # Phy(u, e, k)
  BY DEF Port, Phy
<1> QED BY <1>1, <1>2 DEF Mark, PhysFor, PortsFor

LEMMA MarksApart ==
  ASSUME NEW S \in SUBSET Named, NEW T \in SUBSET Named, S \cap T = {}
  PROVE  Marks(S) \cap Marks(T) = {}
<1>1. \A x \in S : \A y \in T : Mark(x) \cap Mark(y) = {}
  BY MarkApart
<1> QED BY <1>1 DEF Marks

LEMMA EndPiece ==
  ASSUME NEW d \in Disks
  PROVE  EndListed(d) \in Seq(Objects) /\ IsInjective(EndListed(d)) /\ ToSet(EndListed(d)) = {d, Phy(d, d, 1), Port(d, d)}
         /\ ToSet(EndListed(d)) \subseteq Mark(d)
<1>1. d \in Devices /\ d \in Named /\ 1 \in 1 .. Lanes
  BY KindFacts, LanesAssumption DEF Named
<1>2. d \in Objects /\ Phy(d, d, 1) \in Objects /\ Port(d, d) \in Objects
  BY <1>1, PhyObject, PortObject, KindFacts DEF Objects
<1>3. Phy(d, d, 1) \in PhysFor(d) /\ Port(d, d) \in PortsFor(d)
  BY <1>1 DEF PhysFor, PortsFor
<1>4. d # Phy(d, d, 1) /\ d # Port(d, d) /\ Phy(d, d, 1) # Port(d, d)
  BY <1>1, <1>3, MarkFacts
<1>5. PICK p, q : p = Phy(d, d, 1) /\ q = Port(d, d)
  OBVIOUS
<1> DEFINE s == <<d, p, q>>
<1>6. s \in Seq(Objects) /\ Len(s) = 3 /\ s[1] = d /\ s[2] = p /\ s[3] = q
  BY <1>2, <1>5
<1>7. EndListed(d) = s
  BY <1>5 DEF EndListed
<1> HIDE DEF s
<1>8. \A i \in 1 .. Len(s) : i = 1 \/ i = 2 \/ i = 3
  BY <1>6
<1>9. IsInjective(s)
  BY <1>4, <1>5, <1>6, <1>8, OnceIn
<1>10. ToSet(s) = {d, p, q}
  BY <1>6, <1>8, Elements
<1> QED BY <1>3, <1>5, <1>6, <1>7, <1>9, <1>10 DEF Mark

LEMMA EndsPiece ==
  ASSUME NEW s \in Seq(Disks), IsInjective(s)
  PROVE  /\ Concat(EndListed, s) \in Seq(Objects) /\ IsInjective(Concat(EndListed, s))
         /\ ToSet(Concat(EndListed, s)) = UNION {{d, Phy(d, d, 1), Port(d, d)} : d \in ToSet(s)}
         /\ ToSet(Concat(EndListed, s)) \subseteq Marks(ToSet(s))
<1> DEFINE each == [i \in DOMAIN s |-> EndListed(s[i])]
<1>1. DOMAIN s = 1 .. Len(s) /\ Len(s) \in Nat /\ \A i \in 1 .. Len(s) : s[i] \in Disks
  OBVIOUS
<1>2. /\ each \in Seq(Seq(Objects)) /\ Len(each) = Len(s)
      /\ \A i \in 1 .. Len(s) : each[i] = EndListed(s[i])
  BY <1>1, EndPiece
<1>3. Concat(EndListed, s) = FlattenSeq(each)
  BY DEF Concat
<1> HIDE DEF each
<1>4. \A i \in 1 .. Len(s) : /\ IsInjective(each[i]) /\ ToSet(each[i]) = {s[i], Phy(s[i], s[i], 1), Port(s[i], s[i])}
                             /\ ToSet(each[i]) \subseteq Mark(s[i])
  BY <1>1, <1>2, EndPiece
<1>5. \A i, j \in 1 .. Len(s) : i # j => ToSet(each[i]) \cap ToSet(each[j]) = {}
  <2> SUFFICES ASSUME NEW i \in 1 .. Len(s), NEW j \in 1 .. Len(s), i # j
               PROVE  ToSet(each[i]) \cap ToSet(each[j]) = {}
    OBVIOUS
  <2>1. s[i] # s[j] /\ s[i] \in Named /\ s[j] \in Named
    BY <1>1, OnceIn, NameFacts
  <2>2. Mark(s[i]) \cap Mark(s[j]) = {}
    BY <2>1, MarkApart
  <2> QED BY <1>4, <2>2
<1>6. IsInjective(FlattenSeq(each))
  BY <1>2, <1>4, <1>5, FlattenedOnce
<1>7. FlattenSeq(each) \in Seq(Objects) /\ ToSet(FlattenSeq(each)) = UNION {ToSet(each[i]) : i \in 1 .. Len(s)}
  BY <1>2, FlattenFacts
<1>8. \A x : x \in ToSet(s) <=> \E i \in 1 .. Len(s) : s[i] = x
  BY Elements
<1>9. ToSet(FlattenSeq(each)) = UNION {{d, Phy(d, d, 1), Port(d, d)} : d \in ToSet(s)}
  <2> DEFINE three(d) == {d, Phy(d, d, 1), Port(d, d)}
  <2>1. \A i \in 1 .. Len(s) : ToSet(each[i]) = three(s[i])
    BY <1>4
  <2> HIDE DEF three
  <2>2. UNION {ToSet(each[i]) : i \in 1 .. Len(s)} = UNION {three(d) : d \in ToSet(s)}
    BY <1>8, <2>1
  <2> QED BY <1>7, <2>2 DEF three
<1>10. ToSet(FlattenSeq(each)) \subseteq Marks(ToSet(s))
  BY <1>4, <1>7, <1>8 DEF Marks
<1> QED BY <1>3, <1>6, <1>7, <1>9, <1>10

-----------------------------------------------------------------------------
(* The phys and the ports of an owner are its own, each once                *)

Sooner(d) == \E i \in 1 .. Len(todo) : todo[i][1] \in Early /\ d \in Claims(todo[i])

PhyOf(o, x) ==
  \E d \in Devices : \E n \in 1 .. Lanes :
    x = Phy(o, d, n) /\ (o \notin Hosts => n = 1 /\ At[d] = o /\ ~Sooner(d))
PortOf(o, x) == \E d \in Devices : x = Port(o, d) /\ (o \notin Hosts => At[d] = o /\ ~Claimed(d))

Phied == \A o \in Owners : IsInjective(phys[o]) /\ \A x \in ToSet(phys[o]) : PhyOf(o, x)
Ported == \A o \in Owners : IsInjective(ports[o]) /\ \A x \in ToSet(ports[o]) : PortOf(o, x)

(* An expander is attached with its subtractive port, which is not in its   *)
(* list.                                                                    *)
Turned == \A e \in Expanders : e \in subtractive => Port(e, e) \notin ToSet(ports[e])
Facing == \A o \in Owners : \A e \in ToSet(scope[o].routers) : e \in Expanders => e \in subtractive

(* An enclosure is listed once.                                             *)
Housed == \A c \in Controllers : IsInjective(enclosures[c]) /\ \A s \in ToSet(enclosures[c]) : ~Claimed(s)

LEMMA SoonerLess ==
  ASSUME Settles, NEW d, Sooner(d)'
  PROVE  Sooner(d)
<1>1. PICK k \in 1 .. Len(todo') : todo'[k][1] \in Early /\ d \in Claims(todo'[k])
  BY DEF Sooner
<1> QED BY <1>1 DEF Settles, Sooner

LEMMA PhyStays ==
  ASSUME Settles, NEW o, NEW x, PhyOf(o, x)
  PROVE  PhyOf(o, x)'
<1>1. \A d : Sooner(d)' => Sooner(d)
  BY SoonerLess
<1> QED BY <1>1 DEF PhyOf

LEMMA PortStays ==
  ASSUME Settles, NEW o, NEW x, PortOf(o, x)
  PROVE  PortOf(o, x)'
<1>1. \A d : Claimed(d)' => Claimed(d)
  BY SettlesMeans
<1> QED BY <1>1 DEF PortOf

LEMMA PhiedSame ==
  ASSUME Phied, Settles, phys' = phys
  PROVE  Phied'
<1>1. \A o \in Owners : \A x \in ToSet(phys'[o]) : PhyOf(o, x)'
  BY PhyStays DEF Phied
<1> QED BY <1>1 DEF Phied

LEMMA PortedSame ==
  ASSUME Ported, Settles, ports' = ports
  PROVE  Ported'
<1>1. \A o \in Owners : \A x \in ToSet(ports'[o]) : PortOf(o, x)'
  BY PortStays DEF Ported
<1> QED BY <1>1 DEF Ported

LEMMA HousedSame ==
  ASSUME Housed, Settles, enclosures' = enclosures
  PROVE  Housed'
<1>1. \A s : Claimed(s)' => Claimed(s)
  BY SettlesMeans
<1> QED BY <1>1 DEF Housed

(* A phy that is added was not there.                                       *)
LEMMA PhiedAdd ==
  ASSUME Types, Phied, Settles, NEW o \in Owners \ Hosts, NEW d \in Devices, At[d] = o, Sooner(d), ~Sooner(d)',
         phys' = [phys EXCEPT ![o] = Append(@, Phy(o, d, 1))]
  PROVE  Phied'
<1>1. PICK p : p = Phy(o, d, 1)
  OBVIOUS
<1>2. p \in Objects /\ phys[o] \in Seq(Objects) /\ phys \in [Owners -> Seq(Objects)] /\ 1 \in 1 .. Lanes
  <2>1. 1 \in 1 .. Lanes
    BY LanesAssumption
  <2>2. p \in Objects
    BY <1>1, <2>1, PhyObject
  <2> QED BY <2>1, <2>2 DEF Types, WiringType
<1>3. p \notin ToSet(phys[o])
  <2> SUFFICES ASSUME p \in ToSet(phys[o]) PROVE FALSE
    OBVIOUS
  <2>1. PICK e \in Devices, n \in 1 .. Lanes : p = Phy(o, e, n) /\ ~Sooner(e)
    BY DEF Phied, PhyOf
  <2>2. e = d
    BY <1>1, <2>1 DEF Phy
  <2> QED BY <2>1, <2>2
<1>4. \A x \in Owners : phys'[x] = IF x = o THEN Append(phys[o], p) ELSE phys[x]
  BY <1>1, <1>2
<1>5. /\ IsInjective(Append(phys[o], p)) /\ ToSet(Append(phys[o], p)) = ToSet(phys[o]) \cup {p}
  BY <1>2, <1>3, AppendedOnce, Appended DEF Phied
<1>6. PhyOf(o, p)'
  BY <1>1, <1>2 DEF PhyOf
<1>7. \A u \in Owners : \A x \in ToSet(phys[u]) : PhyOf(u, x)'
  BY PhyStays DEF Phied
<1>8. \A u \in Owners : IsInjective(phys'[u]) /\ \A x \in ToSet(phys'[u]) : PhyOf(u, x)'
  BY <1>4, <1>5, <1>6, <1>7 DEF Phied
<1> QED BY <1>8 DEF Phied

LEMMA PortedAdd ==
  ASSUME Types, Ported, Settles, NEW o \in Owners \ Hosts, NEW d \in Devices, At[d] = o, Claimed(d), ~Claimed(d)',
         ports' = [ports EXCEPT ![o] = Append(@, Port(o, d))]
  PROVE  Ported'
<1>1. PICK p : p = Port(o, d)
  OBVIOUS
<1>2. p \in Objects /\ ports[o] \in Seq(Objects) /\ ports \in [Owners -> Seq(Objects)]
  BY <1>1, PortObject DEF Types, WiringType
<1>3. p \notin ToSet(ports[o])
  <2> SUFFICES ASSUME p \in ToSet(ports[o]) PROVE FALSE
    OBVIOUS
  <2>1. PICK e \in Devices : p = Port(o, e) /\ ~Claimed(e)
    BY DEF Ported, PortOf
  <2>2. e = d
    BY <1>1, <2>1 DEF Port
  <2> QED BY <2>1, <2>2
<1>4. \A x \in Owners : ports'[x] = IF x = o THEN Append(ports[o], p) ELSE ports[x]
  BY <1>1, <1>2
<1>5. /\ IsInjective(Append(ports[o], p)) /\ ToSet(Append(ports[o], p)) = ToSet(ports[o]) \cup {p}
  BY <1>2, <1>3, AppendedOnce, Appended DEF Ported
<1>6. PortOf(o, p)'
  BY <1>1 DEF PortOf
<1>7. \A u \in Owners : \A x \in ToSet(ports[u]) : PortOf(u, x)'
  BY PortStays DEF Ported
<1>8. \A u \in Owners : IsInjective(ports'[u]) /\ \A x \in ToSet(ports'[u]) : PortOf(u, x)'
  BY <1>4, <1>5, <1>6, <1>7 DEF Ported
<1> QED BY <1>8 DEF Ported

LEMMA HousedAdd ==
  ASSUME Types, Housed, Settles, NEW c \in Controllers, NEW s \in Ses, Claimed(s), ~Claimed(s)',
         enclosures' = [enclosures EXCEPT ![c] = Append(@, s)]
  PROVE  Housed'
<1>1. enclosures[c] \in Seq(Ses) /\ enclosures \in [Controllers -> Seq(Ses)]
  BY DEF Types, BoxesType
<1>2. s \notin ToSet(enclosures[c])
  BY DEF Housed
<1>3. IsInjective(Append(enclosures[c], s)) /\ ToSet(Append(enclosures[c], s)) = ToSet(enclosures[c]) \cup {s}
  BY <1>1, <1>2, AppendedOnce, Appended DEF Housed
<1>4. \A x \in Controllers : enclosures'[x] = IF x = c THEN Append(enclosures[c], s) ELSE enclosures[x]
  BY <1>1
<1>5. \A x : Claimed(x)' => Claimed(x)
  BY SettlesMeans
<1>6. \A x \in Controllers : IsInjective(enclosures'[x]) /\ \A y \in ToSet(enclosures'[x]) : ~Claimed(y)'
  BY <1>3, <1>4, <1>5 DEF Housed
<1> QED BY <1>6 DEF Housed

(* The ports of the hosts                                                   *)
LEMMA HostPorts ==
  ASSUME Types, NEW h \in Hosts
  PROVE  \A x \in ToSet(ports[h]) : PortOf(h, x)
<1>1. ports[h] \in Seq(OwnPort(h))
  BY DEF Types, WiringType
<1>2. ToSet(ports[h]) \subseteq OwnPort(h)
  BY <1>1, Elements
<1>3. \A x \in OwnPort(h) : x[3] \in Devices /\ x = Port(h, x[3])
  BY DEF OwnPort, PortTask, Port
<1> QED BY <1>2, <1>3 DEF PortOf

LEMMA PortedHosts ==
  ASSUME Types, Types', Divided', Ported, Settles, \A o \in Owners \ Hosts : ports'[o] = ports[o]
  PROVE  Ported'
<1>1. ASSUME NEW o \in Owners, NEW x \in ToSet(ports'[o]) PROVE PortOf(o, x)'
  <2>1. CASE o \in Hosts
    <3>1. ports'[o] \in Seq(OwnPort(o))
      BY <2>1 DEF Types, WiringType
    <3>2. x \in OwnPort(o)
      BY <3>1, Elements
    <3>3. x[3] \in Devices /\ x = Port(o, x[3])
      BY <3>2 DEF OwnPort, PortTask, Port
    <3> QED BY <2>1, <3>3 DEF PortOf
  <2>2. CASE o \notin Hosts
    BY <2>2, PortStays DEF Ported
  <2> QED BY <2>1, <2>2
<1>2. \A o \in Owners : IsInjective(ports'[o])
  BY DEF Ported, Divided, PortsOnce
<1> QED BY <1>1, <1>2 DEF Ported

(* The phys of a host are read at once.                                     *)
LEMMA PhysToOnce ==
  ASSUME NEW o \in Hosts, NEW d \in Devices
  PROVE  IsInjective(PhysTo(o, d)) /\ \A x \in ToSet(PhysTo(o, d)) : x[3] = d
<1> DEFINE N == IF d \in Expanders THEN Lanes ELSE 1
<1>1. N \in Nat
  BY LanesAssumption
<1>2. PhysTo(o, d) = [n \in 1 .. N |-> Phy(o, d, n)]
  BY DEF PhysTo
<1> HIDE DEF N
<1>3. \A n, k : Phy(o, d, n) = Phy(o, d, k) => n = k
  BY DEF Phy
<1>4. \A n : Phy(o, d, n)[3] = d
  BY DEF Phy
<1> QED BY <1>1, <1>2, <1>3, <1>4 DEF IsInjective, ToSet

LEMMA PhysOfOnce ==
  ASSUME NEW o \in Hosts
  PROVE  IsInjective(PhysOf(o))
<1> DEFINE up == IF o \in Expanders THEN PhysTo(o, o) ELSE <<>>
           p == Plugged(o)
           each == [i \in DOMAIN p |-> PhysTo(o, p[i])]
<1>1. PhysOf(o) = up \o FlattenSeq(each)
  BY DEF PhysOf
<1>2. p \in Seq({d \in Devices : At[d] = o}) /\ IsInjective(p)
  BY PluggedFacts, PluggedOnce
<1> HIDE DEF p
<1>3. /\ DOMAIN p = 1 .. Len(p) /\ Len(p) \in Nat
      /\ \A i \in 1 .. Len(p) : p[i] \in Devices /\ At[p[i]] = o /\ p[i] \in Far(o) /\ p[i] # o
  <2>1. /\ DOMAIN p = 1 .. Len(p) /\ Len(p) \in Nat
        /\ \A i \in 1 .. Len(p) : p[i] \in Devices /\ At[p[i]] = o
    BY <1>2
  <2>2. \A d \in Devices : At[d] = o => d # o
    BY AboveItself DEF Sub
  <2> QED BY <2>1, <2>2 DEF Far
<1>4. /\ each \in Seq(Seq(OwnPhy(o))) /\ Len(each) = Len(p)
      /\ \A i \in 1 .. Len(p) : each[i] = PhysTo(o, p[i])
  BY <1>3, PhysToFacts
<1> HIDE DEF each
<1>5. \A i \in 1 .. Len(p) : IsInjective(each[i]) /\ \A x \in ToSet(each[i]) : x[3] = p[i]
  BY <1>3, <1>4, PhysToOnce
<1>6. \A i, j \in 1 .. Len(p) : i # j => ToSet(each[i]) \cap ToSet(each[j]) = {}
  <2>1. \A i, j \in 1 .. Len(p) : i # j => p[i] # p[j]
    BY <1>2, OnceIn
  <2> QED BY <1>5, <2>1
<1>7. IsInjective(FlattenSeq(each)) /\ FlattenSeq(each) \in Seq(OwnPhy(o))
      /\ ToSet(FlattenSeq(each)) = UNION {ToSet(each[i]) : i \in 1 .. Len(p)}
  BY <1>4, <1>5, <1>6, FlattenedOnce, FlattenFacts
<1>8. \A x \in ToSet(FlattenSeq(each)) : x[3] # o
  BY <1>3, <1>5, <1>7
<1>9. up \in Seq(OwnPhy(o)) /\ IsInjective(up) /\ \A x \in ToSet(up) : x[3] = o
  <2>1. CASE o \in Expanders
    <3>1. o \in Far(o) /\ o \in Devices
      BY <2>1, KindFacts DEF Far
    <3> QED BY <2>1, <3>1, PhysToFacts, PhysToOnce
  <2>2. CASE o \notin Expanders
    BY <2>2, OnceNone, Empty
  <2> QED BY <2>1, <2>2
<1> HIDE DEF up
<1>10. ToSet(up) \cap ToSet(FlattenSeq(each)) = {}
  BY <1>8, <1>9
<1> QED BY <1>1, <1>7, <1>9, <1>10, JoinedOnce

LEMMA PhiedList ==
  ASSUME Types, Phied, Settles, Doing("list"), ListPhys(Owner)
  PROVE  Phied'
<1>1. PICK o : o = Owner
  OBVIOUS
<1>2. o \in Hosts /\ o \in Owners
  BY <1>1, HeadFacts, TaskKinds, KindFacts DEF Types, Doing, ListTask, Owner
<1>3. CASE phys' = phys
  BY <1>3, PhiedSame
<1>4. CASE phys' = [phys EXCEPT ![o] = PhysOf(o)]
  <2>1. \A u \in Owners : phys'[u] = IF u = o THEN PhysOf(o) ELSE phys[u]
    BY <1>4 DEF Types, WiringType
  <2>2. IsInjective(PhysOf(o)) /\ PhysOf(o) \in Seq(OwnPhy(o)) /\ ToSet(PhysOf(o)) \subseteq OwnPhy(o)
    BY <1>2, PhysOfOnce, PhysOfFacts, Elements
  <2>3. \A x \in OwnPhy(o) : x[3] \in Devices /\ x[4] \in 1 .. Lanes /\ x = Phy(o, x[3], x[4])
    BY DEF OwnPhy, PhyTask, Phy
  <2>4. \A x \in ToSet(PhysOf(o)) : PhyOf(o, x)'
    BY <1>2, <2>2, <2>3 DEF PhyOf
  <2>5. \A u \in Owners : \A x \in ToSet(phys[u]) : PhyOf(u, x)'
    BY PhyStays DEF Phied
  <2>6. \A u \in Owners : IsInjective(phys'[u]) /\ \A x \in ToSet(phys'[u]) : PhyOf(u, x)'
    BY <2>1, <2>2, <2>4, <2>5 DEF Phied
  <2> QED BY <2>6 DEF Phied
<1> QED BY <1>1, <1>3, <1>4 DEF ListPhys

LEMMA NotSooner ==
  ASSUME Types, Apart, todo # <<>>, NEW tasks \in Seq(Task), Push(tasks), NEW d \in Shade(Head(todo)),
         \A i \in 1 .. Len(tasks) : tasks[i][1] \in Early => d \notin Claims(tasks[i])
  PROVE  ~Sooner(d)'
<1> DEFINE n == Len(tasks)
<1>1. /\ n \in Nat /\ Len(todo) \in Nat /\ Len(todo') \in Nat /\ todo[1] = Head(todo)
      /\ \A i \in 1 .. n : todo'[i] = tasks[i]
      /\ \A i \in 2 .. Len(todo) : todo'[i + n - 1] = todo[i]
      /\ \A k \in 1 .. Len(todo') : k \in 1 .. n \/ \E i \in 2 .. Len(todo) : k = i + n - 1
  BY StackFacts DEF Types
<1> SUFFICES ASSUME NEW k \in 1 .. Len(todo'), todo'[k][1] \in Early PROVE d \notin Claims(todo'[k])
  BY DEF Sooner
<1>2. CASE k \in 1 .. n
  BY <1>1, <1>2
<1>3. CASE k \notin 1 .. n
  <2>1. PICK i \in 2 .. Len(todo) : k = i + n - 1
    BY <1>1, <1>3
  <2>2. todo'[k] = todo[i] /\ i \in 1 .. Len(todo) /\ 1 \in 1 .. i - 1
    BY <1>1, <2>1
  <2>3. Wants(todo[i]) \cap Shade(todo[1]) = {}
    BY <2>2 DEF Apart, Separate
  <2> QED BY <1>1, <2>2, <2>3 DEF Wants
<1> QED BY <1>2, <1>3

LEMMA NotSoonerNone ==
  ASSUME Types, Apart, todo # <<>>, Push(<<>>), NEW d \in Shade(Head(todo))
  PROVE  ~Sooner(d)'
<1> DEFINE none == <<>>
<1>1. none \in Seq(Task) /\ Len(none) = 0 /\ Push(none)
  OBVIOUS
<1> HIDE DEF none
<1>2. \A i \in 1 .. Len(none) : none[i][1] \in Early => d \notin Claims(none[i])
  BY <1>1
<1> QED BY <1>1, <1>2, NotSooner

LEMMA NotSoonerOne ==
  ASSUME Types, Types', Apart, todo # <<>>, NEW t, Push(<<t>>), NEW d \in Shade(Head(todo)), t[1] \notin Early
  PROVE  ~Sooner(d)'
<1> DEFINE tasks == <<t>>
<1>1. t \in Task
  <2>1. todo' = <<t>> \o Tail(todo) /\ Tail(todo) \in Seq(Task) /\ todo' \in Seq(Task)
    BY DEF Push, Types, TodoType
  <2>2. 1 \in 1 .. Len(todo') /\ todo'[1] = t
    BY <2>1
  <2> QED BY <2>1, <2>2, ElementOfSeq
<1>2. tasks \in Seq(Task) /\ Len(tasks) = 1 /\ tasks[1] = t /\ Push(tasks)
  BY <1>1
<1> HIDE DEF tasks
<1> QED BY <1>2, NotSooner

LEMMA SoonerHead ==
  ASSUME Types, todo # <<>>, Head(todo)[1] \in Early, NEW d \in Claims(Head(todo))
  PROVE  Sooner(d)
BY HeadOfTodo DEF Sooner

LEMMA PhiedNvme ==
  ASSUME Types, Types', Divided, Phied, Settles, Doing("nvme"), ReadNvmeDriver(Owner, Device)
  PROVE  Phied'
<1>1. PICK v, d : v = Owner /\ d = Device
  OBVIOUS
<1>2. Head(todo) \in NvmeTask /\ todo # <<>> /\ Head(todo)[1] = "nvme"
  BY HeadFacts, TaskKinds DEF Types, Doing
<1>3. v \in Owners \ Hosts /\ d \in Devices /\ At[d] = v /\ Head(todo)[2] = v /\ Head(todo)[3] = d
  BY <1>1, <1>2, KindFacts DEF NvmeTask, Owner, Device, Hosts
<1>4. d \in Claims(Head(todo)) /\ d \in Shade(Head(todo)) /\ Head(todo)[1] \in Early
  BY <1>2, <1>3, ClaimsAre DEF Early
<1>5. \/ phys' = phys
      \/ phys' = [phys EXCEPT ![v] = Append(@, Phy(v, d, 1))] /\ Push(<< <<"disk", v, d, d>> >>)
  BY <1>1 DEF ReadNvmeDriver, Continue, Push
<1>6. PICK t : t = <<"disk", v, d, d>>
  OBVIOUS
<1>7. t[1] \notin Early
  BY <1>6 DEF Early
<1>8. CASE phys' = phys
  BY <1>8, PhiedSame
<1>9. CASE phys' = [phys EXCEPT ![v] = Append(@, Phy(v, d, 1))] /\ Push(<<t>>)
  <2>1. ~Sooner(d)'
    BY <1>2, <1>4, <1>7, <1>9, NotSoonerOne DEF Divided
  <2>2. Sooner(d)
    BY <1>2, <1>4, SoonerHead
  <2> QED BY <1>3, <1>9, <2>1, <2>2, PhiedAdd
<1> QED BY <1>5, <1>6, <1>8, <1>9

LEMMA PhiedMember ==
  ASSUME Types, Types', Divided, Phied, Settles, Doing("member"), AttachMember(Owner, Device)
  PROVE  Phied'
<1>1. PICK m, d : m = Owner /\ d = Device
  OBVIOUS
<1>2. Head(todo) \in MemberTask /\ todo # <<>> /\ Head(todo)[1] = "member"
  BY HeadFacts, TaskKinds DEF Types, Doing
<1>3. m \in Owners \ Hosts /\ d \in Devices /\ At[d] = m /\ Head(todo)[2] = m /\ Head(todo)[3] = d
  BY <1>1, <1>2, KindFacts DEF MemberTask, Owner, Device, Hosts
<1>4. d \in Claims(Head(todo)) /\ d \in Shade(Head(todo)) /\ Head(todo)[1] \in Early
  BY <1>2, <1>3, ClaimsAre DEF Early
<1>5. Push(<<>>) /\ (phys' = phys \/ phys' = [phys EXCEPT ![m] = Append(@, Phy(m, d, 1))])
  BY <1>1, PushNone DEF AttachMember
<1>6. CASE phys' = phys
  BY <1>6, PhiedSame
<1>7. CASE phys' = [phys EXCEPT ![m] = Append(@, Phy(m, d, 1))]
  <2>1. ~Sooner(d)'
    BY <1>2, <1>4, <1>5, NotSoonerNone DEF Divided
  <2>2. Sooner(d)
    BY <1>2, <1>4, SoonerHead
  <2> QED BY <1>3, <1>7, <2>1, <2>2, PhiedAdd
<1> QED BY <1>5, <1>6, <1>7

LEMMA PhiedStat ==
  ASSUME Types, Types', Divided, Phied, Settles, Doing("stat"), Owner \in Ahci, StatTargets(Owner, Device, Argument)
  PROVE  Phied'
<1> DEFINE c == Owner
           h == Device
           found == Found(Argument)
           each == Each("member", h, found)
           multiplier == <<"multiplier", c, h>>
           disk == <<"disk", c, found[1], h>>
<1>1. todo # <<>> /\ Head(todo) \in AhciStat /\ Head(todo)[1] = "stat" /\ Head(todo)[2] = c /\ Head(todo)[3] = h
  BY HeadFacts, TaskKinds, KindFacts DEF Types, Doing, VmdStat, Owner, Device
<1>2. /\ found \in Seq(Disks)
      /\ Len(found) > 1 => h \in Multipliers /\ each \in Seq(Task) /\ <<multiplier>> \in Seq(Task)
  BY <1>1, TargetTasks DEF Owner, Device, Argument
<1>3. c \in Owners \ Hosts /\ c \notin Vmd /\ h \in Devices /\ At[h] = c
  BY <1>1, KindFacts DEF AhciStat, Hosts, Device
<1>4. h \in Claims(Head(todo)) /\ h \in Shade(Head(todo)) /\ Head(todo)[1] \in Early
  BY <1>1, <1>3, ClaimsAre DEF Early, Sub
<1>5. Len(found) > 1 => \A i \in 1 .. Len(each) : each[i][1] = "member" /\ each[i][3] # h
  <2> SUFFICES ASSUME Len(found) > 1, NEW i \in 1 .. Len(each) PROVE each[i][1] = "member" /\ each[i][3] # h
    OBVIOUS
  <2>1. Len(each) = Len(found) /\ \A k \in 1 .. Len(found) : each[k] = <<"member", h, found[k]>>
    <3>1. found \in Seq(Disks)
      BY <1>2
    <3> HIDE DEF found, h
    <3> QED BY <3>1, EachEntries
  <2>2. found \in Seq(Disks) /\ h \in Multipliers
    BY <1>2
  <2> HIDE DEF found, each, h
  <2>3. found[i] \in Disks /\ each[i] = <<"member", h, found[i]>>
    BY <2>1, <2>2
  <2> QED BY <2>2, <2>3, KindFacts
<1>6. /\ phys' = [phys EXCEPT ![c] = Append(@, Phy(c, h, 1))]
      /\ \/ Push(<<>>)
         \/ Push(<<disk>>)
         \/ Len(found) > 1 /\ Push(each \o <<multiplier>>)
  BY DEF StatTargets, Continue, Push
<1>7. disk[1] \notin Early /\ multiplier[1] \notin Early
  BY DEF Early
<1>8. PICK e : e = h
  OBVIOUS
<1> HIDE DEF c, h, found, each, disk, multiplier
<1>9. ~Sooner(e)'
  <2>1. CASE Push(<<>>)
    BY <1>1, <1>4, <1>8, <2>1, NotSoonerNone DEF Divided
  <2>2. CASE Push(<<disk>>)
    BY <1>1, <1>4, <1>7, <1>8, <2>2, NotSoonerOne DEF Divided
  <2>3. CASE Len(found) > 1 /\ Push(each \o <<multiplier>>)
    <3> DEFINE tasks == each \o <<multiplier>>
    <3>1. each \in Seq(Task) /\ <<multiplier>> \in Seq(Task) /\ tasks \in Seq(Task)
      BY <1>2, <2>3, Joined
    <3>2. ASSUME NEW i \in 1 .. Len(tasks) PROVE tasks[i][1] \in Early => h \notin Claims(tasks[i])
      <4>1. tasks[i] = multiplier \/ (i \in 1 .. Len(each) /\ tasks[i] = each[i])
        BY <3>1, <3>2
      <4>2. CASE tasks[i] = multiplier
        BY <1>7, <4>2
      <4>3. CASE i \in 1 .. Len(each) /\ tasks[i] = each[i]
        <5>1. each[i][1] = "member" /\ each[i][3] # h
          BY <1>5, <2>3, <4>3
        <5> QED BY <4>3, <5>1, ClaimsAre
      <4> QED BY <4>1, <4>2, <4>3
    <3>3. Push(tasks)
      BY <2>3
    <3> HIDE DEF tasks
    <3> QED BY <1>1, <1>4, <1>8, <3>1, <3>2, <3>3, NotSooner DEF Divided
  <2> QED BY <1>6, <2>1, <2>2, <2>3
<1>10. Sooner(e)
  BY <1>1, <1>4, <1>8, SoonerHead
<1> QED BY <1>3, <1>6, <1>8, <1>9, <1>10, PhiedAdd

LEMMA PhiedNext ==
  ASSUME Types, Types', Divided, Phied, Settles, [Next]_vars
  PROVE  Phied'
<1>1. \/ phys' = phys
      \/ Doing("list") /\ ListPhys(Owner)
      \/ Doing("stat") /\ Owner \in Ahci /\ StatTargets(Owner, Device, Argument)
      \/ Doing("nvme") /\ ReadNvmeDriver(Owner, Device)
      \/ Doing("member") /\ AttachMember(Owner, Device)
  BY DEF vars, wiring, Next, Change, ReadPhy, CreatePort, ListPorts, DiscoverPort, AttachExpander, OpenEndDevice,
         ReadDir, StatNvme, AttachSingle, AttachMultiplier, AddToSession, Opened, Stop
<1> QED BY <1>1, PhiedSame, PhiedList, PhiedStat, PhiedNvme, PhiedMember

LEMMA PortedDone ==
  ASSUME Types, Divided, Ported, todo # <<>>, Push(<<>>), NEW o \in Owners \ Hosts, NEW d \in Devices, At[d] = o,
         d \in Claims(Head(todo)), ports' = ports \/ ports' = [ports EXCEPT ![o] = Append(@, Port(o, d))]
  PROVE  Ported'
<1>1. Settles /\ \A x \in Shade(Head(todo)) : ~Claimed(x)'
  BY DoneAvoided
<1>2. ~Claimed(d)' /\ Claimed(d)
  BY <1>1, HeadOfTodo, ClaimsAre DEF Claimed
<1> QED BY <1>1, <1>2, PortedSame, PortedAdd

LEMMA PortedNext ==
  ASSUME Types, Types', Divided, Divided', Ported, Settles, [Next]_vars
  PROVE  Ported'
<1>1. \/ ports' = ports
      \/ Doing("phy") /\ ReadPhy(Owner, Device, Argument)
      \/ Doing("create") /\ CreatePort(Owner, Device, Argument)
      \/ Doing("disk") /\ AttachSingle(Owner, Device, Argument)
      \/ Doing("member") /\ AttachMember(Owner, Device)
      \/ Doing("multiplier") /\ AttachMultiplier(Owner, Device)
  BY DEF vars, wiring, Next, Change, ListPhys, ListPorts, DiscoverPort, AttachExpander, OpenEndDevice,
         ReadDir, StatNvme, StatTargets, ReadNvmeDriver, AddToSession, Opened, Stop
<1>2. CASE (Doing("phy") /\ ReadPhy(Owner, Device, Argument)) \/ (Doing("create") /\ CreatePort(Owner, Device, Argument))
  <2>1. Head(todo) \in PhyTask
    BY <1>2, HeadFacts, TaskKinds DEF Types, Doing
  <2>2. Owner \in Hosts
    BY <2>1, PhyTaskFacts DEF Owner
  <2>3. ports' = ports \/ ports' = [ports EXCEPT ![Owner] = Append(@, Port(Owner, Device))]
    BY <1>2 DEF ReadPhy, CreatePort
  <2>4. \A o \in Owners \ Hosts : ports'[o] = ports[o]
    BY <2>2, <2>3 DEF Types, WiringType
  <2> QED BY <2>4, PortedHosts
<1>3. CASE Doing("disk") /\ AttachSingle(Owner, Device, Argument)
  <2>1. PICK c, d, h : c = Owner /\ d = Device /\ h = Argument
    OBVIOUS
  <2>2. Head(todo) \in DiskTask /\ todo # <<>> /\ Head(todo)[1] = "disk"
    BY <1>3, HeadFacts, TaskKinds DEF Types, Doing
  <2>3. c \in Owners \ Hosts /\ h \in Devices /\ At[h] = c /\ Head(todo)[4] = h
    BY <2>1, <2>2, KindFacts DEF DiskTask, Owner, Argument, Hosts
  <2>4. h \in Claims(Head(todo))
    BY <2>2, <2>3, ClaimsAre
  <2>5. Push(<<>>) /\ ports' = [ports EXCEPT ![c] = Append(@, Port(c, h))]
    BY <1>3, <2>1, PushNone DEF AttachSingle
  <2> QED BY <2>2, <2>3, <2>4, <2>5, PortedDone
<1>4. CASE Doing("member") /\ AttachMember(Owner, Device)
  <2>1. PICK m, d : m = Owner /\ d = Device
    OBVIOUS
  <2>2. Head(todo) \in MemberTask /\ todo # <<>> /\ Head(todo)[1] = "member"
    BY <1>4, HeadFacts, TaskKinds DEF Types, Doing
  <2>3. m \in Owners \ Hosts /\ d \in Devices /\ At[d] = m /\ Head(todo)[3] = d
    BY <2>1, <2>2, KindFacts DEF MemberTask, Owner, Device, Hosts
  <2>4. d \in Claims(Head(todo))
    BY <2>2, <2>3, ClaimsAre
  <2>5. Push(<<>>) /\ (ports' = ports \/ ports' = [ports EXCEPT ![m] = Append(@, Port(m, d))])
    BY <1>4, <2>1, PushNone DEF AttachMember
  <2> QED BY <2>2, <2>3, <2>4, <2>5, PortedDone
<1>5. CASE Doing("multiplier") /\ AttachMultiplier(Owner, Device)
  <2>1. PICK c, m : c = Owner /\ m = Device
    OBVIOUS
  <2>2. Head(todo) \in MultiplierTask /\ todo # <<>> /\ Head(todo)[1] = "multiplier"
    BY <1>5, HeadFacts, TaskKinds DEF Types, Doing
  <2>3. c \in Owners \ Hosts /\ m \in Devices /\ At[m] = c /\ Head(todo)[3] = m
    BY <2>1, <2>2, KindFacts DEF MultiplierTask, Owner, Device, Hosts
  <2>4. m \in Claims(Head(todo))
    BY <2>2, <2>3, ClaimsAre
  <2>5. Push(<<>>) /\ ports' = [ports EXCEPT ![c] = Append(@, Port(c, m))]
    BY <1>5, <2>1, PushNone DEF AttachMultiplier
  <2> QED BY <2>2, <2>3, <2>4, <2>5, PortedDone
<1> QED BY <1>1, <1>2, <1>3, <1>4, <1>5, PortedSame

LEMMA TurnedSame ==
  ASSUME Turned, \A e \in Expanders : ports'[e] = ports[e] /\ (e \in subtractive' => e \in subtractive)
  PROVE  Turned'
BY DEF Turned

LEMMA TurnedElse ==
  ASSUME Types, Turned, NEW o \in Owners \ Hosts, NEW x, ports' = ports \/ ports' = [ports EXCEPT ![o] = Append(@, x)],
         subtractive' = subtractive
  PROVE  Turned'
<1>1. \A e \in Expanders : ports'[e] = ports[e]
  BY KindFacts, PortsElsewhere DEF Hosts
<1> QED BY <1>1, TurnedSame

LEMMA TurnedStat ==
  ASSUME Types, Turned, Doing("stat"), Owner \in Ahci, StatTargets(Owner, Device, Argument)
  PROVE  Turned'
<1>1. PICK h, found : h = Device /\ found = Found(Argument)
  OBVIOUS
<1>2. todo # <<>> /\ Head(todo) \in AhciStat /\ Head(todo)[3] = h /\ found = Found(Head(todo)[4])
  BY <1>1, HeadFacts, TaskKinds, KindFacts DEF Types, Doing, VmdStat, Owner, Device, Argument
<1>3. Len(found) > 1 => h \in Multipliers
  BY <1>2, TargetTasks
<1>4. ports' = ports /\ (subtractive' = subtractive \/ (Len(found) > 1 /\ subtractive' = subtractive \cup {h}))
  BY <1>1 DEF StatTargets
<1>5. \A e \in Expanders : e \in subtractive' => e \in subtractive
  BY <1>3, <1>4, KindFacts
<1> QED BY <1>4, <1>5, TurnedSame

LEMMA TurnedCreate ==
  ASSUME Types, Divided, Turned, Doing("create"), CreatePort(Owner, Device, Argument)
  PROVE  Turned'
<1>1. PICK o, d : o = Owner /\ d = Device
  OBVIOUS
<1>2. Head(todo) \in PhyTask /\ todo # <<>> /\ Head(todo)[1] = "create"
  BY HeadFacts, TaskKinds DEF Types, Doing
<1>3. /\ o \in Hosts /\ o \in Owners /\ d \in Devices /\ Port(o, d) \in OwnPort(o)
      /\ Head(todo)[2] = o /\ Head(todo)[3] = d
  BY <1>1, <1>2, PhyTaskFacts, KindFacts DEF Owner, Device
<1>4. ~KnownPort(o, d)
  BY <1>2, <1>3, HeadOfTodo DEF Divided, Creates, Unknown
<1>5. ports[o] \in Seq(OwnPort(o)) /\ ports \in [Owners -> Seq(Objects)]
  BY <1>3 DEF Types, WiringType
<1>6. \/ o = d /\ subtractive' = subtractive \cup {o} /\ ports' = ports
      \/ subtractive' = subtractive /\ ports' = [ports EXCEPT ![o] = Append(@, Port(o, d))]
  BY <1>1 DEF CreatePort
<1>7. CASE o = d /\ subtractive' = subtractive \cup {o} /\ ports' = ports
  BY <1>4, <1>7 DEF Turned, KnownPort
<1>8. CASE subtractive' = subtractive /\ ports' = [ports EXCEPT ![o] = Append(@, Port(o, d))]
  <2> SUFFICES ASSUME NEW e \in Expanders, e \in subtractive, Port(e, e) \in ToSet(ports'[e]) PROVE FALSE
    BY <1>8 DEF Turned
  <2>1. e \in Owners
    BY KindFacts
  <2>2. Port(e, e) \notin ToSet(ports[e])
    BY DEF Turned
  <2>3. e = o
    BY <1>5, <1>8, <2>1, <2>2
  <2>4. ToSet(ports'[o]) = ToSet(ports[o]) \cup {Port(o, d)}
    BY <1>3, <1>5, <1>8, Appended
  <2>5. Port(e, e) = Port(o, d)
    BY <2>2, <2>3, <2>4
  <2>6. d = o
    BY <2>3, <2>5 DEF Port
  <2> QED BY <1>4, <2>3, <2>6 DEF KnownPort
<1> QED BY <1>6, <1>7, <1>8

LEMMA TurnedPhy ==
  ASSUME Types, Turned, Doing("phy"), ReadPhy(Owner, Device, Argument)
  PROVE  Turned'
<1>1. PICK o, d : o = Owner /\ d = Device
  OBVIOUS
<1>2. Head(todo) \in PhyTask
  BY HeadFacts, TaskKinds DEF Types, Doing
<1>3. o \in Hosts /\ o \in Owners
  BY <1>1, <1>2, PhyTaskFacts, KindFacts DEF Owner
<1>4. subtractive' = subtractive /\ (ports' = ports \/ (o \notin Expanders /\ ports' = [ports EXCEPT ![o] = Append(@, Port(o, d))]))
  BY <1>1 DEF ReadPhy
<1>5. \A e \in Expanders : ports'[e] = ports[e]
  BY <1>3, <1>4, KindFacts DEF Types, WiringType
<1> QED BY <1>4, <1>5, TurnedSame

LEMMA TurnedNext ==
  ASSUME Types, Divided, Turned, [Next]_vars
  PROVE  Turned'
<1>1. \/ UNCHANGED <<ports, subtractive>>
      \/ Doing("phy") /\ ReadPhy(Owner, Device, Argument)
      \/ Doing("create") /\ CreatePort(Owner, Device, Argument)
      \/ Doing("stat") /\ Owner \in Ahci /\ StatTargets(Owner, Device, Argument)
      \/ Doing("disk") /\ AttachSingle(Owner, Device, Argument)
      \/ Doing("member") /\ AttachMember(Owner, Device)
      \/ Doing("multiplier") /\ AttachMultiplier(Owner, Device)
  BY DEF vars, wiring, Next, Change, ListPhys, ListPorts, DiscoverPort, AttachExpander, OpenEndDevice,
         ReadDir, StatNvme, ReadNvmeDriver, AddToSession, Opened, Stop
<1>2. CASE UNCHANGED <<ports, subtractive>>
  BY <1>2, TurnedSame
<1>3. CASE Doing("disk") /\ AttachSingle(Owner, Device, Argument)
  <2>1. Owner \in Owners \ Hosts
    BY <1>3, HeadFacts, TaskKinds, KindFacts DEF Types, Doing, DiskTask, Owner, Hosts
  <2> QED BY <1>3, <2>1, TurnedElse DEF AttachSingle
<1>4. CASE Doing("member") /\ AttachMember(Owner, Device)
  <2>1. Owner \in Owners \ Hosts
    BY <1>4, HeadFacts, TaskKinds, KindFacts DEF Types, Doing, MemberTask, Owner, Hosts
  <2>2. subtractive' = subtractive /\ (ports' = ports \/ ports' = [ports EXCEPT ![Owner] = Append(@, Port(Owner, Device))])
    BY <1>4 DEF AttachMember
  <2> QED BY <2>1, <2>2, TurnedElse
<1>5. CASE Doing("multiplier") /\ AttachMultiplier(Owner, Device)
  <2>1. Owner \in Owners \ Hosts
    BY <1>5, HeadFacts, TaskKinds, KindFacts DEF Types, Doing, MultiplierTask, Owner, Hosts
  <2> QED BY <1>5, <2>1, TurnedElse DEF AttachMultiplier
<1> QED BY <1>1, <1>2, <1>3, <1>4, <1>5, TurnedPhy, TurnedCreate, TurnedStat

LEMMA FacingSame ==
  ASSUME Facing, subtractive \subseteq subtractive', \A o \in Owners : scope'[o].routers = scope[o].routers
  PROVE  Facing'
BY DEF Facing

LEMMA FacingEnd ==
  ASSUME Types, Facing, NEW o \in Owners, NEW d \in Disks, AttachEndDevice(o, d), subtractive' = subtractive
  PROVE  Facing'
<1>1. scope \in [Owners -> Scopes]
  BY DEF Types, TreeType
<1>2. \A x \in Owners : scope'[x].routers = scope[x].routers
  BY <1>1 DEF AttachEndDevice, Scopes
<1> QED BY <1>2, FacingSame

LEMMA FacingRouter ==
  ASSUME Types, Facing, NEW o \in Owners, NEW r \in Routers, AttachRoutingDevice(o, r), subtractive' = subtractive,
         r \in Expanders => r \in subtractive
  PROVE  Facing'
<1>1. /\ scope'[o].routers = Append(scope[o].routers, r)
      /\ \A x \in Owners \ {o} : scope'[x] = scope[x]
  BY RouterAdded DEF Types
<1>2. ToSet(scope'[o].routers) = ToSet(scope[o].routers) \cup {r}
  BY <1>1, ScopeFacts, Appended DEF Types
<1> QED BY <1>1, <1>2 DEF Facing

LEMMA FacingNext ==
  ASSUME Types, Facing, [Next]_vars
  PROVE  Facing'
<1>1. \/ scope' = scope /\ subtractive \subseteq subtractive'
      \/ Doing("attach") /\ AttachExpander(Owner, Device)
      \/ Doing("end") /\ OpenEndDevice(Owner, Device)
      \/ Doing("disk") /\ AttachSingle(Owner, Device, Argument)
      \/ Doing("member") /\ AttachMember(Owner, Device)
      \/ Doing("multiplier") /\ AttachMultiplier(Owner, Device)
  BY DEF vars, wiring, tree, Next, Change, ListPhys, ReadPhy, CreatePort, ListPorts, DiscoverPort,
         ReadDir, StatNvme, StatTargets, ReadNvmeDriver, AddToSession, Opened, Stop
<1>2. CASE scope' = scope /\ subtractive \subseteq subtractive'
  BY <1>2, FacingSame
<1>3. CASE Doing("attach") /\ AttachExpander(Owner, Device)
  <2>1. Owner \in Owners /\ Device \in Routers
    BY <1>3, HeadFacts, TaskKinds, KindFacts DEF Types, Doing, AttachTask, Owner, Device
  <2>2. CASE Device \notin subtractive
    BY <1>3, <2>2, FacingSame DEF AttachExpander, Stop, wiring, tree
  <2>3. CASE Device \in subtractive
    BY <1>3, <2>1, <2>3, FacingRouter DEF AttachExpander
  <2> QED BY <2>2, <2>3
<1>4. CASE Doing("end") /\ OpenEndDevice(Owner, Device)
  <2>1. Owner \in Owners
    BY <1>4, HeadFacts, TaskKinds, KindFacts DEF Types, Doing, EndTask, Owner
  <2>2. subtractive' = subtractive /\ (scope' = scope \/ (Device \in Disks /\ AttachEndDevice(Owner, Device)))
    BY <1>4 DEF OpenEndDevice, AttachEnd, tree
  <2> QED BY <2>1, <2>2, FacingSame, FacingEnd
<1>5. CASE Doing("disk") /\ AttachSingle(Owner, Device, Argument)
  <2>1. Owner \in Owners /\ Device \in Disks
    BY <1>5, HeadFacts, TaskKinds, KindFacts DEF Types, Doing, DiskTask, Owner, Device
  <2>2. subtractive' = subtractive /\ (scope' = scope \/ AttachEndDevice(Owner, Device))
    BY <1>5 DEF AttachSingle, AttachEnd, tree
  <2> QED BY <2>1, <2>2, FacingSame, FacingEnd
<1>6. CASE Doing("member") /\ AttachMember(Owner, Device)
  <2>1. Owner \in Owners /\ Device \in Disks
    BY <1>6, HeadFacts, TaskKinds, KindFacts DEF Types, Doing, MemberTask, Owner, Device
  <2>2. subtractive' = subtractive /\ (scope' = scope \/ AttachEndDevice(Owner, Device))
    BY <1>6 DEF AttachMember
  <2> QED BY <2>1, <2>2, FacingSame, FacingEnd
<1>7. CASE Doing("multiplier") /\ AttachMultiplier(Owner, Device)
  <2>1. Owner \in Owners /\ Device \in Multipliers /\ Device \in Routers
    BY <1>7, HeadFacts, TaskKinds, KindFacts DEF Types, Doing, MultiplierTask, Owner, Device
  <2>2. AttachRoutingDevice(Owner, Device) /\ subtractive' = subtractive
    BY <1>7 DEF AttachMultiplier
  <2> QED BY <2>1, <2>2, KindFacts, FacingRouter
<1> QED BY <1>1, <1>2, <1>3, <1>4, <1>5, <1>6, <1>7

LEMMA HousedNext ==
  ASSUME Types, Divided, Housed, Settles, [Next]_vars
  PROVE  Housed'
<1>1. enclosures' = enclosures \/ (Doing("end") /\ OpenEndDevice(Owner, Device))
  BY DEF vars, boxes, Next, Change, ListPhys, ReadPhy, CreatePort, ListPorts, DiscoverPort, AttachExpander,
         ReadDir, StatNvme, StatTargets, ReadNvmeDriver, AttachSingle, AttachMember, AttachMultiplier, AddToSession,
         Opened, Stop
<1>2. CASE enclosures' = enclosures
  BY <1>2, HousedSame
<1>3. CASE enclosures' # enclosures
  <2>1. PICK o, s, c : o = Owner /\ s = Device /\ c = Root(o)
    OBVIOUS
  <2>2. Head(todo) \in EndTask /\ todo # <<>> /\ Head(todo)[1] = "end"
    BY <1>1, <1>3, HeadFacts, TaskKinds DEF Types, Doing
  <2>3. o \in Owners /\ s \in Disks \cup Ses /\ Head(todo)[3] = s
    BY <2>1, <2>2, KindFacts DEF EndTask, Owner, Device
  <2>4. /\ s \notin Disks /\ c # None /\ Push(<<>>)
        /\ enclosures' = [enclosures EXCEPT ![c] = Append(@, s)]
    BY <1>1, <1>3, <2>1, PushNone DEF OpenEndDevice, AttachEnclosure, TakeEnclosure, boxes
  <2>5. c \in Controllers
    <3>1. enclosures \in [Controllers -> Seq(Ses)]
      BY DEF Types, BoxesType
    <3> SUFFICES ASSUME c \notin Controllers PROVE FALSE
      OBVIOUS
    <3>2. enclosures' = enclosures
      BY <2>4, <3>1
    <3> QED BY <1>3, <3>2
  <2>6. s \in Claims(Head(todo)) /\ s \in Shade(Head(todo))
    BY <2>2, <2>3, ClaimsAre
  <2>7. Claimed(s) /\ ~Claimed(s)'
    BY <2>2, <2>4, <2>6, DoneAvoided, HeadOfTodo DEF Claimed
  <2> QED BY <2>3, <2>4, <2>5, <2>7, HousedAdd
<1> QED BY <1>2, <1>3

Numbered == Phied /\ Ported /\ Turned /\ Facing /\ Housed

LEMMA NumberedInit == Init => Numbered
<1> SUFFICES ASSUME Init PROVE Numbered
  OBVIOUS
<1>1. \A o \in Owners : /\ phys[o] = <<>> /\ ports[o] = <<>> /\ scope[o].routers = <<>>
  BY DEF Init
<1>2. \A c \in Controllers : enclosures[c] = <<>>
  BY DEF Init
<1>3. ToSet(<<>>) = {} /\ IsInjective(<<>>)
  BY Empty, OnceNone
<1>4. Phied /\ Ported
  BY <1>1, <1>3 DEF Phied, Ported
<1>5. Turned /\ Facing /\ Housed
  BY <1>1, <1>2, <1>3, KindFacts DEF Turned, Facing, Housed
<1> QED BY <1>4, <1>5 DEF Numbered

LEMMA NumberedNext ==
  ASSUME Types, Types', Seen, Up, Divided, Numbered, [Next]_vars
  PROVE  Numbered'
<1>1. Divided' /\ Settles
  BY DividedNext
<1> QED BY <1>1, PhiedNext, PortedNext, TurnedNext, FacingNext, HousedNext DEF Numbered

-----------------------------------------------------------------------------
(* What a device adds to the session                                        *)

LEMMA JoinedMore ==
  ASSUME NEW X, NEW s \in Seq(X), NEW t \in Seq(X), IsInjective(s), IsInjective(t),
         NEW S, NEW T, ToSet(s) \subseteq S, ToSet(t) \subseteq T, S \cap T = {}
  PROVE  s \o t \in Seq(X) /\ IsInjective(s \o t) /\ ToSet(s \o t) \subseteq S \cup T
<1>1. ToSet(s) \cap ToSet(t) = {}
  OBVIOUS
<1> QED BY <1>1, Joined, JoinedOnce

Attached(r) == \E o \in Owners : r \in ToSet(scope[o].routers)

(* The ends in the scope of o are its own and nobody else's.                *)
LEMMA EndsOf ==
  ASSUME Types, Up, Scoped, NEW o \in Owners
  PROVE  LET ends == Concat(EndListed, scope[o].ends)
             S == ToSet(scope[o].ends)
         IN  /\ ends \in Seq(Objects) /\ IsInjective(ends) /\ ToSet(ends) \subseteq Marks(S)
             /\ S \subseteq Named /\ S \subseteq Disks /\ o \notin S /\ o \in Named
             /\ Mark(o) \cap Marks(S) = {}
<1>1. scope[o].ends \in Seq(Disks) /\ scope[o].allEnds \in Seq(Disks) /\ ToSet(scope[o].ends) \subseteq Disks
  BY ScopeFacts DEF Types
<1>2. IsInjective(scope[o].ends)
  BY <1>1, JoinedParts DEF Scoped, AllOnce
<1>3. ToSet(scope[o].ends) \subseteq Named /\ o \in Named /\ o \notin ToSet(scope[o].ends)
  BY <1>1, NameFacts, AllUnder, NotBelowItself
<1>4. Mark(o) = Marks({o})
  BY DEF Marks
<1>5. Marks({o}) \cap Marks(ToSet(scope[o].ends)) = {}
  BY <1>3, MarksApart
<1> QED BY <1>1, <1>2, <1>3, <1>4, <1>5, EndsPiece

LEMMA PhysAre ==
  ASSUME Types, Phied, NEW o \in Owners
  PROVE  /\ phys[o] \in Seq(Objects) /\ IsInjective(phys[o]) /\ ToSet(phys[o]) \subseteq PhysFor(o)
         /\ o \in Multipliers => Phy(o, o, 1) \notin ToSet(phys[o])
<1>1. phys[o] \in Seq(Objects)
  BY DEF Types, WiringType
<1>2. ASSUME NEW x \in ToSet(phys[o]) PROVE x \in PhysFor(o)
  BY <1>2 DEF Phied, PhyOf, PhysFor
<1>3. ASSUME o \in Multipliers, Phy(o, o, 1) \in ToSet(phys[o]) PROVE FALSE
  <2>1. o \notin Hosts /\ o \in Devices
    BY <1>3, KindsAssumption, KindFacts DEF Hosts, Controllers, Devices, Routers
  <2>2. PICK d \in Devices : \E n \in 1 .. Lanes : Phy(o, o, 1) = Phy(o, d, n) /\ At[d] = o
    BY <1>3, <2>1 DEF Phied, PhyOf
  <2>3. d = o
    BY <2>2 DEF Phy
  <2> QED BY <2>1, <2>2, <2>3, AboveItself DEF Sub
<1> QED BY <1>1, <1>2, <1>3 DEF Phied

LEMMA PortsAre ==
  ASSUME Types, Ported, NEW o \in Owners
  PROVE  /\ ports[o] \in Seq(Objects) /\ IsInjective(ports[o]) /\ ToSet(ports[o]) \subseteq PortsFor(o)
         /\ o \in Multipliers => Port(o, o) \notin ToSet(ports[o])
<1>1. ports[o] \in Seq(Objects)
  BY DEF Types, WiringType
<1>2. ASSUME NEW x \in ToSet(ports[o]) PROVE x \in PortsFor(o)
  BY <1>2 DEF Ported, PortOf, PortsFor
<1>3. ASSUME o \in Multipliers, Port(o, o) \in ToSet(ports[o]) PROVE FALSE
  <2>1. o \notin Hosts /\ o \in Devices
    BY <1>3, KindsAssumption, KindFacts DEF Hosts, Controllers, Devices, Routers
  <2>2. PICK d \in Devices : Port(o, o) = Port(o, d) /\ At[d] = o
    BY <1>3, <2>1 DEF Ported, PortOf
  <2>3. d = o
    BY <2>2 DEF Port
  <2> QED BY <2>1, <2>2, <2>3, AboveItself DEF Sub
<1> QED BY <1>1, <1>2, <1>3 DEF Ported

(* ... itself, its ends, its phys and its ports                             *)
LEMMA OwnPiece ==
  ASSUME Types, Up, Scoped, Numbered, NEW r \in Routers, Attached(r)
  PROVE  /\ RouterOwn(r) \in Seq(Objects) /\ IsInjective(RouterOwn(r))
         /\ ToSet(RouterOwn(r)) \subseteq Marks({r} \cup ToSet(scope[r].ends))
         /\ Port(r, r) \notin ToSet(RouterOwn(r))
<1> DEFINE first == IF r \in Multipliers THEN <<Phy(r, r, 1)>> ELSE <<>>
           one == <<r>>
           ends == Concat(EndListed, scope[r].ends)
           F == IF r \in Multipliers THEN {Phy(r, r, 1)} ELSE {}
           E == Marks(ToSet(scope[r].ends))
           H == ToSet(phys[r])
           P == ToSet(ports[r])
<1>1. r \in Owners /\ r \in Devices /\ r \in Objects /\ r \in Named /\ 1 \in 1 .. Lanes
  BY KindFacts, LanesAssumption DEF Objects, Named
<1>2. Phy(r, r, 1) \in Objects /\ Phy(r, r, 1) \in PhysFor(r) /\ Port(r, r) \in PortsFor(r)
  BY <1>1, PhyObject DEF PhysFor, PortsFor
<1>3. first \in Seq(Objects) /\ IsInjective(first) /\ ToSet(first) \subseteq F
  BY <1>2, OnceNone, OnceOne, Singleton, Empty
<1>4. one \in Seq(Objects) /\ IsInjective(one) /\ ToSet(one) \subseteq {r}
  BY <1>1, OnceOne, Singleton
<1>5. ends \in Seq(Objects) /\ IsInjective(ends) /\ ToSet(ends) \subseteq E /\ Mark(r) \cap E = {}
  BY <1>1, EndsOf
<1>6. /\ phys[r] \in Seq(Objects) /\ IsInjective(phys[r]) /\ H \subseteq PhysFor(r)
      /\ r \in Multipliers => Phy(r, r, 1) \notin H
  BY <1>1, PhysAre DEF Numbered
<1>7. /\ ports[r] \in Seq(Objects) /\ IsInjective(ports[r]) /\ P \subseteq PortsFor(r)
      /\ r \in Multipliers => Port(r, r) \notin P
  BY <1>1, PortsAre DEF Numbered
<1>8. Port(r, r) \notin P
  <2>1. CASE r \in Multipliers
    BY <1>7, <2>1
  <2>2. CASE r \in Expanders
    BY <2>2 DEF Attached, Numbered, Facing, Turned
  <2> QED BY <2>1, <2>2, KindFacts
<1>9. /\ r \notin PhysFor(r) /\ r \notin PortsFor(r) /\ PhysFor(r) \cap PortsFor(r) = {}
      /\ Mark(r) = {r} \cup PhysFor(r) \cup PortsFor(r) /\ F \subseteq PhysFor(r) /\ F \cap H = {}
  BY <1>1, <1>2, <1>6, MarkFacts DEF Mark
<1>10. Marks({r} \cup ToSet(scope[r].ends)) = Mark(r) \cup E
  BY DEF Marks
<1>11. RouterOwn(r) = first \o one \o ends \o phys[r] \o ports[r]
  BY DEF RouterOwn
<1> HIDE DEF first, one, ends, F, E, H, P
<1> DEFINE a == first \o one
           b == a \o ends
           c == b \o phys[r]
<1>12. a \in Seq(Objects) /\ IsInjective(a) /\ ToSet(a) \subseteq F \cup {r}
  <2>1. F \cap {r} = {}
    BY <1>9
  <2> QED BY <1>3, <1>4, <2>1, JoinedMore
<1> HIDE DEF a
<1>13. b \in Seq(Objects) /\ IsInjective(b) /\ ToSet(b) \subseteq F \cup {r} \cup E
  <2>1. (F \cup {r}) \cap E = {}
    BY <1>5, <1>9
  <2> QED BY <1>5, <1>12, <2>1, JoinedMore
<1> HIDE DEF b
<1>14. c \in Seq(Objects) /\ IsInjective(c) /\ ToSet(c) \subseteq F \cup {r} \cup E \cup H
  <2>1. (F \cup {r} \cup E) \cap H = {}
    BY <1>5, <1>6, <1>9
  <2> QED BY <1>6, <1>13, <2>1, JoinedMore DEF H
<1> HIDE DEF c
<1>15. /\ c \o ports[r] \in Seq(Objects) /\ IsInjective(c \o ports[r])
       /\ ToSet(c \o ports[r]) \subseteq F \cup {r} \cup E \cup H \cup P
  <2>1. (F \cup {r} \cup E \cup H) \cap P = {}
    BY <1>5, <1>6, <1>7, <1>9
  <2> QED BY <1>7, <1>14, <2>1, JoinedMore DEF P
<1>16. RouterOwn(r) = c \o ports[r]
  BY <1>11 DEF a, b, c
<1>17. Port(r, r) \notin F \cup {r} \cup E \cup H \cup P
  BY <1>2, <1>5, <1>6, <1>8, <1>9
<1> QED BY <1>6, <1>7, <1>9, <1>10, <1>15, <1>16, <1>17

(* ... and all that is below it                                             *)
Good(r) == IsInjective(RouterListed(r)) /\ ToSet(RouterListed(r)) \subseteq Marks(Sub(r) \ Ses)

LEMMA RoutersPiece ==
  ASSUME Types, Up, Scoped, NEW o \in Owners, \A r \in ToSet(scope[o].routers) : Good(r)
  PROVE  LET routers == Concat(RouterListed, scope[o].routers)
             S == UNION {Sub(r) \ Ses : r \in ToSet(scope[o].routers)}
         IN  /\ routers \in Seq(Objects) /\ IsInjective(routers) /\ ToSet(routers) \subseteq Marks(S)
             /\ S \subseteq Under(o) \ Ses /\ o \notin S /\ ToSet(scope[o].ends) \cap S = {}
<1> DEFINE s == scope[o].routers
           each == [i \in DOMAIN s |-> RouterListed(s[i])]
           S == UNION {Sub(r) \ Ses : r \in ToSet(s)}
<1>1. s \in Seq(Routers) /\ scope[o].allRouters \in Seq(Routers)
  BY ScopeFacts DEF Types
<1>2. DOMAIN s = 1 .. Len(s) /\ Len(s) \in Nat /\ \A i \in 1 .. Len(s) : s[i] \in Routers /\ s[i] \in ToSet(s)
  BY <1>1, Elements
<1>3. IsInjective(s)
  BY <1>1, JoinedParts DEF Scoped, AllOnce
<1>4. \A r \in ToSet(s) : r \in Devices /\ At[r] = o
  BY AllUnder
<1>5. Concat(RouterListed, scope[o].routers) = FlattenSeq(each)
  BY DEF Concat
<1>6. /\ each \in Seq(Seq(Objects)) /\ Len(each) = Len(s)
      /\ \A i \in 1 .. Len(s) : each[i] = RouterListed(s[i])
  <2>1. \A i \in 1 .. Len(s) : RouterListed(s[i]) \in Seq(Objects)
    BY <1>2, RouterIsListed
  <2> HIDE DEF s
  <2> QED BY <1>2, <2>1
<1> HIDE DEF s, each
<1>7. \A i \in 1 .. Len(s) : IsInjective(each[i]) /\ ToSet(each[i]) \subseteq Marks(Sub(s[i]) \ Ses)
  BY <1>2, <1>6 DEF Good, s
<1>8. \A i, j \in 1 .. Len(s) : i # j => ToSet(each[i]) \cap ToSet(each[j]) = {}
  <2> SUFFICES ASSUME NEW i \in 1 .. Len(s), NEW j \in 1 .. Len(s), i # j
               PROVE  ToSet(each[i]) \cap ToSet(each[j]) = {}
    OBVIOUS
  <2>1. s[i] # s[j]
    BY <1>1, <1>3, OnceIn
  <2>2. s[i] \in Devices /\ s[j] \in Devices /\ At[s[i]] = At[s[j]]
    BY <1>2, <1>4
  <2>3. Sub(s[i]) \cap Sub(s[j]) = {}
    BY <2>1, <2>2, Siblings
  <2>4. Sub(s[i]) \subseteq Named /\ Sub(s[j]) \subseteq Named
    BY <2>2, UnderRule DEF Sub, Named
  <2> DEFINE A == Sub(s[i]) \ Ses
             B == Sub(s[j]) \ Ses
  <2>5. A \in SUBSET Named /\ B \in SUBSET Named /\ A \cap B = {}
    BY <2>3, <2>4
  <2>6. ToSet(each[i]) \subseteq Marks(A) /\ ToSet(each[j]) \subseteq Marks(B)
    BY <1>7
  <2> HIDE DEF A, B
  <2>7. Marks(A) \cap Marks(B) = {}
    BY <2>5, MarksApart
  <2> QED BY <2>6, <2>7
<1>9. IsInjective(FlattenSeq(each))
  BY <1>6, <1>7, <1>8, FlattenedOnce
<1>10. FlattenSeq(each) \in Seq(Objects) /\ ToSet(FlattenSeq(each)) = UNION {ToSet(each[i]) : i \in 1 .. Len(s)}
  BY <1>6, FlattenFacts
<1>11. ToSet(FlattenSeq(each)) \subseteq Marks(S)
  <2>1. ASSUME NEW i \in 1 .. Len(s) PROVE ToSet(each[i]) \subseteq Marks(S)
    <3>1. Sub(s[i]) \ Ses \subseteq S
      BY <1>2
    <3>2. Marks(Sub(s[i]) \ Ses) \subseteq Marks(S)
      BY <3>1 DEF Marks
    <3> QED BY <1>7, <3>2
  <2> QED BY <1>10, <2>1
<1>12. \A r \in ToSet(s) : Sub(r) \subseteq Under(o) /\ o \notin Sub(r)
  BY <1>4, SubUnder
<1>13. S \subseteq Under(o) \ Ses /\ o \notin S
  BY <1>12
<1>14. ASSUME NEW d \in ToSet(scope[o].ends), NEW r \in ToSet(s), d \in Sub(r) PROVE FALSE
  <2>1. d \notin Under(r)
    BY <1>14 DEF Scoped, Routed, s
  <2>2. d \in Disks /\ r \in Routers
    BY <1>1, EndsUnder, Elements
  <2> QED BY <1>14, <2>1, <2>2, KindFacts DEF Sub
<1>15. ToSet(scope[o].ends) \cap S = {}
  BY <1>14
<1> QED BY <1>5, <1>9, <1>10, <1>11, <1>13, <1>15 DEF s

LEMMA GoodBy ==
  ASSUME Types, Up, Scoped, Numbered, NEW r \in Routers, Attached(r), \A x \in ToSet(scope[r].routers) : Good(x)
  PROVE  Good(r)
<1> DEFINE own == RouterOwn(r)
           routers == Concat(RouterListed, scope[r].routers)
           port == <<Port(r, r)>>
           S == {r} \cup ToSet(scope[r].ends)
           T == UNION {Sub(x) \ Ses : x \in ToSet(scope[r].routers)}
<1>1. r \in Owners /\ r \in Devices /\ r \in Named /\ r \notin Ses /\ r \notin Disks
  BY KindFacts DEF Named
<1>2. own \in Seq(Objects) /\ IsInjective(own) /\ ToSet(own) \subseteq Marks(S) /\ Port(r, r) \notin ToSet(own)
  BY OwnPiece
<1>3. /\ routers \in Seq(Objects) /\ IsInjective(routers) /\ ToSet(routers) \subseteq Marks(T)
      /\ T \subseteq Under(r) \ Ses /\ r \notin T /\ ToSet(scope[r].ends) \cap T = {}
  BY <1>1, RoutersPiece
<1>4. ToSet(scope[r].ends) \subseteq Disks /\ ToSet(scope[r].ends) \subseteq Under(r)
  BY <1>1, AllUnder, EndsOf
<1>5. S \in SUBSET Named /\ T \in SUBSET Named /\ S \cap T = {}
  BY <1>1, <1>3, <1>4, UnderRule DEF Named
<1>6. S \subseteq Sub(r) \ Ses /\ T \subseteq Sub(r) \ Ses
  BY <1>1, <1>3, <1>4, KindFacts DEF Sub
<1>7. port \in Seq(Objects) /\ IsInjective(port) /\ ToSet(port) \subseteq {Port(r, r)} /\ Port(r, r) \in Mark(r)
  <2>1. Port(r, r) \in Objects /\ Port(r, r) \in PortsFor(r)
    BY <1>1, PortObject DEF PortsFor
  <2> QED BY <2>1, Singleton, OnceOne DEF Mark
<1>8. RouterListed(r) = own \o routers \o port
  BY RouterIsListed DEF Concat
<1>9. Mark(r) \subseteq Marks(S) /\ Marks(S) \subseteq Marks(Sub(r) \ Ses) /\ Marks(T) \subseteq Marks(Sub(r) \ Ses)
  BY <1>6 DEF Marks
<1> HIDE DEF own, routers, port, S, T
<1>10. Marks(S) \cap Marks(T) = {}
  BY <1>5, MarksApart
<1>11. own \o routers \in Seq(Objects) /\ IsInjective(own \o routers) /\ ToSet(own \o routers) \subseteq ToSet(own) \cup Marks(T)
  <2>1. ToSet(own) \cap Marks(T) = {}
    BY <1>2, <1>10
  <2> QED BY <1>2, <1>3, <2>1, JoinedMore
<1> DEFINE w == own \o routers
<1>12. w \in Seq(Objects) /\ IsInjective(w) /\ ToSet(w) \subseteq ToSet(own) \cup Marks(T)
  BY <1>11
<1> HIDE DEF w
<1>13. (ToSet(own) \cup Marks(T)) \cap {Port(r, r)} = {}
  BY <1>2, <1>7, <1>9, <1>10
<1>14. IsInjective(w \o port) /\ ToSet(w \o port) \subseteq ToSet(own) \cup Marks(T) \cup {Port(r, r)}
  BY <1>7, <1>12, <1>13, JoinedMore
<1>15. IsInjective(RouterListed(r)) /\ ToSet(RouterListed(r)) \subseteq Marks(Sub(r) \ Ses)
  <2>1. RouterListed(r) = w \o port
    BY <1>8 DEF w
  <2> QED BY <1>2, <1>7, <1>9, <1>14, <2>1
<1> QED BY <1>15 DEF Good

LEMMA AllGood ==
  ASSUME Types, Up, Scoped, Numbered, NEW o \in Owners
  PROVE  \A r \in ToSet(scope[o].routers) : Good(r)
<1> DEFINE Bad == {r \in Routers : Attached(r) /\ ~Good(r)}
<1>1. ASSUME NEW r \in Bad PROVE \E x \in Bad : At[x] = r
  <2>1. r \in Routers /\ r \in Owners /\ Attached(r) /\ ~Good(r)
    BY KindFacts
  <2>2. PICK x \in ToSet(scope[r].routers) : ~Good(x)
    BY <2>1, GoodBy
  <2>3. x \in Routers /\ At[x] = r
    BY <2>1, AllUnder
  <2> QED BY <2>1, <2>2, <2>3 DEF Attached
<1>2. Bad \in SUBSET Devices
  BY KindFacts
<1>3. Bad = {}
  <2> SUFFICES ASSUME Bad # {} PROVE FALSE
    OBVIOUS
  <2>1. PICK d \in Bad : \A x \in Bad : At[x] # d
    BY <1>2, TreeAssumption
  <2> QED BY <1>1, <2>1
<1>4. \A r \in ToSet(scope[o].routers) : r \in Routers
  BY AllUnder
<1> QED BY <1>3, <1>4 DEF Attached

(* What a controller adds to the session                                    *)
LEMMA ControllerPiece ==
  ASSUME Types, Up, Placed, Scoped, Numbered, SessionType, IsInjective(session),
         NEW c \in Controllers, ToSet(session) \cap Marks(Realm(c)) = {}, AddToSession(c)
  PROVE  IsInjective(session') /\ ToSet(session') \subseteq ToSet(session) \cup Marks(Realm(c))
<1> DEFINE one == <<c>>
           ends == Concat(EndListed, scope[c].ends)
           routers == Concat(RouterListed, scope[c].routers)
           D == ToSet(scope[c].ends)
           T == UNION {Sub(x) \ Ses : x \in ToSet(scope[c].routers)}
           E == Marks(D)
           R == Marks(T)
           P == ToSet(ports[c])
           H == ToSet(phys[c])
           Z == ToSet(enclosures[c])
           S == ToSet(session)
<1>1. c \in Owners /\ c \in Named /\ c \in Objects /\ c \notin Devices
  BY KindFacts, SubOfController DEF Named, Objects
<1>2. session \in Seq(Objects) /\ one \in Seq(Objects) /\ IsInjective(one) /\ ToSet(one) \subseteq {c}
  BY <1>1, Singleton, OnceOne DEF SessionType
<1>3. ends \in Seq(Objects) /\ IsInjective(ends) /\ ToSet(ends) \subseteq E /\ Mark(c) \cap E = {} /\ D \subseteq Disks
  BY <1>1, EndsOf
<1>4. /\ routers \in Seq(Objects) /\ IsInjective(routers) /\ ToSet(routers) \subseteq R
      /\ T \subseteq Under(c) \ Ses /\ c \notin T /\ D \cap T = {}
  BY <1>1, AllGood, RoutersPiece
<1>5. ports[c] \in Seq(Objects) /\ IsInjective(ports[c]) /\ P \subseteq PortsFor(c)
  BY <1>1, PortsAre DEF Numbered
<1>6. phys[c] \in Seq(Objects) /\ IsInjective(phys[c]) /\ H \subseteq PhysFor(c)
  BY <1>1, PhysAre DEF Numbered
<1>7. enclosures[c] \in Seq(Objects) /\ IsInjective(enclosures[c]) /\ Z \subseteq Ses /\ Z \subseteq Under(c)
  <2>1. Ses \subseteq Objects /\ enclosures[c] \in Seq(Ses)
    BY KindFacts DEF Objects, Types, BoxesType
  <2>2. enclosures[c] \in Seq(Objects) /\ Z \subseteq Ses
    BY <2>1, SeqMonotonic, Elements
  <2> QED BY <2>2 DEF Numbered, Housed, Placed
<1>8. /\ c \notin PhysFor(c) /\ c \notin PortsFor(c) /\ PhysFor(c) \cap PortsFor(c) = {}
      /\ Mark(c) = {c} \cup PhysFor(c) \cup PortsFor(c)
  BY <1>1, MarkFacts DEF Mark
<1>9. D \subseteq Under(c) /\ Under(c) \subseteq Devices /\ Under(c) \subseteq Named
  BY <1>1, AllUnder, UnderRule DEF Named
<1>10. Mark(c) \cap R = {} /\ E \cap R = {} /\ Z \cap Mark(c) = {} /\ Z \cap E = {} /\ Z \cap R = {}
  <2>1. {c} \in SUBSET Named /\ T \in SUBSET Named /\ D \in SUBSET Named /\ Z \in SUBSET Named
    BY <1>1, <1>4, <1>7, <1>9
  <2>2. {c} \cap T = {} /\ D \cap T = {} /\ Z \cap {c} = {} /\ Z \cap D = {} /\ Z \cap T = {}
    BY <1>1, <1>3, <1>4, <1>7, <1>9, KindFacts
  <2> HIDE DEF D, T, Z
  <2>3. /\ Marks({c}) \cap Marks(T) = {} /\ Marks(D) \cap Marks(T) = {} /\ Marks(Z) \cap Marks({c}) = {}
        /\ Marks(Z) \cap Marks(D) = {} /\ Marks(Z) \cap Marks(T) = {}
    BY <2>1, <2>2, MarksApart
  <2>4. Marks({c}) = Mark(c) /\ Z \subseteq Marks(Z)
    BY DEF Marks, Mark
  <2> QED BY <2>3, <2>4
<1>11. {c} \cup E \cup R \cup P \cup H \cup Z \subseteq Marks(Realm(c))
  <2>1. \A U : U \subseteq Realm(c) => Marks(U) \subseteq Marks(Realm(c))
    BY DEF Marks
  <2>2. Mark(c) \subseteq Marks(Realm(c)) /\ D \subseteq Realm(c) /\ T \subseteq Realm(c) /\ Z \subseteq Realm(c)
    BY <1>4, <1>7, <1>9 DEF Realm, Marks
  <2>3. Z \subseteq Marks(Z)
    BY DEF Marks, Mark
  <2> QED BY <1>5, <1>6, <1>8, <2>1, <2>2, <2>3
<1>12. S \cap ({c} \cup E \cup R \cup P \cup H \cup Z) = {}
  BY <1>11
<1>13. session' = session \o one \o ends \o routers \o ports[c] \o phys[c] \o enclosures[c]
  BY DEF AddToSession
<1> HIDE DEF one, ends, routers, D, T, E, R, P, H, Z, S
<1> DEFINE s1 == session \o one
           s2 == s1 \o ends
           s3 == s2 \o routers
           s4 == s3 \o ports[c]
           s5 == s4 \o phys[c]
           s6 == s5 \o enclosures[c]
<1>14. s1 \in Seq(Objects) /\ IsInjective(s1) /\ ToSet(s1) \subseteq S \cup {c}
  <2>1. ToSet(session) \subseteq S /\ S \cap {c} = {}
    BY <1>12 DEF S
  <2> QED BY <1>2, <2>1, JoinedMore
<1> HIDE DEF s1
<1>15. s2 \in Seq(Objects) /\ IsInjective(s2) /\ ToSet(s2) \subseteq S \cup {c} \cup E
  <2>1. (S \cup {c}) \cap E = {}
    BY <1>3, <1>8, <1>12
  <2> QED BY <1>3, <1>14, <2>1, JoinedMore
<1> HIDE DEF s2
<1>16. s3 \in Seq(Objects) /\ IsInjective(s3) /\ ToSet(s3) \subseteq S \cup {c} \cup E \cup R
  <2>1. (S \cup {c} \cup E) \cap R = {}
    BY <1>8, <1>10, <1>12
  <2> QED BY <1>4, <1>15, <2>1, JoinedMore
<1> HIDE DEF s3
<1>17. s4 \in Seq(Objects) /\ IsInjective(s4) /\ ToSet(s4) \subseteq S \cup {c} \cup E \cup R \cup P
  <2>1. (S \cup {c} \cup E \cup R) \cap P = {}
    BY <1>3, <1>5, <1>8, <1>10, <1>12
  <2>2. ToSet(ports[c]) \subseteq P
    BY DEF P
  <2> QED BY <1>5, <1>16, <2>1, <2>2, JoinedMore
<1> HIDE DEF s4
<1>18. s5 \in Seq(Objects) /\ IsInjective(s5) /\ ToSet(s5) \subseteq S \cup {c} \cup E \cup R \cup P \cup H
  <2>1. (S \cup {c} \cup E \cup R \cup P) \cap H = {}
    BY <1>3, <1>5, <1>6, <1>8, <1>10, <1>12
  <2>2. ToSet(phys[c]) \subseteq H
    BY DEF H
  <2> QED BY <1>6, <1>17, <2>1, <2>2, JoinedMore
<1> HIDE DEF s5
<1>19. s6 \in Seq(Objects) /\ IsInjective(s6) /\ ToSet(s6) \subseteq S \cup {c} \cup E \cup R \cup P \cup H \cup Z
  <2>1. (S \cup {c} \cup E \cup R \cup P \cup H) \cap Z = {}
    BY <1>5, <1>6, <1>8, <1>10, <1>12
  <2>2. ToSet(enclosures[c]) \subseteq Z
    BY DEF Z
  <2> QED BY <1>7, <1>18, <2>1, <2>2, JoinedMore
<1>20. session' = s6
  BY <1>13 DEF s1, s2, s3, s4, s5, s6
<1> HIDE DEF s6
<1> QED BY <1>11, <1>19, <1>20 DEF S

(* A controller adds once: none has while a task is left that will.         *)
Kept == \A c \in Controllers : ToSet(session) \cap Marks(Realm(c)) # {} => ~Claimed(c)
Registers == IsInjective(session) /\ Kept

LEMMA RegistersInit == Init => Registers
<1> SUFFICES ASSUME Init PROVE Registers
  OBVIOUS
<1>1. session = <<>> /\ ToSet(<<>>) = {}
  BY Empty DEF Init
<1> QED BY <1>1, OnceNone DEF Registers, Kept

LEMMA RegistersNext ==
  ASSUME Types, Types', Seen, Up, Placed, Divided, Scoped, Numbered, SessionType, Registers, [Next]_vars
  PROVE  Registers'
<1>1. Divided' /\ Settles
  BY DividedNext
<1>2. session' = session \/ session' = <<>> \/ (Doing("add") /\ AddToSession(Owner))
  BY DEF vars, Next, Change, ListPhys, ReadPhy, CreatePort, ListPorts, DiscoverPort, AttachExpander, OpenEndDevice,
         ReadDir, StatNvme, StatTargets, ReadNvmeDriver, AttachSingle, AttachMember, AttachMultiplier, Opened,
         Continue, Stop
<1>3. \A x : Claimed(x)' => Claimed(x)
  BY <1>1, SettlesMeans
<1>4. CASE session' = session
  <2>1. ASSUME NEW c \in Controllers, ToSet(session') \cap Marks(Realm(c)) # {} PROVE ~Claimed(c)'
    BY <1>3, <1>4, <2>1 DEF Registers, Kept
  <2>2. Kept'
    BY <2>1 DEF Kept, Marks, Mark, PhysFor, PortsFor, Phy, Port, Realm, Under, Leads
  <2> QED BY <1>4, <2>2 DEF Registers
<1>5. CASE session' = <<>>
  <2>1. ToSet(<<>>) = {}
    BY Empty
  <2> QED BY <1>5, <2>1, OnceNone DEF Registers, Kept
<1>6. CASE Doing("add") /\ AddToSession(Owner)
  <2>1. PICK c : c = Owner
    OBVIOUS
  <2>2. c \in Controllers /\ todo # <<>> /\ Head(todo)[1] = "add" /\ Head(todo)[2] = c
    BY <1>6, <2>1, HeadFacts, TaskKinds DEF Types, Doing, AddTask, Owner
  <2>3. Claims(Head(todo)) = {c} /\ Shade(Head(todo)) = {c}
    BY <2>2, ClaimsAre
  <2>4. Claimed(c)
    <3>1. Len(todo) \in Nat /\ 1 \in 1 .. Len(todo) /\ todo[1] = Head(todo)
      BY <2>2 DEF Types, TodoType
    <3> QED BY <2>3, <3>1 DEF Claimed
  <2>5. ~Claimed(c)'
    <3>1. Push(<<>>)
      BY <1>6, AddsPush DEF Adds
    <3> QED BY <2>2, <2>3, <3>1, DoneAvoided
  <2>6. ToSet(session) \cap Marks(Realm(c)) = {}
    BY <2>2, <2>4 DEF Registers, Kept
  <2>7. IsInjective(session') /\ ToSet(session') \subseteq ToSet(session) \cup Marks(Realm(c))
    BY <1>6, <2>1, <2>2, <2>6, ControllerPiece DEF Registers
  <2>8. ASSUME NEW k \in Controllers, ToSet(session') \cap Marks(Realm(k)) # {} PROVE ~Claimed(k)'
    <3>1. CASE k = c
      BY <2>5, <3>1
    <3>2. CASE k # c
      <4>1. Realm(c) \cap Realm(k) = {} /\ Realm(c) \in SUBSET Named /\ Realm(k) \in SUBSET Named
        BY <2>2, <3>2, RealmsApart, UnderRule DEF Realm, Named
      <4>2. Marks(Realm(c)) \cap Marks(Realm(k)) = {}
        BY <4>1, MarksApart
      <4>3. ToSet(session) \cap Marks(Realm(k)) # {}
        BY <2>7, <2>8, <4>2
      <4> QED BY <1>3, <4>3 DEF Registers, Kept
    <3> QED BY <3>1, <3>2
  <2>9. Kept'
    BY <2>8 DEF Kept, Marks, Mark, PhysFor, PortsFor, Phy, Port, Realm, Under, Leads
  <2> QED BY <2>7, <2>9 DEF Registers
<1> QED BY <1>2, <1>4, <1>5, <1>6

LEMMA RegistersHolds == Spec => [](Numbered /\ Registers)
<1>1. Init => Numbered /\ Registers
  BY NumberedInit, RegistersInit
<1>2. Types /\ Types' /\ Seen /\ Up /\ EncInv /\ (Divided /\ Scoped) /\ SessionType /\ (Numbered /\ Registers) /\ [Next]_vars
        => (Numbered /\ Registers)'
  BY NumberedNext, RegistersNext DEF EncInv, Mounts
<1> QED BY <1>1, <1>2, TypesHold, SeenHolds, UpHolds, EncHolds, DividedHolds, SessionHolds, PTL DEF Spec

(* A session holds no object twice, whatever is plugged or unplugged while  *)
(* it opens and however the devices are cabled: Session::add and the        *)
(* HandleManager do not look for one that is there, so that each controller *)
(* registers what is below it once, the ports of an expander with several   *)
(* phys, the disk of a multiplier that its controller takes for its own and *)
(* the enclosures behind several expanders included.                        *)
THEOREM RegisteredOnce == Spec => []OnceEach
<1>1. Numbered /\ Registers => OnceEach
  BY DEF Registers, OnceEach
<1> QED BY <1>1, RegistersHolds, PTL

-----------------------------------------------------------------------------
(* What a step adds to the lists of an owner                                *)

LEMMA AppendGrows ==
  ASSUME NEW X, NEW s \in Seq(X), NEW x
  PROVE  ToSet(Append(s, x)) = ToSet(s) \cup {x}
<1> DEFINE Y == X \cup {x}
<1>1. s \in Seq(Y) /\ x \in Y
  BY SeqMonotonic
<1> HIDE DEF Y
<1> QED BY <1>1, Appended

(* The phys of a host are what they will be, or none yet.                   *)
Fixed == \A o \in Hosts : phys[o] = <<>> \/ phys[o] = PhysOf(o)

Grows ==
  /\ \A o \in Owners : /\ ToSet(phys[o]) \subseteq ToSet(phys'[o]) /\ ToSet(ports[o]) \subseteq ToSet(ports'[o])
                       /\ ToSet(scope[o].ends) \subseteq ToSet(scope'[o].ends)
                       /\ ToSet(scope[o].routers) \subseteq ToSet(scope'[o].routers)
  /\ subtractive \subseteq subtractive'
Elsewhere ==
  \A o \in Owners : o # Owner =>
    phys'[o] = phys[o] /\ ports'[o] = ports[o] /\ scope'[o].ends = scope[o].ends /\ scope'[o].routers = scope[o].routers

LEMMA PhysGrow ==
  ASSUME Types, Fixed, [Next]_vars
  PROVE  /\ \A o \in Owners : ToSet(phys[o]) \subseteq ToSet(phys'[o])
         /\ phys' = phys \/ (status = "scan" /\ todo # <<>> /\ Owner \in Owners /\ \A o \in Owners : o # Owner => phys'[o] = phys[o])
         /\ Fixed'
<1>1. \/ phys' = phys
      \/ Doing("list") /\ ListPhys(Owner)
      \/ Doing("nvme") /\ ReadNvmeDriver(Owner, Device)
      \/ Doing("stat") /\ Owner \in Ahci /\ StatTargets(Owner, Device, Argument)
      \/ Doing("member") /\ AttachMember(Owner, Device)
  BY DEF vars, wiring, Next, Change, ReadPhy, CreatePort, ListPorts, DiscoverPort, AttachExpander, OpenEndDevice,
         ReadDir, StatNvme, AttachSingle, AttachMultiplier, AddToSession, Opened, Stop
<1>2. phys \in [Owners -> Seq(Objects)]
  BY DEF Types, WiringType
<1>3. CASE phys' = phys
  BY <1>3 DEF Fixed
<1>4. CASE Doing("list") /\ ListPhys(Owner)
  <2>1. PICK o : o = Owner
    OBVIOUS
  <2>2. o \in Hosts /\ o \in Owners
    BY <1>4, <2>1, HeadFacts, TaskKinds, KindFacts DEF Types, Doing, ListTask, Owner
  <2>3. phys' = phys \/ phys' = [phys EXCEPT ![o] = PhysOf(o)]
    BY <1>4, <2>1 DEF ListPhys
  <2>4. CASE phys' = [phys EXCEPT ![o] = PhysOf(o)]
    <3>1. phys'[o] = PhysOf(o) /\ \A x \in Owners : x # o => phys'[x] = phys[x]
      BY <1>2, <2>2, <2>4
    <3>2. ToSet(phys[o]) \subseteq ToSet(phys'[o])
      BY <2>2, <3>1, Empty DEF Fixed
    <3>3. Fixed'
      BY <2>2, <3>1, KindFacts DEF Fixed
    <3> QED BY <1>4, <2>1, <2>2, <3>1, <3>2, <3>3 DEF Doing
  <2> QED BY <1>3, <2>3, <2>4
<1>5. CASE \/ Doing("nvme") /\ ReadNvmeDriver(Owner, Device)
           \/ Doing("stat") /\ Owner \in Ahci /\ StatTargets(Owner, Device, Argument)
           \/ Doing("member") /\ AttachMember(Owner, Device)
  <2>1. PICK o : o = Owner
    OBVIOUS
  <2>2. o \in Owners /\ o \notin Hosts /\ status = "scan" /\ todo # <<>>
    BY <1>5, <2>1, HeadFacts, TaskKinds, KindFacts DEF Types, Doing, NvmeTask, MemberTask, Owner, Hosts
  <2>3. phys' = phys \/ \E x : phys' = [phys EXCEPT ![o] = Append(@, x)]
    BY <1>5, <2>1 DEF ReadNvmeDriver, StatTargets, AttachMember
  <2>4. ASSUME NEW x, phys' = [phys EXCEPT ![o] = Append(@, x)]
        PROVE  /\ \A y \in Owners : ToSet(phys[y]) \subseteq ToSet(phys'[y])
               /\ \A y \in Owners : y # o => phys'[y] = phys[y]
    <3>1. phys'[o] = Append(phys[o], x) /\ \A y \in Owners : y # o => phys'[y] = phys[y]
      BY <1>2, <2>2, <2>4
    <3>2. phys[o] \in Seq(Objects)
      BY <1>2, <2>2
    <3>3. ToSet(phys'[o]) = ToSet(phys[o]) \cup {x}
      BY <3>1, <3>2, AppendGrows
    <3>4. \A y \in Owners : ToSet(phys[y]) \subseteq ToSet(phys'[y])
      BY <3>1, <3>3
    <3> QED BY <3>1, <3>4
  <2>5. CASE phys' # phys
    <3>1. /\ \A y \in Owners : ToSet(phys[y]) \subseteq ToSet(phys'[y])
          /\ \A y \in Owners : y # o => phys'[y] = phys[y]
      BY <2>3, <2>4, <2>5
    <3>2. Fixed'
      BY <2>2, <3>1, KindFacts DEF Fixed
    <3> QED BY <2>1, <2>2, <3>1, <3>2
  <2> QED BY <1>3, <2>5
<1> QED BY <1>1, <1>3, <1>4, <1>5

LEMMA PortsGrow ==
  ASSUME Types, [Next]_vars
  PROVE  /\ \A o \in Owners : ToSet(ports[o]) \subseteq ToSet(ports'[o])
         /\ ports' = ports \/ (status = "scan" /\ todo # <<>> /\ Owner \in Owners /\ \A o \in Owners : o # Owner => ports'[o] = ports[o])
<1>1. \/ ports' = ports
      \/ Doing("phy") /\ ReadPhy(Owner, Device, Argument)
      \/ Doing("create") /\ CreatePort(Owner, Device, Argument)
      \/ Doing("disk") /\ AttachSingle(Owner, Device, Argument)
      \/ Doing("member") /\ AttachMember(Owner, Device)
      \/ Doing("multiplier") /\ AttachMultiplier(Owner, Device)
  BY DEF vars, wiring, Next, Change, ListPhys, ListPorts, DiscoverPort, AttachExpander, OpenEndDevice,
         ReadDir, StatNvme, StatTargets, ReadNvmeDriver, AddToSession, Opened, Stop
<1>2. ports \in [Owners -> Seq(Objects)]
  BY DEF Types, WiringType
<1>3. CASE ports' # ports
  <2>1. PICK o : o = Owner
    OBVIOUS
  <2>2. o \in Owners /\ status = "scan" /\ todo # <<>>
    BY <1>1, <1>3, <2>1, HeadFacts, TaskKinds, KindFacts DEF Types, Doing, PhyTask, DiskTask, MemberTask, MultiplierTask, Owner
  <2>3. PICK x : ports' = [ports EXCEPT ![o] = Append(@, x)]
    BY <1>1, <1>3, <2>1 DEF ReadPhy, CreatePort, AttachSingle, AttachMember, AttachMultiplier
  <2>4. ports'[o] = Append(ports[o], x) /\ (\A y \in Owners : y # o => ports'[y] = ports[y]) /\ ports[o] \in Seq(Objects)
    BY <1>2, <2>2, <2>3
  <2>5. ToSet(ports'[o]) = ToSet(ports[o]) \cup {x}
    BY <2>4, AppendGrows
  <2>6. \A y \in Owners : ToSet(ports[y]) \subseteq ToSet(ports'[y])
    BY <2>4, <2>5
  <2> QED BY <2>1, <2>2, <2>4, <2>6
<1> QED BY <1>3

LEMMA ScopesGrow ==
  ASSUME Types, [Next]_vars
  PROVE  /\ \A o \in Owners : /\ ToSet(scope[o].ends) \subseteq ToSet(scope'[o].ends)
                              /\ ToSet(scope[o].routers) \subseteq ToSet(scope'[o].routers)
         /\ \/ scope' = scope
            \/ /\ status = "scan" /\ todo # <<>> /\ Owner \in Owners
               /\ \A o \in Owners : o # Owner => scope'[o] = scope[o]
<1>1. \/ scope' = scope
      \/ Doing("attach") /\ AttachExpander(Owner, Device)
      \/ Doing("end") /\ OpenEndDevice(Owner, Device)
      \/ Doing("disk") /\ AttachSingle(Owner, Device, Argument)
      \/ Doing("member") /\ AttachMember(Owner, Device)
      \/ Doing("multiplier") /\ AttachMultiplier(Owner, Device)
  BY DEF vars, wiring, tree, Next, Change, ListPhys, ReadPhy, CreatePort, ListPorts, DiscoverPort,
         ReadDir, StatNvme, StatTargets, ReadNvmeDriver, AddToSession, Opened, Stop
<1>2. CASE scope' # scope
  <2>1. PICK o, d : o = Owner /\ d = Device
    OBVIOUS
  <2>2. o \in Owners /\ status = "scan" /\ todo # <<>>
    BY <1>1, <1>2, <2>1, HeadFacts, TaskKinds, KindFacts
       DEF Types, Doing, AttachTask, EndTask, DiskTask, MemberTask, MultiplierTask, Owner
  <2>3. (d \in Routers /\ AttachRoutingDevice(o, d)) \/ (d \in Disks /\ AttachEndDevice(o, d))
    <3>1. d \in Routers \/ ~(Doing("attach") \/ Doing("multiplier"))
      BY <2>1, HeadFacts, TaskKinds, KindFacts DEF Types, Doing, AttachTask, MultiplierTask, Device
    <3>2. d \in Disks \/ ~(Doing("disk") \/ Doing("member"))
      BY <2>1, HeadFacts, TaskKinds, KindFacts DEF Types, Doing, DiskTask, MemberTask, Device
    <3> QED BY <1>1, <1>2, <2>1, <3>1, <3>2
            DEF AttachExpander, OpenEndDevice, AttachSingle, AttachMember, AttachMultiplier, AttachEnd, tree, Stop
  <2>4. scope \in [Owners -> Scopes] /\ scope[o].routers \in Seq(Routers) /\ scope[o].ends \in Seq(Disks)
    BY <2>2, ScopeFacts DEF Types, TreeType
  <2>5. CASE d \in Routers /\ AttachRoutingDevice(o, d)
    <3>1. scope'[o].routers = Append(scope[o].routers, d) /\ scope'[o].ends = scope[o].ends
          /\ \A x \in Owners : x # o => scope'[x] = scope[x]
      BY <2>2, <2>4, <2>5 DEF AttachRoutingDevice, Scopes
    <3>2. ToSet(scope'[o].routers) = ToSet(scope[o].routers) \cup {d}
      BY <2>4, <3>1, AppendGrows
    <3>3. \A x \in Owners : ToSet(scope[x].ends) \subseteq ToSet(scope'[x].ends) /\ ToSet(scope[x].routers) \subseteq ToSet(scope'[x].routers)
      BY <3>1, <3>2
    <3> QED BY <2>1, <2>2, <3>1, <3>3
  <2>6. CASE d \in Disks /\ AttachEndDevice(o, d)
    <3>1. scope'[o].ends = Append(scope[o].ends, d) /\ scope'[o].routers = scope[o].routers
          /\ \A x \in Owners : x # o => scope'[x] = scope[x]
      BY <2>2, <2>4, <2>6 DEF AttachEndDevice, Scopes
    <3>2. ToSet(scope'[o].ends) = ToSet(scope[o].ends) \cup {d}
      BY <2>4, <3>1, AppendGrows
    <3>3. \A x \in Owners : ToSet(scope[x].ends) \subseteq ToSet(scope'[x].ends) /\ ToSet(scope[x].routers) \subseteq ToSet(scope'[x].routers)
      BY <3>1, <3>2
    <3> QED BY <2>1, <2>2, <3>1, <3>3
  <2> QED BY <2>3, <2>5, <2>6
<1> QED BY <1>2

LEMMA GrowsNext ==
  ASSUME Types, Fixed, [Next]_vars
  PROVE  Grows /\ Elsewhere /\ Fixed'
<1>1. subtractive \subseteq subtractive'
  BY DEF vars, wiring, Next, Change, ListPhys, ReadPhy, CreatePort, ListPorts, DiscoverPort, AttachExpander,
         OpenEndDevice, ReadDir, StatNvme, StatTargets, ReadNvmeDriver, AttachSingle, AttachMember, AttachMultiplier,
         AddToSession, Opened, Stop
<1> QED BY <1>1, PhysGrow, PortsGrow, ScopesGrow DEF Grows, Elsewhere

-----------------------------------------------------------------------------
(* A routing device with something to do will be attached                   *)

Lifts(t, o) == t[1] \in {"attach", "multiplier"} /\ t[3] = o
Due(o) == \E i \in 1 .. Len(todo) : Lifts(todo[i], o)
Escorted ==
  \A i \in 1 .. Len(todo) : todo[i][2] \in Routers => \E j \in i + 1 .. Len(todo) : Lifts(todo[j], todo[i][2])

Escorts(tasks) ==
  \A i \in 1 .. Len(tasks) : tasks[i][2] \in Routers =>
    tasks[i][2] = Owner \/ \E j \in i + 1 .. Len(tasks) : Lifts(tasks[j], tasks[i][2])
Escorting == \E tasks \in Seq(Task) : Push(tasks) /\ Escorts(tasks)

LEMMA EscortedPush ==
  ASSUME Types, Escorted, todo # <<>>, Escorting
  PROVE  /\ Escorted'
         /\ \A o : o = Owner /\ o \in Routers => Due(o)'
         /\ \A o : Due(o) => Due(o)' \/ Lifts(Head(todo), o)
<1>1. PICK tasks \in Seq(Task) : Push(tasks) /\ Escorts(tasks)
  BY DEF Escorting
<1> DEFINE n == Len(tasks)
<1>2. /\ n \in Nat /\ Len(todo) \in Nat /\ Len(todo') \in Nat
      /\ \A i \in 1 .. n : i \in 1 .. Len(todo') /\ todo'[i] = tasks[i]
      /\ \A i \in 2 .. Len(todo) : i + n - 1 \in 1 .. Len(todo') /\ todo'[i + n - 1] = todo[i]
      /\ \A k \in 1 .. Len(todo') : k \in 1 .. n \/ \E i \in 2 .. Len(todo) : k = i + n - 1
      /\ todo[1] = Head(todo) /\ 1 \in 1 .. Len(todo)
  BY <1>1, StackFacts DEF Types
<1> HIDE DEF n
<1>3. PICK p : p = Owner
  OBVIOUS
<1>4. ASSUME p \in Routers PROVE \E j \in 2 .. Len(todo) : Lifts(todo[j], p)
  <2>1. todo[1][2] = p
    BY <1>2, <1>3 DEF Owner
  <2>2. \E j \in 1 + 1 .. Len(todo) : Lifts(todo[j], p)
    BY <1>2, <1>4, <2>1 DEF Escorted
  <2> QED BY <2>2
<1>5. ASSUME NEW j \in 2 .. Len(todo), NEW o, Lifts(todo[j], o)
      PROVE  j + n - 1 \in n + 1 .. Len(todo') /\ Lifts(todo'[j + n - 1], o)
  BY <1>2, <1>5
<1>6. ASSUME NEW k \in 1 .. Len(todo'), todo'[k][2] \in Routers
      PROVE  \E j \in k + 1 .. Len(todo') : Lifts(todo'[j], todo'[k][2])
  <2>1. CASE k \in 1 .. n
    <3>1. todo'[k] = tasks[k]
      BY <1>2, <2>1
    <3>2. CASE tasks[k][2] = p
      <4>1. PICK j \in 2 .. Len(todo) : Lifts(todo[j], p)
        BY <1>4, <1>6, <3>1, <3>2
      <4>2. j + n - 1 \in k + 1 .. Len(todo')
        BY <1>2, <1>5, <2>1, <4>1
      <4> QED BY <1>5, <3>1, <3>2, <4>1, <4>2
    <3>3. CASE tasks[k][2] # p
      <4>1. PICK j \in k + 1 .. n : Lifts(tasks[j], tasks[k][2])
        BY <1>1, <1>3, <1>6, <2>1, <3>1, <3>3 DEF Escorts, n
      <4>2. j \in 1 .. n /\ j \in k + 1 .. Len(todo')
        BY <1>2, <2>1
      <4> QED BY <1>2, <3>1, <4>1, <4>2
    <3> QED BY <3>2, <3>3
  <2>2. CASE k \notin 1 .. n
    <3>1. PICK i \in 2 .. Len(todo) : k = i + n - 1
      BY <1>2, <2>2
    <3>2. todo'[k] = todo[i] /\ i \in 1 .. Len(todo)
      BY <1>2, <3>1
    <3>3. PICK j \in i + 1 .. Len(todo) : Lifts(todo[j], todo[i][2])
      BY <1>6, <3>2 DEF Escorted
    <3>4. j \in 2 .. Len(todo) /\ j + n - 1 \in k + 1 .. Len(todo')
      BY <1>2, <3>1, <3>3
    <3> QED BY <1>5, <3>2, <3>3, <3>4
  <2> QED BY <2>1, <2>2
<1>7. Escorted'
  BY <1>6 DEF Escorted, Lifts
<1>8. ASSUME NEW j \in 2 .. Len(todo), NEW o, Lifts(todo[j], o) PROVE Due(o)'
  <2>1. j + n - 1 \in 1 .. Len(todo') /\ Lifts(todo'[j + n - 1], o)
    BY <1>2, <1>8
  <2> QED BY <2>1 DEF Due, Lifts
<1>9. \A o : o = Owner /\ o \in Routers => Due(o)'
  BY <1>3, <1>4, <1>8
<1>10. ASSUME NEW o, Due(o) PROVE Due(o)' \/ Lifts(Head(todo), o)
  <2>1. PICK i \in 1 .. Len(todo) : Lifts(todo[i], o)
    BY <1>10 DEF Due
  <2>2. CASE i = 1
    BY <1>2, <2>1, <2>2
  <2>3. CASE i # 1
    BY <1>2, <1>8, <2>1, <2>3
  <2> QED BY <2>2, <2>3
<1> QED BY <1>7, <1>9, <1>10

LEMMA EscortingSome ==
  ASSUME NEW T \in SUBSET Task, NEW tasks \in Seq(T), Continue(tasks), \A t \in T : t[2] = Owner
  PROVE  Escorting
<1>1. tasks \in Seq(Task) /\ \A i \in 1 .. Len(tasks) : tasks[i] \in T
  BY SeqMonotonic, ElementOfSeq
<1>2. Push(tasks)
  BY DEF Continue, Push
<1> QED BY <1>1, <1>2 DEF Escorting, Escorts

LEMMA EscortingNone ==
  ASSUME Push(<<>>)
  PROVE  Escorting
<1> DEFINE none == <<>>
<1>1. none \in Seq(Task) /\ 1 .. Len(none) = {} /\ Push(none)
  OBVIOUS
<1> HIDE DEF none
<1> QED BY <1>1 DEF Escorting, Escorts

LEMMA EscortingOne ==
  ASSUME Types, Types', todo # <<>>, NEW t, Continue(<<t>>), t[2] = Owner
  PROVE  Escorting
<1> DEFINE T == {t}
           tasks == <<t>>
<1>1. t \in Task
  <2>1. todo' = <<t>> \o Tail(todo) /\ Tail(todo) \in Seq(Task) /\ todo' \in Seq(Task)
    BY DEF Continue, Types, TodoType
  <2>2. 1 \in 1 .. Len(todo') /\ todo'[1] = t
    BY <2>1
  <2> QED BY <2>1, <2>2, ElementOfSeq
<1>2. tasks \in Seq(T) /\ T \in SUBSET Task /\ \A x \in T : x[2] = Owner
  BY <1>1
<1>3. Continue(tasks)
  OBVIOUS
<1> HIDE DEF tasks, T
<1> QED BY <1>2, <1>3, EscortingSome

LEMMA EscortingList ==
  ASSUME Types, Doing("list"), ListPhys(Owner)
  PROVE  Escorting
<1>1. PICK o : o = Owner
  OBVIOUS
<1> DEFINE T == OwnPhy(o) \cup {<<"ports", o>>}
           tasks == PhysOf(o) \o << <<"ports", o>> >>
<1>2. o \in Hosts
  BY <1>1, HeadFacts, TaskKinds DEF Types, ListTask, Owner, Doing
<1>3. PhysOf(o) \in Seq(T) /\ << <<"ports", o>> >> \in Seq(T)
  BY <1>2, PhysOfFacts, SeqMonotonic, Singleton
<1>4. tasks \in Seq(T)
  BY <1>3, Joined
<1>5. T \in SUBSET Task /\ \A t \in T : t[2] = Owner
  <2>1. OwnPhy(o) \subseteq Task /\ \A t \in OwnPhy(o) : t[2] = o
    BY TaskSets DEF OwnPhy
  <2>2. <<"ports", o>> \in Task
    BY <1>2, TaskSets DEF ListTask
  <2>3. <<"ports", o>>[2] = o
    OBVIOUS
  <2> QED BY <1>1, <2>1, <2>2, <2>3
<1>6. Continue(tasks) \/ Continue(<<>>)
  BY <1>1 DEF ListPhys
<1> HIDE DEF T, tasks
<1>7. CASE Continue(tasks)
  BY <1>4, <1>5, <1>7, EscortingSome
<1>8. CASE Continue(<<>>)
  BY <1>8, EscortingNone, PushNone
<1> QED BY <1>6, <1>7, <1>8

LEMMA EscortingPorts ==
  ASSUME Types, Doing("ports"), ListPorts(Owner)
  PROVE  Escorting
<1>1. PICK o : o = Owner
  OBVIOUS
<1>2. o \in Hosts
  BY <1>1, HeadFacts, TaskKinds DEF Types, ListTask, Owner, Doing
<1>3. ports[o] \in Seq(OwnPort(o)) /\ OwnPort(o) \in SUBSET Task
  BY <1>2, TaskSets DEF Types, WiringType, OwnPort
<1>4. \A t \in OwnPort(o) : t[2] = Owner
  BY <1>1 DEF OwnPort
<1>5. Continue(ports[o])
  BY <1>1 DEF ListPorts
<1> QED BY <1>3, <1>4, <1>5, EscortingSome

LEMMA EscortingPort ==
  ASSUME Types, Types', Doing("port"), DiscoverPort(Owner, Device), Present(Device)
  PROVE  Escorting
<1>1. PICK o, d : o = Owner /\ d = Device
  OBVIOUS
<1> DEFINE list == <<"list", d>>
           attach == <<"attach", o, d>>
           end == <<"end", o, d>>
           tasks == <<list, attach>>
<1>2. Head(todo) \in PortTask /\ todo # <<>> /\ Head(todo)[1] = "port"
  BY HeadFacts, TaskKinds DEF Types, Doing
<1>3. /\ o \in Hosts /\ d \in Devices /\ d \in Far(o)
      /\ d \in Expanders => <<list, attach>> \in Seq(Task)
  BY <1>1, <1>2, PortTaskFacts DEF Owner, Device
<1>4. CASE d \in Expanders
  <2>1. tasks \in Seq(Task) /\ Len(tasks) = 2 /\ tasks[1] = list /\ tasks[2] = attach
    BY <1>3, <1>4
  <2>2. Push(tasks)
    BY <1>1, <1>4 DEF DiscoverPort, Continue, Push
  <2>3. list[2] = d /\ Lifts(attach, d) /\ attach[2] = Owner
    BY <1>1 DEF Lifts
  <2> HIDE DEF tasks, list, attach
  <2>4. \A i \in 1 .. Len(tasks) : i = 1 \/ i = 2
    BY <2>1
  <2>5. 2 \in 1 + 1 .. Len(tasks)
    BY <2>1
  <2>6. Escorts(tasks)
    BY <2>1, <2>3, <2>4, <2>5 DEF Escorts
  <2> QED BY <2>1, <2>2, <2>6 DEF Escorting
<1>5. CASE d \notin Expanders
  <2>1. Continue(<<end>>) /\ end[2] = Owner
    BY <1>1, <1>5 DEF DiscoverPort
  <2> HIDE DEF end
  <2> QED BY <1>2, <2>1, EscortingOne
<1> QED BY <1>4, <1>5

LEMMA EscortingStatNvme ==
  ASSUME Types, Doing("stat"), Owner \in Vmd, StatNvme(Owner, Argument)
  PROVE  Escorting
<1> DEFINE tasks == Each("nvme", Owner, Found(Argument))
           T == {t \in NvmeTask : t[2] = Owner}
<1>1. Head(todo) \in VmdStat
  BY HeadFacts, TaskKinds, KindFacts DEF Types, Doing, AhciStat, Owner
<1>2. Argument \in Seq(Disks) /\ \A x \in ToSet(Argument) : At[x] = Owner
  BY <1>1 DEF VmdStat, Owner, Argument
<1>3. Found(Argument) \in Seq(Disks) /\ \A x \in ToSet(Found(Argument)) : x \in Disks /\ At[x] = Owner
  <2>1. Found(Argument) \in Seq(Disks) /\ ToSet(Found(Argument)) \subseteq ToSet(Argument)
    BY <1>2, FoundFacts
  <2> QED BY <1>2, <2>1, Elements
<1>4. tasks \in Seq(T)
  <2>1. \A x \in ToSet(Found(Argument)) : <<"nvme", Owner, x>> \in T
    BY <1>3 DEF NvmeTask
  <2> HIDE DEF T
  <2> QED BY <1>3, <2>1, EachFacts
<1>5. Continue(tasks) /\ T \in SUBSET Task /\ \A t \in T : t[2] = Owner
  BY TaskSets DEF StatNvme, NvmeTask
<1> HIDE DEF tasks, T
<1> QED BY <1>4, <1>5, EscortingSome

LEMMA EscortingStatTargets ==
  ASSUME Types, Types', Doing("stat"), Owner \in Ahci, StatTargets(Owner, Device, Argument)
  PROVE  Escorting
<1>1. PICK c, h, s : c = Owner /\ h = Device /\ s = Found(Argument)
  OBVIOUS
<1> DEFINE each == Each("member", h, s)
           multiplier == <<"multiplier", c, h>>
           last == <<multiplier>>
           disk == <<"disk", c, s[1], h>>
<1>2. todo # <<>> /\ Head(todo) \in AhciStat
  BY HeadFacts, TaskKinds, KindFacts DEF Types, Doing, VmdStat, Owner
<1>3. /\ s \in Seq(Disks) /\ h \in Devices
      /\ Len(s) > 1 => each \in Seq(Task) /\ last \in Seq(Task)
  BY <1>1, <1>2, TargetTasks, KindFacts DEF Owner, Device, Argument
<1>4. Continue(<<>>) \/ Continue(<<disk>>) \/ (Len(s) > 1 /\ Continue(each \o last))
  BY <1>1 DEF StatTargets
<1>5. CASE Len(s) > 1 /\ Continue(each \o last)
  <2> DEFINE tasks == each \o last
             n == Len(each)
  <2>1. n \in Nat /\ \A i \in 1 .. n : each[i][2] = h
    <3>1. Len(each) = Len(s) /\ \A i \in 1 .. Len(s) : each[i] = <<"member", h, s[i]>>
      BY <1>3, EachEntries
    <3> HIDE DEF each
    <3> QED BY <1>3, <3>1
  <2>2. Lifts(multiplier, h) /\ multiplier[2] = Owner
    BY <1>1 DEF Lifts
  <2>3. Push(tasks)
    BY <1>5 DEF Continue, Push
  <2> HIDE DEF each, multiplier
  <2>4. last \in Seq(Task) /\ Len(last) = 1 /\ last[1] = multiplier
    BY <1>3, <1>5
  <2> HIDE DEF last
  <2>5. /\ tasks \in Seq(Task) /\ Len(tasks) = n + 1 /\ tasks[n + 1] = multiplier
        /\ \A i \in 1 .. n : tasks[i] = each[i]
    <3>1. each \in Seq(Task) /\ last \in Seq(Task)
      BY <1>3, <1>5
    <3>2. tasks \in Seq(Task)
      BY <3>1, Joined
    <3>3. /\ Len(tasks) = Len(each) + Len(last) /\ \A i \in 1 .. Len(each) : tasks[i] = each[i]
          /\ \A i \in 1 .. Len(last) : tasks[Len(each) + i] = last[i]
      BY <3>1, Concatenated
    <3> HIDE DEF tasks
    <3>4. 1 \in 1 .. Len(last)
      BY <2>4
    <3> QED BY <2>4, <3>2, <3>3, <3>4
  <2> HIDE DEF tasks, n
  <2>6. ASSUME NEW i \in 1 .. Len(tasks), tasks[i][2] # Owner PROVE \E j \in i + 1 .. Len(tasks) : Lifts(tasks[j], tasks[i][2])
    <3>1. i \in 1 .. n
      BY <2>1, <2>2, <2>5, <2>6
    <3>2. n + 1 \in i + 1 .. Len(tasks)
      BY <2>1, <2>5, <3>1
    <3> QED BY <2>1, <2>2, <2>5, <3>1, <3>2
  <2> QED BY <2>3, <2>5, <2>6 DEF Escorting, Escorts
<1>6. disk[2] = Owner
  BY <1>1
<1> HIDE DEF disk, each, multiplier, last
<1>7. CASE Continue(<<>>)
  BY <1>7, EscortingNone, PushNone
<1>8. CASE Continue(<<disk>>)
  BY <1>2, <1>6, <1>8, EscortingOne
<1> QED BY <1>4, <1>5, <1>7, <1>8

(* What a step leaves of it                                                 *)
Live == status \in {"scan", "open"}

LEMMA EscortedNext ==
  ASSUME Types, Types', Escorted, [Next]_vars
  PROVE  /\ Escorted'
         /\ Live' /\ todo # <<>> =>
              /\ \A o : o = Owner /\ o \in Routers => Due(o)'
              /\ \A o : Due(o) => Due(o)' \/ Lifts(Head(todo), o)
<1>1. CASE todo' = todo
  <2>1. Escorted' /\ \A o : Due(o) => Due(o)'
    BY <1>1 DEF Escorted, Due, Lifts
  <2>2. ASSUME todo # <<>>, NEW o, o = Owner, o \in Routers PROVE Due(o)
    <3>1. 1 \in 1 .. Len(todo) /\ todo[1][2] = o /\ Len(todo) \in Nat
      BY <2>2, HeadOfTodo DEF Owner, Types, TodoType
    <3>2. PICK j \in 1 + 1 .. Len(todo) : Lifts(todo[j], todo[1][2])
      BY <2>2, <3>1 DEF Escorted
    <3>3. j \in 1 .. Len(todo)
      BY <3>1
    <3> QED BY <3>1, <3>2, <3>3 DEF Due
  <2> QED BY <2>1, <2>2
<1>2. CASE Stops
  <2>1. todo' = <<>> /\ ~Live'
    BY <1>2 DEF Stops, Stop, Live
  <2>2. 1 .. Len(<<>>) = {}
    OBVIOUS
  <2> QED BY <2>1, <2>2 DEF Escorted
<1>3. CASE todo # <<>> /\ Escorting
  BY <1>3, EscortedPush
<1>4. \A what : Doing(what) => todo # <<>>
  BY DEF Doing
<1>5. ASSUME NEW d \in Devices, Change(d) PROVE todo' = todo
  BY <1>5 DEF Change
<1>6. ASSUME Doing("list"), ListPhys(Owner) PROVE Escorting
  BY <1>6, EscortingList
<1>7. ASSUME Doing("phy"), ReadPhy(Owner, Device, Argument) PROVE Escorting
  <2> DEFINE t == <<"create", Owner, Device, Argument>>
  <2>1. t[2] = Owner
    OBVIOUS
  <2>2. Continue(<<>>) \/ Continue(<<t>>)
    BY <1>7 DEF ReadPhy
  <2> HIDE DEF t
  <2> QED BY <1>4, <1>7, <2>1, <2>2, EscortingNone, EscortingOne, PushNone
<1>8. ASSUME Doing("create"), CreatePort(Owner, Device, Argument) PROVE Escorting
  BY <1>8, EscortingNone, PushNone DEF CreatePort
<1>9. ASSUME Doing("ports"), ListPorts(Owner) PROVE Escorting
  BY <1>9, EscortingPorts
<1>10. ASSUME Doing("port"), DiscoverPort(Owner, Device) PROVE Escorting \/ Stops
  BY <1>10, EscortingPort DEF DiscoverPort, Stops
<1>11. ASSUME Doing("attach"), AttachExpander(Owner, Device) PROVE Escorting \/ Stops
  BY <1>11, EscortingNone, PushNone DEF AttachExpander, Stops
<1>12. ASSUME Doing("end"), OpenEndDevice(Owner, Device) PROVE Escorting
  BY <1>12, EscortingNone, PushNone DEF OpenEndDevice
<1>13. ASSUME Doing("readdir"), ReadDir(Owner, Device) PROVE Escorting
  <2> DEFINE t == <<"stat", Owner, Device, IF Owner \in Vmd THEN Among(Plugged(Owner), There) ELSE Targets(Device)>>
  <2>1. t[2] = Owner
    OBVIOUS
  <2>2. Continue(<<t>>)
    BY <1>13 DEF ReadDir
  <2> HIDE DEF t
  <2> QED BY <1>4, <1>13, <2>1, <2>2, EscortingOne
<1>14. ASSUME Doing("stat"), Owner \in Vmd, StatNvme(Owner, Argument) PROVE Escorting
  BY <1>14, EscortingStatNvme
<1>15. ASSUME Doing("stat"), Owner \in Ahci, StatTargets(Owner, Device, Argument) PROVE Escorting
  BY <1>15, EscortingStatTargets
<1>16. ASSUME Doing("nvme"), ReadNvmeDriver(Owner, Device) PROVE Escorting
  <2> DEFINE t == <<"disk", Owner, Device, Device>>
  <2>1. t[2] = Owner
    OBVIOUS
  <2>2. Continue(<<>>) \/ Continue(<<t>>)
    BY <1>16 DEF ReadNvmeDriver
  <2> HIDE DEF t
  <2> QED BY <1>4, <1>16, <2>1, <2>2, EscortingNone, EscortingOne, PushNone
<1>17. ASSUME Doing("disk"), AttachSingle(Owner, Device, Argument) PROVE Escorting
  BY <1>17, EscortingNone, PushNone DEF AttachSingle
<1>18. ASSUME Doing("member"), AttachMember(Owner, Device) PROVE Escorting
  BY <1>18, EscortingNone, PushNone DEF AttachMember
<1>19. ASSUME Doing("multiplier"), AttachMultiplier(Owner, Device) PROVE Escorting
  BY <1>19, EscortingNone, PushNone DEF AttachMultiplier
<1>20. ASSUME Doing("add"), AddToSession(Owner) PROVE Escorting
  BY <1>20, AddsPush, EscortingNone DEF Adds
<1>21. ASSUME Opened PROVE todo' = todo
  BY <1>21 DEF Opened
<1>22. UNCHANGED vars => todo' = todo
  BY DEF vars
<1> QED BY <1>1, <1>2, <1>3, <1>4, <1>5, <1>6, <1>7, <1>8, <1>9, <1>10, <1>11, <1>12, <1>13, <1>14, <1>15, <1>16,
           <1>17, <1>18, <1>19, <1>20, <1>21, <1>22 DEF Next

LEMMA EscortedInit == Init => Escorted
<1> SUFFICES ASSUME Init PROVE Escorted
  OBVIOUS
<1>1. todo \in Seq(StartTask)
  BY TodoInit
<1>2. \A t \in StartTask : t[2] \in Controllers
  <2> SUFFICES ASSUME NEW t \in StartTask PROVE t[2] \in Controllers
    OBVIOUS
  <2>1. t \in Task /\ (t[1] = "list" => t[2] \in Isci) /\ t[1] \in {"list", "readdir", "add"}
    BY DEF StartTask
  <2>2. CASE t[1] = "readdir"
    BY <2>1, <2>2, TaskKinds, KindFacts DEF VmdTask, AhciTask
  <2>3. CASE t[1] = "add"
    BY <2>1, <2>3, TaskKinds DEF AddTask
  <2> QED BY <2>1, <2>2, <2>3, KindFacts
<1>3. \A i \in 1 .. Len(todo) : todo[i] \in StartTask
  BY <1>1, ElementOfSeq
<1> QED BY <1>2, <1>3, KindFacts DEF Escorted

-----------------------------------------------------------------------------
(* What a routing device holds is not lost: it is attached, or will be.     *)

Touched(o) == ToSet(phys[o]) \cup ToSet(ports[o]) \cup ToSet(scope[o].ends) \cup ToSet(scope[o].routers) # {}
Hung == Live => \A o \in Routers : Touched(o) => Attached(o) \/ Due(o)

LEMMA LiveBefore ==
  ASSUME [Next]_vars, Live'
  PROVE  Live
BY DEF Live, vars, Next, Change, ListPhys, ReadPhy, CreatePort, ListPorts, DiscoverPort, AttachExpander, OpenEndDevice,
       ReadDir, StatNvme, StatTargets, ReadNvmeDriver, AttachSingle, AttachMember, AttachMultiplier, AddToSession,
       Opened, Continue, Stop, cabling

LEMMA AttachedStays ==
  ASSUME Types, [Next]_vars, NEW r, Attached(r)
  PROVE  Attached(r)'
BY ScopesGrow DEF Attached

(* One that is about to be attached is attached                             *)
LEMMA Lifted ==
  ASSUME Types, [Next]_vars, todo # <<>>, NEW r, Lifts(Head(todo), r), Live'
  PROVE  Due(r)' \/ (r \in ToSet(scope'[Owner].routers) /\ Owner \in Owners)
<1>1. CASE todo' = todo
  BY <1>1, HeadOfTodo DEF Due, Lifts
<1>2. ASSUME Doing("attach"), AttachExpander(Owner, Device) PROVE r \in ToSet(scope'[Owner].routers) /\ Owner \in Owners
  <2>1. PICK o : o = Owner
    OBVIOUS
  <2>2. o \in Hosts /\ Device \in Expanders /\ Device = r
    BY <1>2, <2>1, HeadFacts, TaskKinds DEF Types, AttachTask, Owner, Device, Doing, Lifts
  <2>3. ~Stop("crashed")
    BY DEF Stop, Live
  <2>4. AttachRoutingDevice(o, r) /\ o \in Owners /\ r \in Routers
    BY <1>2, <2>1, <2>2, <2>3, KindFacts DEF AttachExpander
  <2>5. scope'[o].routers = Append(scope[o].routers, r) /\ scope[o].routers \in Seq(Routers)
    BY <2>4, RouterAdded, ScopeFacts DEF Types
  <2> QED BY <2>1, <2>4, <2>5, Appended
<1>3. ASSUME Doing("multiplier"), AttachMultiplier(Owner, Device) PROVE r \in ToSet(scope'[Owner].routers) /\ Owner \in Owners
  <2>1. PICK o : o = Owner
    OBVIOUS
  <2>2. o \in Ahci /\ Device \in Multipliers /\ Device = r
    BY <1>3, <2>1, HeadFacts, TaskKinds DEF Types, MultiplierTask, Owner, Device, Doing, Lifts
  <2>4. AttachRoutingDevice(o, r) /\ o \in Owners /\ r \in Routers
    BY <1>3, <2>1, <2>2, KindFacts DEF AttachMultiplier
  <2>5. scope'[o].routers = Append(scope[o].routers, r) /\ scope[o].routers \in Seq(Routers)
    BY <2>4, RouterAdded, ScopeFacts DEF Types
  <2> QED BY <2>1, <2>4, <2>5, Appended
<1>4. ASSUME NEW what, Doing(what) PROVE what \in {"attach", "multiplier"}
  BY <1>4 DEF Doing, Lifts
<1>5. ASSUME NEW d \in Devices, Change(d) PROVE todo' = todo
  BY <1>5 DEF Change
<1>6. UNCHANGED vars \/ Opened => todo' = todo
  BY DEF vars, Opened
<1> QED BY <1>1, <1>2, <1>3, <1>4, <1>5, <1>6 DEF Next

LEMMA HungNext ==
  ASSUME Types, Types', Fixed, Escorted, Hung, [Next]_vars
  PROVE  Hung'
<1> SUFFICES ASSUME Live', NEW r \in Routers, Touched(r)' PROVE Attached(r)' \/ Due(r)'
  BY DEF Hung
<1>1. PICK o : o = Owner
  OBVIOUS
<1>2. Live
  BY LiveBefore
<1>3. r \in Owners
  BY KindFacts
<1>4. CASE todo # <<>> /\ r = o
  BY <1>1, <1>4, EscortedNext
<1>5. CASE Touched(r)
  <2>1. CASE Attached(r)
    BY <2>1, AttachedStays
  <2>2. CASE Due(r)
    <3>1. todo # <<>>
      <4>1. 1 .. Len(<<>>) = {}
        OBVIOUS
      <4> QED BY <2>2, <4>1 DEF Due
    <3>2. CASE Due(r)'
      BY <3>2
    <3>3. CASE Lifts(Head(todo), r)
      <4>1. Due(r)' \/ (r \in ToSet(scope'[o].routers) /\ o \in Owners)
        BY <1>1, <3>1, <3>3, Lifted
      <4> QED BY <4>1 DEF Attached
    <3> QED BY <2>2, <3>1, <3>2, <3>3, EscortedNext
  <2> QED BY <1>2, <1>5, <2>1, <2>2 DEF Hung
<1>6. CASE ~Touched(r) /\ ~(todo # <<>> /\ r = o)
  <2>1. phys'[r] = phys[r] /\ ports'[r] = ports[r] /\ scope'[r].ends = scope[r].ends /\ scope'[r].routers = scope[r].routers
    BY <1>1, <1>3, <1>6, PhysGrow, PortsGrow, ScopesGrow
  <2> QED BY <1>6, <2>1 DEF Touched
<1> QED BY <1>4, <1>5, <1>6

LEMMA HungInit == Init => Fixed /\ Hung
<1> SUFFICES ASSUME Init PROVE Fixed /\ Hung
  OBVIOUS
<1>1. \A o \in Owners : phys[o] = <<>> /\ ports[o] = <<>> /\ scope[o].ends = <<>> /\ scope[o].routers = <<>>
  BY DEF Init
<1>2. Hosts \subseteq Owners /\ Routers \subseteq Owners /\ ToSet(<<>>) = {}
  BY KindFacts, Empty
<1> QED BY <1>1, <1>2 DEF Fixed, Hung, Touched

-----------------------------------------------------------------------------
(* What is registered with a controller                                     *)

Ends(o) == UNION {ToSet(EndListed(d)) : d \in ToSet(scope[o].ends)}
Lists(o) ==
  {o} \cup Ends(o) \cup ToSet(phys[o]) \cup ToSet(ports[o])
    \cup (IF o \in Controllers THEN ToSet(enclosures[o]) ELSE {Port(o, o)})
    \cup (IF o \in Multipliers THEN {Phy(o, o, 1)} ELSE {})

LEMMA EndsAre ==
  ASSUME NEW s \in Seq(Disks)
  PROVE  /\ Concat(EndListed, s) \in Seq(Objects)
         /\ ToSet(Concat(EndListed, s)) = UNION {ToSet(EndListed(d)) : d \in ToSet(s)}
<1> DEFINE each == [i \in DOMAIN s |-> EndListed(s[i])]
<1>1. DOMAIN s = 1 .. Len(s) /\ Len(s) \in Nat /\ \A i \in 1 .. Len(s) : s[i] \in Disks
  OBVIOUS
<1>2. /\ each \in Seq(Seq(Objects)) /\ Len(each) = Len(s)
      /\ \A i \in 1 .. Len(s) : each[i] = EndListed(s[i])
  BY <1>1, EndPiece
<1>3. Concat(EndListed, s) = FlattenSeq(each)
  BY DEF Concat
<1> HIDE DEF each
<1>4. FlattenSeq(each) \in Seq(Objects) /\ ToSet(FlattenSeq(each)) = UNION {ToSet(each[i]) : i \in 1 .. Len(s)}
  BY <1>2, FlattenFacts
<1>5. \A x : x \in ToSet(s) <=> \E i \in 1 .. Len(s) : s[i] = x
  BY Elements
<1>6. UNION {ToSet(each[i]) : i \in 1 .. Len(s)} = UNION {ToSet(EndListed(d)) : d \in ToSet(s)}
  <2>1. ASSUME NEW i \in 1 .. Len(s) PROVE ToSet(each[i]) = ToSet(EndListed(s[i])) /\ s[i] \in ToSet(s)
    BY <1>2, <1>5
  <2>2. ASSUME NEW d \in ToSet(s) PROVE \E i \in 1 .. Len(s) : ToSet(each[i]) = ToSet(EndListed(d))
    <3>1. PICK i \in 1 .. Len(s) : s[i] = d
      BY <1>5
    <3> QED BY <2>1, <3>1
  <2> QED BY <2>1, <2>2
<1> QED BY <1>3, <1>4, <1>6

LEMMA RoutersAre ==
  ASSUME Types, Up, NEW s \in Seq(Routers)
  PROVE  /\ Concat(RouterListed, s) \in Seq(Objects)
         /\ \A r \in ToSet(s) : ToSet(RouterListed(r)) \subseteq ToSet(Concat(RouterListed, s))
<1> DEFINE each == [i \in DOMAIN s |-> RouterListed(s[i])]
<1>1. DOMAIN s = 1 .. Len(s) /\ Len(s) \in Nat /\ \A i \in 1 .. Len(s) : s[i] \in Routers
  OBVIOUS
<1>2. /\ each \in Seq(Seq(Objects)) /\ Len(each) = Len(s)
      /\ \A i \in 1 .. Len(s) : each[i] = RouterListed(s[i])
  <2>1. \A i \in 1 .. Len(s) : RouterListed(s[i]) \in Seq(Objects)
    BY <1>1, RouterIsListed
  <2> QED BY <1>1, <2>1
<1>3. Concat(RouterListed, s) = FlattenSeq(each)
  BY DEF Concat
<1> HIDE DEF each
<1>4. FlattenSeq(each) \in Seq(Objects) /\ ToSet(FlattenSeq(each)) = UNION {ToSet(each[i]) : i \in 1 .. Len(s)}
  BY <1>2, FlattenFacts
<1>5. ASSUME NEW r \in ToSet(s) PROVE ToSet(RouterListed(r)) \subseteq ToSet(FlattenSeq(each))
  <2>1. PICK i \in 1 .. Len(s) : s[i] = r
    BY Elements
  <2>2. each[i] = RouterListed(r)
    BY <1>2, <2>1
  <2> QED BY <1>4, <2>2
<1> QED BY <1>3, <1>4, <1>5

(* A routing device registers its lists, and those of all below it.         *)
LEMMA RouterHas ==
  ASSUME Types, Up, NEW r \in Routers
  PROVE  /\ Lists(r) \subseteq ToSet(RouterListed(r))
         /\ \A x \in ToSet(scope[r].routers) : ToSet(RouterListed(x)) \subseteq ToSet(RouterListed(r))
<1> DEFINE first == IF r \in Multipliers THEN <<Phy(r, r, 1)>> ELSE <<>>
           one == <<r>>
           ends == Concat(EndListed, scope[r].ends)
           below == Concat(RouterListed, scope[r].routers)
           last == <<Port(r, r)>>
           s1 == first \o one
           s2 == s1 \o ends
           s3 == s2 \o phys[r]
           own == s3 \o ports[r]
<1>1. r \in Owners /\ r \in Devices /\ r \notin Controllers /\ r \in Objects
  BY KindFacts DEF Objects
<1>2. Phy(r, r, 1) \in Objects /\ Port(r, r) \in Objects
  BY <1>1, LanesAssumption, PhyObject, PortObject
<1>3. /\ first \in Seq(Objects) /\ one \in Seq(Objects) /\ last \in Seq(Objects)
      /\ r \in Multipliers => Phy(r, r, 1) \in ToSet(first)
      /\ r \in ToSet(one) /\ Port(r, r) \in ToSet(last)
  BY <1>1, <1>2, Singleton, Empty
<1>4. ends \in Seq(Objects) /\ ToSet(ends) = Ends(r)
  BY <1>1, ScopeFacts, EndsAre DEF Types, Ends
<1>5. below \in Seq(Objects) /\ \A x \in ToSet(scope[r].routers) : ToSet(RouterListed(x)) \subseteq ToSet(below)
  BY <1>1, ScopeFacts, RoutersAre DEF Types
<1>6. phys[r] \in Seq(Objects) /\ ports[r] \in Seq(Objects)
  BY <1>1 DEF Types, WiringType
<1>7. RouterListed(r) = own \o below \o last
  BY RouterIsListed DEF RouterOwn, Concat
<1> HIDE DEF first, one, ends, below, last
<1>8. s1 \in Seq(Objects) /\ ToSet(s1) = ToSet(first) \cup ToSet(one)
  BY <1>3, Joined
<1> HIDE DEF s1
<1>9. s2 \in Seq(Objects) /\ ToSet(s2) = ToSet(s1) \cup ToSet(ends)
  BY <1>4, <1>8, Joined
<1> HIDE DEF s2
<1>10. s3 \in Seq(Objects) /\ ToSet(s3) = ToSet(s2) \cup ToSet(phys[r])
  BY <1>6, <1>9, Joined
<1> HIDE DEF s3
<1>11. own \in Seq(Objects) /\ ToSet(own) = ToSet(s3) \cup ToSet(ports[r])
  BY <1>6, <1>10, Joined
<1> HIDE DEF own
<1>12. ToSet(RouterListed(r)) = ToSet(own) \cup ToSet(below) \cup ToSet(last)
  BY <1>3, <1>5, <1>7, <1>11, ThreeJoined
<1>13. Lists(r) \subseteq ToSet(RouterListed(r))
  BY <1>1, <1>3, <1>4, <1>8, <1>9, <1>10, <1>11, <1>12 DEF Lists
<1> QED BY <1>5, <1>12, <1>13

LEMMA ControllerHas ==
  ASSUME Types, Up, SessionType, NEW c \in Controllers, AddToSession(c)
  PROVE  /\ ToSet(session) \subseteq ToSet(session') /\ Lists(c) \subseteq ToSet(session')
         /\ \A r \in ToSet(scope[c].routers) : ToSet(RouterListed(r)) \subseteq ToSet(session')
<1> DEFINE one == <<c>>
           ends == Concat(EndListed, scope[c].ends)
           routers == Concat(RouterListed, scope[c].routers)
           s1 == session \o one
           s2 == s1 \o ends
           s3 == s2 \o routers
           s4 == s3 \o ports[c]
           s5 == s4 \o phys[c]
<1>1. c \in Objects /\ c \in Owners /\ c \notin Multipliers
  BY KindFacts DEF Objects
<1>2. session \in Seq(Objects) /\ one \in Seq(Objects) /\ ToSet(one) = {c}
  BY <1>1, Singleton DEF SessionType
<1>3. /\ ends \in Seq(Objects) /\ ToSet(ends) = Ends(c)
      /\ routers \in Seq(Objects)
      /\ \A r \in ToSet(scope[c].routers) : ToSet(RouterListed(r)) \subseteq ToSet(routers)
  BY <1>1, ScopeFacts, EndsAre, RoutersAre DEF Types, Ends
<1>4. ports[c] \in Seq(Objects) /\ phys[c] \in Seq(Objects)
  BY <1>1 DEF Types, WiringType
<1>5. enclosures[c] \in Seq(Objects)
  <2>1. Ses \subseteq Objects
    BY KindFacts DEF Objects
  <2> QED BY <2>1, SeqMonotonic DEF Types, BoxesType
<1>6. session' = s5 \o enclosures[c]
  BY DEF AddToSession
<1> HIDE DEF one, ends, routers
<1>7. s1 \in Seq(Objects) /\ ToSet(s1) = ToSet(session) \cup ToSet(one)
  BY <1>2, Joined
<1> HIDE DEF s1
<1>8. s2 \in Seq(Objects) /\ ToSet(s2) = ToSet(s1) \cup ToSet(ends)
  BY <1>3, <1>7, Joined
<1> HIDE DEF s2
<1>9. s3 \in Seq(Objects) /\ ToSet(s3) = ToSet(s2) \cup ToSet(routers)
  BY <1>3, <1>8, Joined
<1> HIDE DEF s3
<1>10. s4 \in Seq(Objects) /\ ToSet(s4) = ToSet(s3) \cup ToSet(ports[c])
  BY <1>4, <1>9, Joined
<1> HIDE DEF s4
<1>11. s5 \in Seq(Objects) /\ ToSet(s5) = ToSet(s4) \cup ToSet(phys[c])
  BY <1>4, <1>10, Joined
<1> HIDE DEF s5
<1>12. ToSet(session') = ToSet(s5) \cup ToSet(enclosures[c])
  BY <1>5, <1>6, <1>11, Joined
<1>13. Lists(c) \subseteq ToSet(session')
  BY <1>1, <1>2, <1>3, <1>7, <1>8, <1>9, <1>10, <1>11, <1>12 DEF Lists
<1> QED BY <1>3, <1>7, <1>8, <1>9, <1>10, <1>11, <1>12, <1>13

(* When a controller is added, nothing is left to do for what is below it.  *)
LEMMA NoneLeft ==
  ASSUME Types, Staged, Apart, todo # <<>>, NEW c \in Controllers, Head(todo) = Add(c)
  PROVE  /\ \A i \in 1 .. Len(todo) : Of(c, todo[i]) => i = 1
         /\ \A o \in Under(c) : ~Due(o)
<1>1. 1 \in 1 .. Len(todo) /\ todo[1] = Add(c) /\ Len(todo) \in Nat
  BY HeadOfTodo DEF Types, TodoType
<1>2. Add(c)[1] = "add" /\ Add(c)[2] = c
  BY DEF Add
<1>3. Claims(Add(c)) = {c} /\ Shade(Add(c)) = {c} /\ c \in Wants(Add(c))
  BY <1>2, ClaimsAre DEF Wants
<1>4. ASSUME NEW i \in 1 .. Len(todo), Of(c, todo[i]) PROVE i = 1
  <2>1. PICK j \in i .. Len(todo) : todo[j] = Add(c)
    BY <1>4 DEF Staged, Followed
  <2> SUFFICES ASSUME i # 1 PROVE FALSE
    OBVIOUS
  <2>2. j \in 1 .. Len(todo) /\ 1 \in 1 .. j - 1
    BY <1>1, <2>1
  <2>3. Wants(todo[j]) \cap Shade(todo[1]) = {}
    BY <2>2 DEF Apart, Separate
  <2> QED BY <1>1, <1>3, <2>1, <2>3
<1>5. ASSUME NEW o \in Under(c), Due(o) PROVE FALSE
  <2>1. PICK i \in 1 .. Len(todo) : Lifts(todo[i], o)
    BY <1>5 DEF Due
  <2>2. i # 1
    BY <1>1, <1>2, <2>1 DEF Lifts
  <2>3. todo[i] \in Task
    BY ElementOfSeq DEF Types, TodoType
  <2>4. o = todo[i][2] \/ At[o] = todo[i][2]
    BY <2>1, <2>3, TaskKinds DEF Lifts, AttachTask, MultiplierTask, Far
  <2>5. o \in Devices /\ (At[o] = c \/ At[o] \in Under(c))
    BY UnderRule
  <2>6. Of(c, todo[i])
    BY <2>4, <2>5 DEF Of
  <2> QED BY <1>4, <2>2, <2>6
<1> QED BY <1>4, <1>5

-----------------------------------------------------------------------------
(* Once a controller is added, all that is below it is in the session.      *)

Complete ==
  Live => \A c \in Controllers : Done(c) =>
    /\ Lists(c) \subseteq Registered
    /\ \A o \in Under(c) : Attached(o) => Lists(o) \subseteq Registered

LEMMA AttachedIs ==
  ASSUME Types, Up, NEW r
  PROVE  /\ Attached(r) => r \in Routers /\ r \in Devices /\ At[r] \in Owners /\ r \in ToSet(scope[At[r]].routers)
         /\ \A o \in Owners : r \in ToSet(scope[o].routers) => At[r] = o
<1>1. \A o \in Owners : r \in ToSet(scope[o].routers) => r \in Routers /\ r \in Devices /\ At[r] = o
  BY AllUnder
<1> QED BY <1>1 DEF Attached

(* Nothing changes below a controller that has been added.                  *)
LEMMA DoneStill ==
  ASSUME Types, Types', Seen, Up, Up', Fixed, Staged, [Next]_vars, NEW c \in Controllers, Done(c)
  PROVE  /\ \A o \in Realm(c) \cap Owners : Lists(o)' = Lists(o)
         /\ \A o \in Under(c) : Attached(o)' => Attached(o)
<1>1. PICK p : p = Owner
  OBVIOUS
<1>2. ASSUME todo # <<>> PROVE p \notin Realm(c)
  <2>1. 1 \in 1 .. Len(todo) /\ todo[1] = Head(todo)
    BY <1>2, HeadOfTodo
  <2>2. \A o \in Under(c) : p # o
    BY <1>1, <1>2, DoneElsewhere
  <2>3. ASSUME p = c PROVE FALSE
    <3>1. Of(c, todo[1])
      BY <1>1, <2>1, <2>3 DEF Of, Owner
    <3>2. PICK j \in 1 .. Len(todo) : todo[j] = Add(c)
      BY <2>1, <3>1 DEF Staged, Followed
    <3> QED BY <3>2 DEF Done
  <2> QED BY <2>2, <2>3 DEF Realm
<1>3. ASSUME NEW o \in Realm(c) \cap Owners
      PROVE  phys'[o] = phys[o] /\ ports'[o] = ports[o] /\ scope'[o].ends = scope[o].ends /\ scope'[o].routers = scope[o].routers
  <2>1. phys' = phys \/ (todo # <<>> /\ \A x \in Owners : x # p => phys'[x] = phys[x])
    BY <1>1, PhysGrow
  <2>2. ports' = ports \/ (todo # <<>> /\ \A x \in Owners : x # p => ports'[x] = ports[x])
    BY <1>1, PortsGrow
  <2>3. scope' = scope \/ (todo # <<>> /\ \A x \in Owners : x # p => scope'[x] = scope[x])
    BY <1>1, ScopesGrow
  <2> QED BY <1>2, <2>1, <2>2, <2>3
<1>4. enclosures'[c] = enclosures[c]
  <2>1. CASE Calm \/ Stops
    BY <2>1 DEF Calm, Stops, Stop, boxes
  <2>2. CASE Adds
    BY <2>2 DEF Adds, AddToSession
  <2>3. CASE Works
    <3>1. todo # <<>> /\ (enclosures' = enclosures \/ Takes)
      BY <2>3 DEF Works, Moved, BoxesKept
    <3>2. CASE Takes
      <4>1. p \in Expanders /\ (enclosures' = enclosures
                                  \/ \E s : enclosures' = [enclosures EXCEPT ![Root(p)] = Append(@, s)])
        BY <1>1, <3>2 DEF Takes, TakeEnclosure
      <4>2. ASSUME Root(p) = c PROVE FALSE
        <5>1. p \in Routers /\ Root(p) \in Controllers
          BY <4>1, <4>2, KindFacts
        <5>2. p \in Under(c)
          BY <4>2, <5>1, RootUnder
        <5> QED BY <1>2, <3>1, <5>2 DEF Realm
      <4>3. enclosures \in [Controllers -> Seq(Ses)]
        BY DEF Types, BoxesType
      <4> QED BY <4>1, <4>2, <4>3
    <3> QED BY <3>1, <3>2
  <2> QED BY <2>1, <2>2, <2>3, StepKinds
<1>5. ASSUME NEW o \in Realm(c) \cap Owners PROVE Lists(o)' = Lists(o)
  <2>1. phys'[o] = phys[o] /\ ports'[o] = ports[o] /\ scope'[o].ends = scope[o].ends
    BY <1>3
  <2>2. o \in Controllers => o = c
    BY UnderRule, KindFacts DEF Realm
  <2> QED BY <1>4, <2>1, <2>2 DEF Lists, Ends, EndListed, Phy, Port
<1>6. ASSUME NEW o \in Under(c), Attached(o)' PROVE Attached(o)
  <2>1. PICK q \in Owners : o \in ToSet(scope'[q].routers)
    BY <1>6 DEF Attached
  <2>2. At[o] = q
    BY <2>1 DEF Up, RoutersUp
  <2>3. o \in Devices /\ (At[o] = c \/ At[o] \in Under(c))
    BY UnderRule
  <2>4. scope'[q].routers = scope[q].routers
    BY <1>3, <2>1, <2>2, <2>3 DEF Realm
  <2> QED BY <2>1, <2>4 DEF Attached
<1> QED BY <1>5, <1>6

LEMMA CompleteNext ==
  ASSUME Types, Types', Seen, Up, Up', SessionType, EncInv, Apart, Fixed, Hung, Complete, [Next]_vars
  PROVE  Complete'
<1> SUFFICES ASSUME Live', NEW c \in Controllers, Done(c)'
             PROVE  /\ Lists(c)' \subseteq Registered'
                    /\ \A o \in Under(c) : Attached(o)' => Lists(o)' \subseteq Registered'
  BY DEF Complete, Under, Leads
<1>1. Live
  BY LiveBefore
<1>2. Staged
  BY DEF EncInv
<1>3. ToSet(session) \subseteq ToSet(session')
  <2>1. CASE Calm \/ Works
    BY <2>1 DEF Calm, Works, Moved
  <2>2. CASE Stops
    BY <2>2 DEF Stops, Stop, Live
  <2>3. CASE Adds
    <3>1. Owner \in Controllers
      BY <2>3, AddsPush
    <3> QED BY <2>3, <3>1, ControllerHas DEF Adds
  <2> QED BY <2>1, <2>2, <2>3, StepKinds
<1>4. CASE Done(c)
  <2>1. /\ \A o \in Realm(c) \cap Owners : Lists(o)' = Lists(o)
        /\ \A o \in Under(c) : Attached(o)' => Attached(o)
    BY <1>2, <1>4, DoneStill
  <2>2. Lists(c) \subseteq ToSet(session) /\ \A o \in Under(c) : Attached(o) => Lists(o) \subseteq ToSet(session)
    BY <1>1, <1>4 DEF Complete, Registered
  <2>3. c \in Realm(c) \cap Owners /\ \A o \in Under(c) : Attached(o) => o \in Realm(c) \cap Owners
    BY AttachedIs, KindFacts DEF Realm
  <2> QED BY <1>3, <2>1, <2>2, <2>3 DEF Registered
<1>5. CASE ~Done(c)
  <2>1. ~Calm
    BY <1>5 DEF Calm, Done, Add
  <2>2. ~Stops
    BY DEF Stops, Stop, Live
  <2>3. ~Works
    <3> SUFFICES ASSUME Works PROVE FALSE
      OBVIOUS
    <3>1. PICK tasks \in Seq(Task) : Push(tasks)
      BY DEF Works, Moved, Pushes
    <3>2. todo # <<>> /\ Head(todo)[1] # "add"
      BY DEF Works
    <3>3. Head(todo) = Add(c)
      BY <1>5, <3>1, <3>2, DonePush
    <3> QED BY <3>2, <3>3 DEF Add
  <2>4. Adds
    BY <2>1, <2>2, <2>3, StepKinds
  <2>5. todo # <<>> /\ Push(<<>>)
    BY <2>4, AddsPush
  <2>6. Head(todo) = Add(c)
    <3>1. <<>> \in Seq(Task)
      OBVIOUS
    <3> QED BY <1>5, <2>5, <3>1, DonePush
  <2>7. Owner = c
    BY <2>6 DEF Owner, Add
  <2>8. /\ Lists(c) \subseteq ToSet(session')
        /\ \A r \in ToSet(scope[c].routers) : ToSet(RouterListed(r)) \subseteq ToSet(session')
    BY <2>4, <2>7, ControllerHas DEF Adds
  <2>9. UNCHANGED <<phys, ports, scope, enclosures>>
    BY <2>4 DEF Adds, AddToSession, wiring, tree
  <2>10. (\A o : Lists(o)' = Lists(o)) /\ \A o : Attached(o)' => Attached(o)
    BY <2>9 DEF Lists, Ends, EndListed, Phy, Port, Attached
  <2>11. \A o \in Under(c) : ~Due(o)
    BY <1>2, <2>5, <2>6, NoneLeft
  <2> DEFINE B == {o \in Under(c) : Attached(o) /\ ~(ToSet(RouterListed(o)) \subseteq ToSet(session'))}
  <2>12. B = {}
    <3> SUFFICES ASSUME B # {} PROVE FALSE
      OBVIOUS
    <3>1. B \in SUBSET Devices
      BY UnderRule
    <3>2. PICK o \in B : At[o] \notin B
      BY <3>1, TreeAssumption
    <3>3. PICK q : q = At[o]
      OBVIOUS
    <3>4. /\ o \in Under(c) /\ Attached(o) /\ ~(ToSet(RouterListed(o)) \subseteq ToSet(session'))
          /\ o \in Devices /\ q \in Owners /\ o \in ToSet(scope[q].routers)
      BY <3>2, <3>3, AttachedIs
    <3>5. q = c \/ q \in Under(c)
      BY <3>3, <3>4, UnderRule
    <3>6. CASE q = c
      BY <2>8, <3>4, <3>6
    <3>7. CASE q \in Under(c)
      <4>1. q \in Routers
        BY <3>4, <3>7, UnderRule, KindFacts
      <4>2. Touched(q)
        BY <3>4 DEF Touched
      <4>3. Attached(q)
        BY <1>1, <2>11, <3>7, <4>1, <4>2 DEF Hung
      <4>4. ToSet(RouterListed(q)) \subseteq ToSet(session')
        BY <3>2, <3>3, <3>7, <4>3
      <4>5. ToSet(RouterListed(o)) \subseteq ToSet(RouterListed(q))
        BY <3>4, <4>1, RouterHas
      <4> QED BY <3>4, <4>4, <4>5
    <3> QED BY <3>5, <3>6, <3>7
  <2>13. ASSUME NEW o \in Under(c), Attached(o) PROVE Lists(o) \subseteq ToSet(session')
    <3>1. o \in Routers
      BY <2>13, AttachedIs
    <3>2. Lists(o) \subseteq ToSet(RouterListed(o))
      BY <3>1, RouterHas
    <3>3. ToSet(RouterListed(o)) \subseteq ToSet(session')
      BY <2>12, <2>13
    <3> QED BY <3>2, <3>3
  <2> HIDE DEF B
  <2> QED BY <2>8, <2>10, <2>13 DEF Registered
<1> QED BY <1>4, <1>5

(* The tasks of each controller are there at the start.                     *)
LEMMA TasksAtFirst ==
  ASSUME Init, NEW c \in Controllers
  PROVE  ToSet(Tasks(c)) \subseteq ToSet(todo) /\ todo \in Seq(Task) /\ Tasks(c) \in Seq(Task)
<1> DEFINE cs == AllOf(Ahci) \o AllOf(Isci) \o AllOf(Vmd)
           each == [i \in DOMAIN cs |-> Tasks(cs[i])]
           N == Len(cs)
<1>1. cs \in Seq(Controllers) /\ ToSet(cs) = Controllers
  BY AllOfFacts, ThreeJoined, KindFacts
<1>2. todo = FlattenSeq(each)
  BY DEF Init, Concat
<1> HIDE DEF cs
<1>3. DOMAIN cs = 1 .. N /\ N \in Nat /\ \A i \in 1 .. N : cs[i] \in Controllers
  BY <1>1
<1>4. ASSUME NEW k \in Controllers PROVE Tasks(k) \in Seq(Task)
  BY TasksFacts, SeqMonotonic DEF StartTask
<1>5. each \in Seq(Seq(Task)) /\ Len(each) = N /\ \A i \in 1 .. N : each[i] = Tasks(cs[i])
  BY <1>3, <1>4
<1>6. PICK i \in 1 .. N : cs[i] = c
  BY <1>1, Elements
<1> HIDE DEF each, N
<1>7. ToSet(todo) = UNION {ToSet(each[j]) : j \in 1 .. N} /\ todo \in Seq(Task)
  BY <1>2, <1>5, FlattenFacts
<1> QED BY <1>4, <1>5, <1>6, <1>7

LEMMA NoneDoneAtFirst ==
  ASSUME Init, NEW c \in Controllers
  PROVE  ~Done(c)
<1>1. Add(c) \in ToSet(Tasks(c))
  <2>1. Len(Tasks(c)) \in 1 .. Len(Tasks(c)) /\ Tasks(c)[Len(Tasks(c))] = Add(c)
    BY TasksStaged
  <2> QED BY <2>1, TasksAtFirst, Elements
<1>2. PICK j \in 1 .. Len(todo) : todo[j] = Add(c)
  BY <1>1, TasksAtFirst, Elements
<1> QED BY <1>2 DEF Done

(* In a library that is open, all that an object holds is registered.       *)
Whole ==
  status = "open" =>
    /\ todo = <<>>
    /\ \A o \in Owners :
         /\ ToSet(phys[o]) \subseteq Registered /\ ToSet(ports[o]) \subseteq Registered
         /\ \A d \in ToSet(scope[o].ends) : ToSet(EndListed(d)) \subseteq Registered
         /\ \A r \in ToSet(scope[o].routers) : {r, Port(r, r)} \subseteq Registered
         /\ \A r \in ToSet(scope[o].routers) : r \in Multipliers => Phy(r, r, 1) \in Registered
         /\ o \in Routers /\ Touched(o) => Port(o, o) \in Registered
    /\ \A c \in Controllers : ToSet(enclosures[c]) \subseteq Registered

LEMMA WholeMeans == Types /\ Up /\ Ended /\ Hung /\ Complete => Whole
<1> SUFFICES ASSUME Types, Up, Ended, Hung, Complete, status = "open" PROVE Whole
  BY DEF Whole
<1>1. todo = <<>> /\ Live
  BY DEF Ended, Live
<1>2. 1 .. Len(todo) = {}
  BY <1>1
<1>3. \A c : Done(c)
  BY <1>2 DEF Done
<1>4. \A o : ~Due(o)
  BY <1>2 DEF Due
<1>5. \A c \in Controllers : Lists(c) \subseteq Registered
  BY <1>1, <1>3 DEF Complete
<1>6. ASSUME NEW r, Attached(r) PROVE Lists(r) \subseteq Registered /\ r \in Routers
  <2>1. r \in Devices /\ r \in Routers
    BY <1>6, AttachedIs
  <2>2. PICK c \in Controllers : r \in Under(c)
    BY <2>1, UnderSome
  <2> QED BY <1>1, <1>3, <1>6, <2>1, <2>2 DEF Complete
<1>7. ASSUME NEW o \in Owners, Touched(o) PROVE Lists(o) \subseteq Registered
  <2>1. CASE o \in Controllers
    BY <1>5, <2>1
  <2>2. CASE o \in Routers
    <3>1. Attached(o)
      BY <1>1, <1>4, <1>7, <2>2 DEF Hung
    <3> QED BY <1>6, <3>1
  <2> QED BY <2>1, <2>2, KindFacts
<1>8. ASSUME NEW o \in Owners
      PROVE  /\ ToSet(phys[o]) \subseteq Registered /\ ToSet(ports[o]) \subseteq Registered
             /\ \A d \in ToSet(scope[o].ends) : ToSet(EndListed(d)) \subseteq Registered
  <2>1. CASE Touched(o)
    <3>1. Lists(o) \subseteq Registered
      BY <1>7, <2>1
    <3>2. ToSet(phys[o]) \subseteq Lists(o) /\ ToSet(ports[o]) \subseteq Lists(o) /\ Ends(o) \subseteq Lists(o)
      BY DEF Lists
    <3> QED BY <3>1, <3>2 DEF Ends
  <2>2. CASE ~Touched(o)
    BY <2>2 DEF Touched
  <2> QED BY <2>1, <2>2
<1>9. ASSUME NEW o \in Owners, NEW r \in ToSet(scope[o].routers)
      PROVE  {r, Port(r, r)} \subseteq Registered /\ (r \in Multipliers => Phy(r, r, 1) \in Registered)
  <2>1. Lists(r) \subseteq Registered /\ r \in Routers
    BY <1>6 DEF Attached
  <2>2. r \notin Controllers
    BY <2>1, KindFacts
  <2> QED BY <2>1, <2>2 DEF Lists
<1>10. ASSUME NEW o \in Routers, Touched(o) PROVE Port(o, o) \in Registered
  <2>1. o \in Owners /\ o \notin Controllers
    BY KindFacts
  <2> QED BY <1>7, <1>10, <2>1 DEF Lists
<1>11. ASSUME NEW c \in Controllers PROVE ToSet(enclosures[c]) \subseteq Registered
  BY <1>5 DEF Lists
<1> QED BY <1>1, <1>8, <1>9, <1>10, <1>11 DEF Whole

Carries == Escorted /\ Fixed /\ Hung /\ Complete

LEMMA CarriesHolds == Spec => [](Carries /\ Whole)
<1>1. Init => Carries
  <2>1. Init => Complete
    BY NoneDoneAtFirst DEF Complete
  <2> QED BY <2>1, EscortedInit, HungInit DEF Carries
<1>2. Types /\ Types' /\ Seen /\ Up /\ Up' /\ SessionType /\ EncInv /\ (Divided /\ Scoped) /\ Carries /\ [Next]_vars => Carries'
  BY EscortedNext, GrowsNext, HungNext, CompleteNext DEF Carries, Divided
<1>3. Types /\ Up /\ EncInv /\ Carries => Whole
  BY WholeMeans DEF Carries, EncInv
<1> QED BY <1>1, <1>2, <1>3, TypesHold, SeenHolds, UpHolds, EncHolds, DividedHolds, SessionHolds, PTL DEF Spec

-----------------------------------------------------------------------------
(* What is there all the time                                               *)

Firm == {d \in Devices : Stable(d)}

LEMMA FirmFacts ==
  ASSUME plugged \subseteq Devices
  PROVE  /\ Firm \subseteq plugged \ changed
         /\ Climbs(Firm)
         /\ \A S \in SUBSET (plugged \ changed) : Climbs(S) => S \subseteq Firm
<1> DEFINE K == plugged \ changed
           f == CHOOSE g : Follows(g, K)
<1>1. \A d : Stable(d) = f[d]
  BY DEF Stable, Follows
<1>2. Firm = {d \in Devices : f[d]}
  BY <1>1 DEF Firm
<1>3. Follows(f, K)
  BY FollowsSome
<1> HIDE DEF f
<1> QED BY <1>2, <1>3, FollowsClimbs

FirmOK == plugged \subseteq Devices => Firm \subseteq plugged \ changed /\ Climbs(Firm)
LEMMA FirmNext == FirmOK'
<1>1. FirmOK
  BY FirmFacts DEF FirmOK
<1> QED BY <1>1, PTL

LEMMA FirmThere ==
  ASSUME Types
  PROVE  /\ Firm \subseteq Devices /\ Firm \subseteq There
         /\ \A d \in Firm : d \in plugged /\ d \notin changed /\ (At[d] \in Controllers \/ At[d] \in Firm)
<1>1. plugged \subseteq Devices
  BY DEF Types, CablingType
<1>2. Firm \subseteq plugged \ changed /\ Climbs(Firm)
  BY <1>1, FirmFacts
<1>3. Firm \subseteq There
  BY <1>1, <1>2, ThereFacts
<1> QED BY <1>1, <1>2, <1>3 DEF Climbs

(* Only a plug changes the cables.                                          *)
LEMMA CablesKept ==
  ASSUME [Next]_vars
  PROVE  UNCHANGED cabling \/ \E d \in Devices : Change(d)
<1>1. ASSUME NEW tasks, Continue(tasks) PROVE UNCHANGED cabling
  BY <1>1 DEF Continue
<1>2. ASSUME NEW how, Stop(how) PROVE UNCHANGED cabling
  BY <1>2 DEF Stop
<1>3. ASSUME ListPhys(Owner) \/ ReadPhy(Owner, Device, Argument) \/ CreatePort(Owner, Device, Argument) \/ ListPorts(Owner)
      PROVE  UNCHANGED cabling
  BY <1>1, <1>3 DEF ListPhys, ReadPhy, CreatePort, ListPorts
<1>4. ASSUME DiscoverPort(Owner, Device) \/ AttachExpander(Owner, Device) \/ OpenEndDevice(Owner, Device)
      PROVE  UNCHANGED cabling
  BY <1>1, <1>2, <1>4 DEF DiscoverPort, AttachExpander, OpenEndDevice
<1>5. ASSUME ReadDir(Owner, Device) \/ StatNvme(Owner, Argument) \/ StatTargets(Owner, Device, Argument)
      PROVE  UNCHANGED cabling
  BY <1>1, <1>5 DEF ReadDir, StatNvme, StatTargets
<1>6. ASSUME \/ ReadNvmeDriver(Owner, Device) \/ AttachSingle(Owner, Device, Argument) \/ AttachMember(Owner, Device)
             \/ AttachMultiplier(Owner, Device)
      PROVE  UNCHANGED cabling
  BY <1>1, <1>6 DEF ReadNvmeDriver, AttachSingle, AttachMember, AttachMultiplier
<1>7. ASSUME AddToSession(Owner) \/ Opened \/ UNCHANGED vars PROVE UNCHANGED cabling
  BY <1>7 DEF AddToSession, Opened, vars, cabling
<1> QED BY <1>3, <1>4, <1>5, <1>6, <1>7 DEF Next

(* What is there all the time is so less and less, what is gone more.       *)
LEMMA FirmShrinks ==
  ASSUME Types, Types', [Next]_vars
  PROVE  Firm' \subseteq Firm /\ Unplugged \subseteq Unplugged' /\ Reached \subseteq Reached'
<1>1. plugged \subseteq Devices /\ plugged' \subseteq Devices /\ changed \subseteq Devices
  BY DEF Types, CablingType
<1>2. /\ plugged' \ changed' \subseteq plugged \ changed
      /\ changed \ plugged \subseteq changed' \ plugged'
      /\ plugged \cup changed \subseteq plugged' \cup changed'
  <2>1. CASE UNCHANGED cabling
    BY <2>1 DEF cabling
  <2>2. CASE \E d \in Devices : Change(d)
    BY <2>2 DEF Change
  <2> QED BY <2>1, <2>2, CablesKept
<1>3. PICK F : F = Firm'
  OBVIOUS
<1>4. F \subseteq plugged' \ changed' /\ Climbs(F)
  BY <1>1, <1>3, FirmNext DEF FirmOK, Climbs
<1>5. F \subseteq Firm
  BY <1>1, <1>2, <1>4, FirmFacts
<1>6. Reached \subseteq Reached'
  BY <1>2 DEF Reached, Climbs
<1> QED BY <1>2, <1>3, <1>5, <1>6 DEF Unplugged

LEMMA FirmAbove ==
  ASSUME Types, NEW o \in Devices, NEW d \in Under(o), d \in Firm
  PROVE  o \in Firm
<1> SUFFICES ASSUME o \notin Firm PROVE FALSE
  OBVIOUS
<1> DEFINE B == Under(o) \cap Firm
<1>1. B # {} /\ B \in SUBSET Devices
  BY UnderRule
<1>2. PICK x \in B : At[x] \notin B
  BY <1>1, TreeAssumption
<1>3. x \in Devices /\ (At[x] = o \/ At[x] \in Under(o))
  BY <1>2, UnderRule
<1>4. At[x] \in Devices
  BY <1>3, UnderRule
<1>5. At[x] \in Firm
  BY <1>2, <1>4, FirmThere, KindFacts
<1> QED BY <1>2, <1>3, <1>5

LEMMA UnderStep ==
  ASSUME NEW o, NEW d \in Under(o)
  PROVE  \E x \in Devices : At[x] = o /\ d \in Sub(x)
<1> DEFINE T == {y \in Under(o) : ~\E x \in Devices : At[x] = o /\ y \in Sub(x)}
<1> SUFFICES ASSUME T # {} PROVE FALSE
  OBVIOUS
<1>1. T \in SUBSET Devices
  BY UnderRule
<1>2. PICK y \in T : At[y] \notin T
  BY <1>1, TreeAssumption
<1>3. y \in Devices /\ (At[y] = o \/ At[y] \in Under(o)) /\ y \in Sub(y)
  BY <1>2, UnderRule DEF Sub
<1>4. At[y] \in Under(o)
  BY <1>2, <1>3
<1>5. PICK x \in Devices : At[x] = o /\ At[y] \in Sub(x)
  BY <1>2, <1>4
<1>6. y \in Under(x)
  BY <1>3, <1>5, UnderRule DEF Sub
<1> QED BY <1>2, <1>5, <1>6 DEF Sub

LEMMA NoneBelow ==
  ASSUME NEW x \in Disks \cup Ses
  PROVE  Sub(x) = {x}
<1>1. ASSUME NEW d \in Under(x) PROVE FALSE
  <2>1. PICK y \in Devices : At[y] = x
    BY UnderStep
  <2>2. At[y] \in Owners
    BY AtFacts
  <2> QED BY <2>1, <2>2, KindFacts
<1> QED BY <1>1 DEF Sub

LEMMA OnlyDisks ==
  ASSUME NEW o \in Vmd \cup Multipliers, NEW d \in Under(o)
  PROVE  d \in Disks /\ At[d] = o /\ d \in Devices
<1>1. PICK x \in Devices : At[x] = o /\ d \in Sub(x)
  BY UnderStep
<1>2. x \in Disks
  BY <1>1, AtFacts, KindFacts
<1> QED BY <1>1, <1>2, NoneBelow

-----------------------------------------------------------------------------
(* What a task relies on: one about a phy or a port has it in the list of   *)
(* its owner, and the names that were read in a Directory are those of      *)
(* devices that have been there, all that are there all the time included.  *)

Listing(t) ==
  IF t[2] \in Vmd THEN {x \in Devices : At[x] = t[2]}
  ELSE IF t[3] \in Disks THEN {t[3]}
  ELSE {x \in Devices : At[x] = t[3]}

Back(t) ==
  /\ t[1] \in {"phy", "create"} => Phy(t[2], t[3], t[4]) \in ToSet(phys[t[2]])
  /\ t[1] \in {"port", "end", "attach"} => Port(t[2], t[3]) \in ToSet(ports[t[2]])
  /\ t[1] = "stat" => ToSet(t[4]) \subseteq Reached /\ Listing(t) \cap Firm \subseteq ToSet(t[4])
Backed == \A i \in 1 .. Len(todo) : Back(todo[i])
Plain(t) == t[1] \notin {"phy", "create", "port", "end", "attach", "stat"}
Backing == \E tasks \in Seq(Task) : Push(tasks) /\ \A i \in 1 .. Len(tasks) : Back(tasks[i])'

LEMMA BackStays ==
  ASSUME Types, Types', [Next]_vars, Grows, NEW t \in Task, Back(t)
  PROVE  Back(t)'
<1>1. t[2] \in Owners
  BY TaskOwner
<1>2. Firm' \subseteq Firm /\ Reached \subseteq Reached'
  BY FirmShrinks
<1>3. t[1] = "stat" => ToSet(t[4]) \subseteq Reached' /\ Listing(t) \cap Firm' \subseteq ToSet(t[4])
  BY <1>2 DEF Back
<1>4. /\ t[1] \in {"phy", "create"} => Phy(t[2], t[3], t[4]) \in ToSet(phys'[t[2]])
      /\ t[1] \in {"port", "end", "attach"} => Port(t[2], t[3]) \in ToSet(ports'[t[2]])
  BY <1>1 DEF Back, Grows
<1> QED BY <1>3, <1>4 DEF Back, Phy, Port, Listing

LEMMA BackedPush ==
  ASSUME Types, Types', [Next]_vars, Grows, Backed, todo # <<>>, Backing
  PROVE  Backed'
<1>1. PICK tasks \in Seq(Task) : Push(tasks) /\ \A i \in 1 .. Len(tasks) : Back(tasks[i])'
  BY DEF Backing
<1> SUFFICES ASSUME NEW k \in 1 .. Len(todo') PROVE Back(todo[k])'
  BY DEF Backed
<1>2. PICK t : t = todo'[k]
  OBVIOUS
<1>3. Back(t)'
  <2>1. CASE k \in 1 .. Len(tasks)
    <3>1. todo'[k] = tasks[k]
      BY <1>1, <2>1, StackFacts DEF Types
    <3> QED BY <1>1, <1>2, <2>1, <3>1 DEF Back
  <2>2. CASE k \notin 1 .. Len(tasks)
    <3>0. PICK i \in 2 .. Len(todo) : k = i + Len(tasks) - 1
      BY <1>1, <2>2, StackFacts DEF Types
    <3>1. k = i + Len(tasks) - 1 /\ todo'[k] = todo[i]
      BY <1>1, <3>0, StackFacts DEF Types
    <3>2. i \in 1 .. Len(todo)
      BY <3>1 DEF Types, TodoType
    <3>3. Back(t)
      BY <1>2, <3>1, <3>2 DEF Backed
    <3>4. t \in Task
      BY <1>2, <3>1, <3>2, ElementOfSeq DEF Types, TodoType
    <3> QED BY <3>3, <3>4, BackStays
  <2> QED BY <2>1, <2>2
<1> QED BY <1>2, <1>3 DEF Back

LEMMA BackingSome ==
  ASSUME NEW T \in SUBSET Task, NEW tasks \in Seq(T), Continue(tasks), \A t \in T : Back(t)'
  PROVE  Backing
<1>1. tasks \in Seq(Task) /\ \A i \in 1 .. Len(tasks) : tasks[i] \in T
  BY SeqMonotonic, ElementOfSeq
<1>2. Push(tasks)
  BY DEF Continue, Push
<1> QED BY <1>1, <1>2 DEF Backing

LEMMA BackingNone ==
  ASSUME Push(<<>>)
  PROVE  Backing
<1> DEFINE none == <<>>
<1>1. none \in Seq(Task) /\ 1 .. Len(none) = {} /\ Push(none)
  OBVIOUS
<1> HIDE DEF none
<1> QED BY <1>1 DEF Backing

LEMMA BackingOne ==
  ASSUME Types, Types', todo # <<>>, NEW t, Continue(<<t>>), Back(t)'
  PROVE  Backing
<1> DEFINE T == {t}
           tasks == <<t>>
<1>1. t \in Task
  <2>1. todo' = <<t>> \o Tail(todo) /\ Tail(todo) \in Seq(Task) /\ todo' \in Seq(Task)
    BY DEF Continue, Types, TodoType
  <2>2. 1 \in 1 .. Len(todo') /\ todo'[1] = t
    BY <2>1
  <2> QED BY <2>1, <2>2, ElementOfSeq
<1>2. tasks \in Seq(T) /\ T \in SUBSET Task /\ \A x \in T : Back(x)'
  BY <1>1
<1>3. Continue(tasks)
  OBVIOUS
<1> HIDE DEF tasks, T
<1> QED BY <1>2, <1>3, BackingSome

LEMMA BackingPlain ==
  ASSUME NEW tasks \in Seq(Task), Continue(tasks), \A i \in 1 .. Len(tasks) : Plain(tasks[i])
  PROVE  Backing
<1>1. Push(tasks)
  BY DEF Continue, Push
<1> QED BY <1>1 DEF Backing, Back, Plain

LEMMA PhyIsPhy ==
  ASSUME NEW o, NEW t \in OwnPhy(o)
  PROVE  t = Phy(o, t[3], t[4]) /\ t[1] = "phy" /\ t[2] = o
BY DEF OwnPhy, PhyTask, Phy

LEMMA PortIsPort ==
  ASSUME NEW o, NEW t \in OwnPort(o)
  PROVE  t = Port(o, t[3]) /\ t[1] = "port" /\ t[2] = o
BY DEF OwnPort, PortTask, Port

LEMMA BackingList ==
  ASSUME Types, Doing("list"), ListPhys(Owner)
  PROVE  Backing
<1>1. PICK o : o = Owner
  OBVIOUS
<1> DEFINE last == <<"ports", o>>
           T == ToSet(PhysOf(o)) \cup {last}
           tasks == PhysOf(o) \o <<last>>
<1>2. o \in Hosts /\ o \in Owners
  BY <1>1, HeadFacts, TaskKinds, KindFacts DEF Types, ListTask, Owner, Doing
<1>3. CASE ~Continue(<<>>)
  <2>1. phys' = [phys EXCEPT ![o] = PhysOf(o)] /\ Continue(tasks)
    BY <1>1, <1>3 DEF ListPhys
  <2>2. phys'[o] = PhysOf(o)
    BY <1>2, <2>1 DEF Types, WiringType
  <2>3. PhysOf(o) \in Seq(OwnPhy(o)) /\ ToSet(PhysOf(o)) \subseteq OwnPhy(o)
    BY <1>2, PhysOfFacts, Elements
  <2>4. PhysOf(o) \in Seq(T) /\ <<last>> \in Seq(T)
    <3>1. PhysOf(o) \in Seq(T)
      BY <2>3, Narrowed
    <3> QED BY <3>1, Singleton
  <2>5. tasks \in Seq(T)
    BY <2>4, Joined
  <2>6. OwnPhy(o) \subseteq Task /\ last \in Task /\ last[1] = "ports"
    BY <1>2, TaskSets DEF OwnPhy, ListTask
  <2>7. \A t \in ToSet(PhysOf(o)) : Back(t)'
    BY <2>2, <2>3, PhyIsPhy DEF Back
  <2>8. Back(last)'
    BY <2>6 DEF Back
  <2> HIDE DEF tasks, last
  <2>9. T \in SUBSET Task /\ \A t \in T : Back(t)'
    BY <2>3, <2>6, <2>7, <2>8
  <2> HIDE DEF T
  <2> QED BY <2>1, <2>5, <2>9, BackingSome
<1> QED BY <1>3, BackingNone, PushNone

LEMMA BackHead ==
  ASSUME Types, Backed, todo # <<>>
  PROVE  Back(Head(todo))
BY HeadOfTodo DEF Backed

LEMMA BackingPhy ==
  ASSUME Types, Types', Backed, Doing("phy"), ReadPhy(Owner, Device, Argument)
  PROVE  Backing
<1>1. PICK o, d, n : o = Owner /\ d = Device /\ n = Argument
  OBVIOUS
<1> DEFINE t == <<"create", o, d, n>>
<1>2. todo # <<>> /\ Head(todo)[1] = "phy"
  BY DEF Doing
<1>3. Phy(o, d, n) \in ToSet(phys[o])
  BY <1>1, <1>2, BackHead DEF Back, Owner, Device, Argument
<1>4. phys' = phys /\ (Continue(<<>>) \/ Continue(<<t>>))
  BY <1>1 DEF ReadPhy
<1>5. Back(t)'
  BY <1>3, <1>4 DEF Back
<1> HIDE DEF t
<1> QED BY <1>2, <1>4, <1>5, BackingOne, BackingNone, PushNone

LEMMA BackingPorts ==
  ASSUME Types, Doing("ports"), ListPorts(Owner)
  PROVE  Backing
<1>1. PICK o : o = Owner
  OBVIOUS
<1> DEFINE T == ToSet(ports[o])
<1>2. o \in Hosts
  BY <1>1, HeadFacts, TaskKinds DEF Types, ListTask, Owner, Doing
<1>3. ports[o] \in Seq(OwnPort(o)) /\ OwnPort(o) \in SUBSET Task
  BY <1>2, TaskSets DEF Types, WiringType, OwnPort
<1>4. T \subseteq OwnPort(o) /\ ports[o] \in Seq(T)
  BY <1>3, Elements, Narrowed
<1>5. Continue(ports[o]) /\ ports' = ports
  BY <1>1 DEF ListPorts, wiring
<1>6. \A t \in T : Back(t)'
  BY <1>4, <1>5, PortIsPort DEF Back
<1>7. T \in SUBSET Task
  BY <1>3, <1>4
<1> HIDE DEF T
<1> QED BY <1>4, <1>5, <1>6, <1>7, BackingSome

LEMMA BackingPort ==
  ASSUME Types, Types', Backed, Doing("port"), DiscoverPort(Owner, Device), Present(Device)
  PROVE  Backing
<1>1. PICK o, d : o = Owner /\ d = Device
  OBVIOUS
<1> DEFINE list == <<"list", d>>
           attach == <<"attach", o, d>>
           end == <<"end", o, d>>
           tasks == <<list, attach>>
           T == {list, attach}
<1>2. Head(todo) \in PortTask /\ todo # <<>> /\ Head(todo)[1] = "port"
  BY HeadFacts, TaskKinds DEF Types, Doing
<1>3. /\ o \in Hosts /\ d \in Devices /\ d \in Far(o)
      /\ d \in Expanders => <<list, attach>> \in Seq(Task)
  BY <1>1, <1>2, PortTaskFacts DEF Owner, Device
<1>4. Port(o, d) \in ToSet(ports[o]) /\ ports' = ports
  BY <1>1, <1>2, BackHead DEF Back, Owner, Device, DiscoverPort, wiring
<1>5. Back(list)' /\ Back(attach)' /\ Back(end)'
  BY <1>4 DEF Back
<1>6. CASE d \in Expanders
  <2>1. Continue(tasks) /\ tasks \in Seq(Task) /\ Len(tasks) = 2 /\ tasks[1] = list /\ tasks[2] = attach
    BY <1>1, <1>3, <1>6 DEF DiscoverPort
  <2> HIDE DEF tasks, list, attach
  <2>2. list \in Task /\ attach \in Task
    <3>1. 1 \in 1 .. Len(tasks) /\ 2 \in 1 .. Len(tasks)
      BY <2>1
    <3>2. tasks[1] \in Task /\ tasks[2] \in Task
      BY <2>1, <3>1, ElementOfSeq
    <3> QED BY <2>1, <3>2
  <2>3. tasks \in Seq(T)
    BY <2>1 DEF tasks
  <2>4. T \in SUBSET Task /\ \A t \in T : Back(t)'
    BY <1>5, <2>2
  <2> HIDE DEF T
  <2> QED BY <2>1, <2>3, <2>4, BackingSome
<1>7. CASE d \notin Expanders
  <2>1. Continue(<<end>>)
    BY <1>1, <1>7 DEF DiscoverPort
  <2> HIDE DEF end
  <2> QED BY <1>2, <1>5, <2>1, BackingOne
<1> QED BY <1>6, <1>7

LEMMA BackingStatNvme ==
  ASSUME Types, Doing("stat"), Owner \in Vmd, StatNvme(Owner, Argument)
  PROVE  Backing
<1>1. PICK o : o = Owner
  OBVIOUS
<1> DEFINE s == Found(Argument)
           tasks == Each("nvme", o, s)
<1>2. Head(todo) \in VmdStat
  BY HeadFacts, TaskKinds, KindFacts DEF Types, Doing, AhciStat, Owner
<1>3. Argument \in Seq(Disks) /\ \A x \in ToSet(Argument) : x \in Disks /\ At[x] = Owner
  <2>1. Argument \in Seq(Disks)
    BY <1>2 DEF VmdStat, Argument
  <2> QED BY <1>2, <2>1, Elements DEF VmdStat, Owner, Argument
<1>4. s \in Seq(Disks) /\ \A x \in ToSet(s) : <<"nvme", o, x>> \in NvmeTask
  <2>1. s \in Seq(Disks) /\ ToSet(s) \subseteq ToSet(Argument)
    BY <1>3, FoundFacts
  <2> QED BY <1>1, <1>3, <2>1 DEF NvmeTask
<1> HIDE DEF s
<1>5. tasks \in Seq(NvmeTask)
  BY <1>4, EachFacts
<1>6. Continue(tasks)
  BY <1>1 DEF StatNvme, s
<1>7. NvmeTask \in SUBSET Task /\ \A t \in NvmeTask : Back(t)'
  BY TaskSets DEF NvmeTask, Back
<1> HIDE DEF tasks
<1> QED BY <1>5, <1>6, <1>7, BackingSome

LEMMA BackingStatTargets ==
  ASSUME Types, Types', Doing("stat"), Owner \in Ahci, StatTargets(Owner, Device, Argument)
  PROVE  Backing
<1>1. PICK c, h, s : c = Owner /\ h = Device /\ s = Found(Argument)
  OBVIOUS
<1> DEFINE each == Each("member", h, s)
           multiplier == <<"multiplier", c, h>>
           last == <<multiplier>>
           disk == <<"disk", c, s[1], h>>
<1>2. todo # <<>> /\ Head(todo) \in AhciStat
  BY HeadFacts, TaskKinds, KindFacts DEF Types, Doing, VmdStat, Owner
<1>3. /\ s \in Seq(Disks)
      /\ Len(s) > 1 => each \in Seq(Task) /\ last \in Seq(Task)
  BY <1>1, <1>2, TargetTasks, KindFacts DEF Owner, Device, Argument
<1>4. Continue(<<>>) \/ Continue(<<disk>>) \/ (Len(s) > 1 /\ Continue(each \o last))
  BY <1>1 DEF StatTargets
<1>5. CASE Len(s) > 1 /\ Continue(each \o last)
  <2> DEFINE tasks == each \o last
             T == {t \in Task : t[1] \in {"member", "multiplier"}}
  <2>1. \A i \in 1 .. Len(each) : each[i][1] = "member"
    <3>1. Len(each) = Len(s) /\ \A i \in 1 .. Len(s) : each[i] = <<"member", h, s[i]>>
      BY <1>3, EachEntries
    <3> HIDE DEF each
    <3> QED BY <1>3, <3>1
  <2>2. multiplier[1] = "multiplier"
    OBVIOUS
  <2> HIDE DEF each, multiplier
  <2>3. last \in Seq(Task) /\ Len(last) = 1 /\ last[1] = multiplier /\ each \in Seq(Task)
    BY <1>3, <1>5
  <2> HIDE DEF last
  <2>4. each \in Seq(T)
    <3>1. \A i \in 1 .. Len(each) : each[i] \in T
      BY <2>1, <2>3, ElementOfSeq
    <3> QED BY <2>3, <3>1, Elements, Narrowed
  <2>5. last \in Seq(T)
    <3>1. \A i \in 1 .. Len(last) : last[i] \in T
      BY <2>2, <2>3, ElementOfSeq
    <3> QED BY <2>3, <3>1, Elements, Narrowed
  <2>6. tasks \in Seq(T)
    BY <2>4, <2>5, Joined
  <2>7. T \in SUBSET Task /\ \A t \in T : Back(t)'
    BY DEF Back
  <2>8. Continue(tasks)
    BY <1>5
  <2> HIDE DEF tasks, T
  <2> QED BY <2>6, <2>7, <2>8, BackingSome
<1>6. Back(disk)'
  BY DEF Back
<1> HIDE DEF disk, each, multiplier, last
<1> QED BY <1>2, <1>4, <1>5, <1>6, BackingOne, BackingNone, PushNone

LEMMA BackingReadDir ==
  ASSUME Types, Types', [Next]_vars, Doing("readdir"), ReadDir(Owner, Device)
  PROVE  Backing
<1>1. PICK o, d : o = Owner /\ d = Device
  OBVIOUS
<1>2. PICK L : L = IF o \in Vmd THEN Among(Plugged(o), There) ELSE Targets(d)
  OBVIOUS
<1>3. PICK u : u = <<"stat", o, d, L>>
  OBVIOUS
<1>4. Continue(<<u>>) /\ todo # <<>> /\ u[1] = "stat" /\ u[4] = L
  BY <1>1, <1>2, <1>3 DEF ReadDir, Doing
<1>5. Listing(u) = IF o \in Vmd THEN {x \in Devices : At[x] = o} ELSE IF d \in Disks THEN {d} ELSE {x \in Devices : At[x] = d}
  BY <1>3 DEF Listing
<1>6. ASSUME NEW X, NEW s \in Seq(X), ToSet(s) = Listing(u), L = Among(s, There) PROVE ToSet(L) = Listing(u) \cap There
  BY <1>6, AmongFacts
<1>7. ToSet(L) = Listing(u) \cap There
  <2>1. CASE o \notin Vmd /\ d \in Disks
    <3> DEFINE s == <<d>>
    <3>1. s \in Seq({d}) /\ ToSet(s) = {d}
      BY Singleton
    <3>2. L = Among(s, There)
      BY <1>2, <2>1 DEF Targets
    <3> HIDE DEF s
    <3> QED BY <1>5, <1>6, <2>1, <3>1, <3>2
  <2>2. ASSUME NEW h, ToSet(L) = ToSet(Among(Plugged(h), There)), Listing(u) = {x \in Devices : At[x] = h}
        PROVE  ToSet(L) = Listing(u) \cap There
    <3>1. PICK D : D = {x \in Devices : At[x] = h}
      OBVIOUS
    <3>2. Plugged(h) \in Seq(D) /\ ToSet(Plugged(h)) = D
      BY <3>1, PluggedFacts
    <3>3. ToSet(Among(Plugged(h), There)) = D \cap There
      BY <3>2, AmongFacts
    <3> QED BY <2>2, <3>1, <3>3
  <2>3. CASE o \in Vmd
    BY <1>2, <1>5, <2>2, <2>3
  <2>4. CASE o \notin Vmd /\ d \notin Disks
    BY <1>2, <1>5, <2>2, <2>4 DEF Targets
  <2> QED BY <2>1, <2>3, <2>4
<1>8. There \subseteq Reached' /\ Firm' \subseteq There
  BY FirmShrinks, FirmThere, ReachedFacts DEF Types, CablingType
<1>9. ToSet(u[4]) \subseteq Reached' /\ Listing(u) \cap Firm' \subseteq ToSet(u[4])
  BY <1>4, <1>7, <1>8
<1>10. Back(u)'
  BY <1>4, <1>9 DEF Back, Listing
<1> QED BY <1>4, <1>10, BackingOne

LEMMA BackedNext ==
  ASSUME Types, Types', Fixed, Backed, [Next]_vars
  PROVE  Backed'
<1>0. Grows
  BY GrowsNext
<1>1. CASE todo' = todo
  <2> SUFFICES ASSUME NEW i \in 1 .. Len(todo) PROVE Back(todo[i])'
    BY <1>1 DEF Backed
  <2>1. PICK t : t = todo[i]
    OBVIOUS
  <2>2. t \in Task /\ Back(t)
    BY <2>1, ElementOfSeq DEF Backed, Types, TodoType
  <2>3. Back(t)'
    BY <1>0, <2>2, BackStays
  <2> QED BY <1>1, <2>1, <2>3 DEF Back
<1>2. CASE Stops
  <2>1. todo' = <<>> /\ 1 .. Len(<<>>) = {}
    BY <1>2 DEF Stops, Stop
  <2> QED BY <2>1 DEF Backed
<1>3. CASE todo # <<>> /\ Backing
  BY <1>0, <1>3, BackedPush
<1>4. \A what : Doing(what) => todo # <<>>
  BY DEF Doing
<1>5. ASSUME NEW d \in Devices, Change(d) PROVE todo' = todo
  BY <1>5 DEF Change
<1>6. ASSUME Doing("list"), ListPhys(Owner) PROVE Backing
  BY <1>6, BackingList
<1>7. ASSUME Doing("phy"), ReadPhy(Owner, Device, Argument) PROVE Backing
  BY <1>7, BackingPhy
<1>8. ASSUME Doing("create"), CreatePort(Owner, Device, Argument) PROVE Backing
  BY <1>8, BackingNone, PushNone DEF CreatePort
<1>9. ASSUME Doing("ports"), ListPorts(Owner) PROVE Backing
  BY <1>9, BackingPorts
<1>10. ASSUME Doing("port"), DiscoverPort(Owner, Device) PROVE Backing \/ Stops
  BY <1>10, BackingPort DEF DiscoverPort, Stops
<1>11. ASSUME Doing("attach"), AttachExpander(Owner, Device) PROVE Backing \/ Stops
  BY <1>11, BackingNone, PushNone DEF AttachExpander, Stops
<1>12. ASSUME Doing("end"), OpenEndDevice(Owner, Device) PROVE Backing
  BY <1>12, BackingNone, PushNone DEF OpenEndDevice
<1>13. ASSUME Doing("readdir"), ReadDir(Owner, Device) PROVE Backing
  BY <1>13, BackingReadDir
<1>14. ASSUME Doing("stat"), Owner \in Vmd, StatNvme(Owner, Argument) PROVE Backing
  BY <1>14, BackingStatNvme
<1>15. ASSUME Doing("stat"), Owner \in Ahci, StatTargets(Owner, Device, Argument) PROVE Backing
  BY <1>15, BackingStatTargets
<1>16. ASSUME Doing("nvme"), ReadNvmeDriver(Owner, Device) PROVE Backing
  <2>1. PICK u : u = <<"disk", Owner, Device, Device>>
    OBVIOUS
  <2>2. Continue(<<>>) \/ Continue(<<u>>)
    BY <1>16, <2>1 DEF ReadNvmeDriver
  <2>3. u[1] = "disk"
    BY <2>1
  <2>4. Back(u)'
    BY <2>3 DEF Back
  <2> QED BY <1>4, <1>16, <2>2, <2>4, BackingNone, BackingOne, PushNone
<1>17. ASSUME Doing("disk"), AttachSingle(Owner, Device, Argument) PROVE Backing
  BY <1>17, BackingNone, PushNone DEF AttachSingle
<1>18. ASSUME Doing("member"), AttachMember(Owner, Device) PROVE Backing
  BY <1>18, BackingNone, PushNone DEF AttachMember
<1>19. ASSUME Doing("multiplier"), AttachMultiplier(Owner, Device) PROVE Backing
  BY <1>19, BackingNone, PushNone DEF AttachMultiplier
<1>20. ASSUME Doing("add"), AddToSession(Owner) PROVE Backing
  BY <1>20, AddsPush, BackingNone DEF Adds
<1>21. ASSUME Opened PROVE todo' = todo
  BY <1>21 DEF Opened
<1>22. UNCHANGED vars => todo' = todo
  BY DEF vars
<1> QED BY <1>1, <1>2, <1>3, <1>4, <1>5, <1>6, <1>7, <1>8, <1>9, <1>10, <1>11, <1>12, <1>13, <1>14, <1>15, <1>16,
           <1>17, <1>18, <1>19, <1>20, <1>21, <1>22 DEF Next

LEMMA BackedInit == Init => Backed
<1> SUFFICES ASSUME Init PROVE Backed
  OBVIOUS
<1>1. todo \in Seq(StartTask)
  BY TodoInit
<1>2. \A i \in 1 .. Len(todo) : todo[i] \in StartTask
  BY <1>1, ElementOfSeq
<1> QED BY <1>2 DEF Backed, Back, StartTask

-----------------------------------------------------------------------------
(* What phys and ports are linked to                                        *)

Brings(t, o, d) ==
  \/ t[1] = "multiplier" /\ t[2] = o /\ t[3] = d
  \/ t[1] = "disk" /\ t[2] = o /\ t[4] = d
PortDue(o, d) == \E i \in 1 .. Len(todo) : Brings(todo[i], o, d)

(* A wire is between a phy and a port of lists that will be registered, or  *)
(* of a disk or a multiplier that will.                                     *)
ListWire(w) ==
  \E o \in Owners, d \in Devices, n \in 1 .. Lanes :
    /\ w = <<Phy(o, d, n), Port(o, d)>> /\ Phy(o, d, n) \in ToSet(phys[o])
    /\ Port(o, d) \in ToSet(ports[o]) \/ (o = d /\ o \in subtractive) \/ PortDue(o, d)
DiskWire(w) == \E o \in Owners : \E d \in ToSet(scope[o].ends) : w = OwnWire(d)
MultiplierWire(w) == \E d \in Multipliers : w = OwnWire(d) /\ (Attached(d) \/ Due(d))
Wired(w) == ListWire(w) \/ DiskWire(w) \/ MultiplierWire(w)
AllWired == Live => \A w \in wires : Wired(w)

Joins(j) ==
  \E o \in Owners, a \in Devices, d \in Devices :
    /\ j = <<Port(o, a), Port(d, d)>> /\ Port(o, a) \in ToSet(ports[o])
    /\ d \in ToSet(scope[o].ends) \cup ToSet(scope[o].routers)
AllJoined == Live => \A j \in joined : Joins(j)
Linked == Backed /\ AllWired /\ AllJoined

LEMMA TodoNext ==
  ASSUME Types, Types', Seen, Up, [Next]_vars, Live'
  PROVE  todo' = todo \/ (todo # <<>> /\ \E tasks \in Seq(Task) : Push(tasks))
<1>1. CASE Calm
  BY <1>1 DEF Calm
<1>2. CASE Stops
  BY <1>2 DEF Stops, Stop, Live
<1>3. CASE Works
  BY <1>3 DEF Works, Moved, Pushes
<1>4. CASE Adds
  <2>1. <<>> \in Seq(Task)
    OBVIOUS
  <2> QED BY <1>4, <2>1, AddsPush
<1> QED BY <1>1, <1>2, <1>3, <1>4, StepKinds

(* A task is left, unless it is the one that has just been done.            *)
LEMMA TaskStays ==
  ASSUME Types, Types', Seen, Up, [Next]_vars, Live', NEW i \in 1 .. Len(todo)
  PROVE  (\E k \in 1 .. Len(todo') : todo'[k] = todo[i]) \/ (todo # <<>> /\ todo[i] = Head(todo) /\ i = 1 /\ todo' # todo)
<1>1. CASE todo' = todo
  BY <1>1
<1>2. CASE todo' # todo
  <2>1. PICK tasks \in Seq(Task) : todo # <<>> /\ Push(tasks)
    BY <1>2, TodoNext
  <2>2. CASE i = 1
    BY <1>2, <2>1, <2>2, HeadOfTodo
  <2>3. CASE i # 1
    <3>1. i \in 2 .. Len(todo)
      BY <2>3 DEF Types, TodoType
    <3>2. i + Len(tasks) - 1 \in 1 .. Len(todo') /\ todo'[i + Len(tasks) - 1] = todo[i]
      BY <2>1, <3>1, StackFacts DEF Types
    <3> QED BY <3>2
  <2> QED BY <2>2, <2>3
<1> QED BY <1>1, <1>2

LEMMA DueNext ==
  ASSUME Types, Types', Seen, Up, Escorted, [Next]_vars, Live', NEW r, Due(r) \/ Attached(r)
  PROVE  Due(r)' \/ Attached(r)'
<1>1. CASE Attached(r)
  BY <1>1, AttachedStays
<1>2. CASE Due(r)
  <2>1. todo # <<>>
    <3>1. 1 .. Len(<<>>) = {}
      OBVIOUS
    <3> QED BY <1>2, <3>1 DEF Due
  <2>2. PICK o : o = Owner
    OBVIOUS
  <2>3. Due(r)' \/ Lifts(Head(todo), r)
    BY <1>2, <2>1, EscortedNext
  <2>4. Lifts(Head(todo), r) => Due(r)' \/ (r \in ToSet(scope'[o].routers) /\ o \in Owners)
    BY <2>1, <2>2, Lifted
  <2> QED BY <2>3, <2>4 DEF Attached
<1> QED BY <1>1, <1>2

LEMMA Brought ==
  ASSUME Types, Types', [Next]_vars, todo # <<>>, todo' # todo, NEW o \in Owners, NEW d \in Devices, Brings(Head(todo), o, d)
  PROVE  Port(o, d) \in ToSet(ports'[o])
<1>1. ASSUME ports' = [ports EXCEPT ![o] = Append(@, Port(o, d))] PROVE Port(o, d) \in ToSet(ports'[o])
  <2>1. ports[o] \in Seq(Objects) /\ ports'[o] = Append(ports[o], Port(o, d))
    BY <1>1 DEF Types, WiringType
  <2> QED BY <2>1, AppendGrows
<1>2. ASSUME Doing("disk"), AttachSingle(Owner, Device, Argument) PROVE Port(o, d) \in ToSet(ports'[o])
  <2>1. Owner = o /\ Argument = d
    BY <1>2 DEF Doing, Brings, Owner, Argument
  <2> QED BY <1>1, <1>2, <2>1 DEF AttachSingle
<1>3. ASSUME Doing("multiplier"), AttachMultiplier(Owner, Device) PROVE Port(o, d) \in ToSet(ports'[o])
  <2>1. Owner = o /\ Device = d
    BY <1>3 DEF Doing, Brings, Owner, Device
  <2> QED BY <1>1, <1>3, <2>1 DEF AttachMultiplier
<1>4. ASSUME NEW what, Doing(what) PROVE what \in {"disk", "multiplier"}
  BY <1>4 DEF Doing, Brings
<1>5. ASSUME NEW x \in Devices, Change(x) PROVE todo' = todo
  BY <1>5 DEF Change
<1>6. UNCHANGED vars \/ Opened => todo' = todo
  BY DEF vars, Opened
<1> QED BY <1>2, <1>3, <1>4, <1>5, <1>6 DEF Next

LEMMA PortDueNext ==
  ASSUME Types, Types', Seen, Up, [Next]_vars, Live', NEW o \in Owners, NEW d \in Devices, PortDue(o, d)
  PROVE  PortDue(o, d)' \/ Port(o, d) \in ToSet(ports'[o])
<1>1. PICK i \in 1 .. Len(todo) : Brings(todo[i], o, d)
  BY DEF PortDue
<1>2. CASE \E k \in 1 .. Len(todo') : todo'[k] = todo[i]
  BY <1>1, <1>2 DEF PortDue, Brings
<1>3. CASE todo # <<>> /\ todo[i] = Head(todo) /\ todo' # todo
  <2>1. Brings(Head(todo), o, d)
    BY <1>1, <1>3
  <2> QED BY <1>3, <2>1, Brought
<1> QED BY <1>2, <1>3, TaskStays

LEMMA WiredStays ==
  ASSUME Types, Types', Seen, Up, Escorted, Grows, [Next]_vars, Live', NEW w, Wired(w)
  PROVE  Wired(w)'
<1>1. CASE ListWire(w)
  <2>1. PICK o \in Owners, d \in Devices, n \in 1 .. Lanes :
          /\ w = <<Phy(o, d, n), Port(o, d)>> /\ Phy(o, d, n) \in ToSet(phys[o])
          /\ Port(o, d) \in ToSet(ports[o]) \/ (o = d /\ o \in subtractive) \/ PortDue(o, d)
    BY <1>1 DEF ListWire
  <2>2. Phy(o, d, n) \in ToSet(phys'[o])
    BY <2>1 DEF Grows
  <2>3. Port(o, d) \in ToSet(ports'[o]) \/ (o = d /\ o \in subtractive') \/ PortDue(o, d)'
    BY <2>1, PortDueNext DEF Grows
  <2>4. ListWire(w)'
    BY <2>1, <2>2, <2>3 DEF ListWire, Phy, Port
  <2> QED BY <2>4 DEF Wired
<1>2. CASE DiskWire(w)
  <2>1. DiskWire(w)'
    BY <1>2 DEF DiskWire, Grows, OwnWire, Phy, Port
  <2> QED BY <2>1 DEF Wired
<1>3. CASE MultiplierWire(w)
  <2>1. PICK d \in Multipliers : w = OwnWire(d) /\ (Attached(d) \/ Due(d))
    BY <1>3 DEF MultiplierWire
  <2>2. Due(d)' \/ Attached(d)'
    BY <2>1, DueNext
  <2>3. MultiplierWire(w)'
    BY <2>1, <2>2 DEF MultiplierWire, OwnWire, Phy, Port
  <2> QED BY <2>3 DEF Wired
<1> QED BY <1>1, <1>2, <1>3 DEF Wired

LEMMA JoinsStay ==
  ASSUME Grows, NEW j, Joins(j)
  PROVE  Joins(j)'
<1>1. PICK o \in Owners, a \in Devices, d \in Devices :
        /\ j = <<Port(o, a), Port(d, d)>> /\ Port(o, a) \in ToSet(ports[o])
        /\ d \in ToSet(scope[o].ends) \cup ToSet(scope[o].routers)
  BY DEF Joins
<1>2. Port(o, a) \in ToSet(ports'[o]) /\ d \in ToSet(scope'[o].ends) \cup ToSet(scope'[o].routers)
  BY <1>1 DEF Grows
<1> QED BY <1>1, <1>2 DEF Joins, Port

NewLinks ==
  /\ \A w \in wires' : w \in wires \/ Wired(w)'
  /\ \A j \in joined' : j \in joined \/ Joins(j)'

LEMMA NewWire ==
  ASSUME NEW o \in Owners, NEW d \in Devices, NEW n \in 1 .. Lanes, Phy(o, d, n) \in ToSet(phys'[o]),
         Port(o, d) \in ToSet(ports'[o]) \/ (o = d /\ o \in subtractive') \/ PortDue(o, d)'
  PROVE  Wired(<<Phy(o, d, n), Port(o, d)>>)'
<1>1. PICK w : w = <<Phy(o, d, n), Port(o, d)>>
  OBVIOUS
<1>2. ListWire(w)'
  BY <1>1 DEF ListWire, Phy, Port
<1>3. Wired(w)'
  BY <1>2 DEF Wired
<1> QED BY <1>1, <1>3

LEMMA NewDiskWire ==
  ASSUME NEW o \in Owners, NEW d, d \in ToSet(scope'[o].ends)
  PROVE  Wired(OwnWire(d))'
<1>1. PICK w : w = OwnWire(d)
  OBVIOUS
<1>2. DiskWire(w)'
  BY <1>1 DEF DiskWire, OwnWire, Phy, Port
<1>3. Wired(w)'
  BY <1>2 DEF Wired
<1>4. OwnWire(d)' = OwnWire(d)
  BY DEF OwnWire, Phy, Port
<1> QED BY <1>1, <1>3, <1>4

LEMMA NewJoin ==
  ASSUME NEW o \in Owners, NEW a \in Devices, NEW d \in Devices, Port(o, a) \in ToSet(ports'[o]),
         d \in ToSet(scope'[o].ends) \cup ToSet(scope'[o].routers)
  PROVE  Joins(<<Port(o, a), Port(d, d)>>)'
BY DEF Joins, Port

LEMMA EndIn ==
  ASSUME TreeType, NEW o \in Owners, NEW d \in Disks, AttachEndDevice(o, d)
  PROVE  d \in ToSet(scope'[o].ends)
<1>1. scope'[o].ends = Append(scope[o].ends, d) /\ scope[o].ends \in Seq(Disks)
  BY ScopeFacts DEF AttachEndDevice, TreeType, Scopes
<1> QED BY <1>1, AppendGrows

LEMMA RouterIn ==
  ASSUME TreeType, NEW o \in Owners, NEW r \in Routers, AttachRoutingDevice(o, r)
  PROVE  r \in ToSet(scope'[o].routers)
<1>1. scope'[o].routers = Append(scope[o].routers, r) /\ scope[o].routers \in Seq(Routers)
  BY ScopeFacts, RouterAdded
<1> QED BY <1>1, AppendGrows

LEMMA PortIn ==
  ASSUME WiringType, NEW o \in Owners, NEW x, ports' = [ports EXCEPT ![o] = Append(@, x)]
  PROVE  x \in ToSet(ports'[o])
<1>1. ports'[o] = Append(ports[o], x) /\ ports[o] \in Seq(Objects)
  BY DEF WiringType
<1> QED BY <1>1, AppendGrows

LEMMA PhyIn ==
  ASSUME WiringType, NEW o \in Owners, NEW x, phys' = [phys EXCEPT ![o] = Append(@, x)]
  PROVE  x \in ToSet(phys'[o])
<1>1. phys'[o] = Append(phys[o], x) /\ phys[o] \in Seq(Objects)
  BY DEF WiringType
<1> QED BY <1>1, AppendGrows

LEMMA PushedHas ==
  ASSUME Types, todo # <<>>, NEW tasks \in Seq(Task), Continue(tasks), NEW i \in 1 .. Len(tasks)
  PROVE  \E k \in 1 .. Len(todo') : todo'[k] = tasks[i]
<1>1. Push(tasks)
  BY DEF Continue, Push
<1> QED BY <1>1, StackFacts DEF Types

LEMMA PushedOne ==
  ASSUME Types, Types', todo # <<>>, NEW t, Continue(<<t>>)
  PROVE  \E k \in 1 .. Len(todo') : todo'[k] = t
<1>1. todo' = <<t>> \o Tail(todo) /\ Tail(todo) \in Seq(Task) /\ todo' \in Seq(Task)
  BY DEF Continue, Types, TodoType
<1>2. 1 \in 1 .. Len(todo') /\ todo'[1] = t
  BY <1>1
<1> QED BY <1>2

LEMMA LinksPhy ==
  ASSUME Types, Types', Backed, Doing("phy"), ReadPhy(Owner, Device, Argument)
  PROVE  NewLinks
<1>1. PICK o, d, n : o = Owner /\ d = Device /\ n = Argument
  OBVIOUS
<1>2. todo # <<>> /\ Head(todo) \in PhyTask /\ Head(todo)[1] = "phy"
  BY HeadFacts, TaskKinds DEF Types, Doing
<1>3. o \in Hosts /\ o \in Owners /\ d \in Devices /\ n \in 1 .. Lanes /\ Port(o, d) \in Objects
  BY <1>1, <1>2, PhyTaskFacts, KindFacts DEF Owner, Device, Argument
<1>4. Phy(o, d, n) \in ToSet(phys[o])
  BY <1>1, <1>2, BackHead DEF Back, Owner, Device, Argument
<1>5. /\ phys' = phys /\ subtractive' = subtractive /\ joined' = joined
      /\ \/ wires' = wires
         \/ /\ wires' = wires \cup {<<Phy(o, d, n), Port(o, d)>>}
            /\ ports' = IF KnownPort(o, d) THEN ports ELSE [ports EXCEPT ![o] = Append(@, Port(o, d))]
  BY <1>1 DEF ReadPhy
<1>6. CASE wires' = wires
  BY <1>5, <1>6 DEF NewLinks
<1>7. CASE wires' # wires
  <2>1. Port(o, d) \in ToSet(ports'[o]) \/ (o = d /\ o \in subtractive')
    <3>1. CASE KnownPort(o, d)
      BY <1>5, <1>7, <3>1 DEF KnownPort
    <3>2. CASE ~KnownPort(o, d)
      BY <1>3, <1>5, <1>7, <3>2, PortIn DEF Types
    <3> QED BY <3>1, <3>2
  <2>2. Wired(<<Phy(o, d, n), Port(o, d)>>)'
    BY <1>3, <1>4, <1>5, <2>1, NewWire
  <2>3. PICK x : x = <<Phy(o, d, n), Port(o, d)>>
    OBVIOUS
  <2>4. Wired(x)'
    BY <2>2, <2>3
  <2>5. \A w \in wires' : w \in wires \/ w = x
    BY <1>5, <1>7, <2>3
  <2> QED BY <1>5, <2>4, <2>5 DEF NewLinks
<1> QED BY <1>6, <1>7

LEMMA LinksCreate ==
  ASSUME Types, Types', Backed, Doing("create"), CreatePort(Owner, Device, Argument)
  PROVE  NewLinks
<1>1. PICK o, d, n : o = Owner /\ d = Device /\ n = Argument
  OBVIOUS
<1>2. todo # <<>> /\ Head(todo) \in PhyTask /\ Head(todo)[1] = "create"
  BY HeadFacts, TaskKinds DEF Types, Doing
<1>3. o \in Hosts /\ o \in Owners /\ d \in Devices /\ n \in 1 .. Lanes /\ Port(o, d) \in Objects
  BY <1>1, <1>2, PhyTaskFacts, KindFacts DEF Owner, Device, Argument
<1>4. Phy(o, d, n) \in ToSet(phys[o])
  BY <1>1, <1>2, BackHead DEF Back, Owner, Device, Argument
<1>5. /\ phys' = phys /\ joined' = joined
      /\ wires' = wires \cup {<<Phy(o, d, n), Port(o, d)>>}
      /\ (o = d /\ subtractive' = subtractive \cup {o}) \/ ports' = [ports EXCEPT ![o] = Append(@, Port(o, d))]
  BY <1>1 DEF CreatePort
<1>6. Port(o, d) \in ToSet(ports'[o]) \/ (o = d /\ o \in subtractive')
  BY <1>3, <1>5, PortIn DEF Types
<1>7. Wired(<<Phy(o, d, n), Port(o, d)>>)'
  BY <1>3, <1>4, <1>5, <1>6, NewWire
<1>8. PICK x : x = <<Phy(o, d, n), Port(o, d)>>
  OBVIOUS
<1>9. Wired(x)'
  BY <1>7, <1>8
<1>10. \A w \in wires' : w \in wires \/ w = x
  BY <1>5, <1>8
<1> QED BY <1>5, <1>9, <1>10 DEF NewLinks

LEMMA LinksAttach ==
  ASSUME Types, Backed, Doing("attach"), AttachExpander(Owner, Device), Live'
  PROVE  NewLinks
<1>1. PICK o, e : o = Owner /\ e = Device
  OBVIOUS
<1>2. todo # <<>> /\ Head(todo) \in AttachTask /\ Head(todo)[1] = "attach"
  BY HeadFacts, TaskKinds DEF Types, Doing
<1>3. o \in Owners /\ e \in Routers /\ e \in Devices
  BY <1>1, <1>2, KindFacts DEF AttachTask, Owner, Device
<1>4. Port(o, e) \in ToSet(ports[o])
  BY <1>1, <1>2, BackHead DEF Back, Owner, Device
<1>5. ~Stop("crashed")
  BY DEF Stop, Live
<1>6. /\ ports' = ports /\ wires' = wires
      /\ joined' = joined \cup {<<Port(o, e), Port(e, e)>>} /\ AttachRoutingDevice(o, e)
  BY <1>1, <1>5 DEF AttachExpander
<1>7. Joins(<<Port(o, e), Port(e, e)>>)'
  BY <1>3, <1>4, <1>6, RouterIn, NewJoin DEF Types
<1>8. PICK x : x = <<Port(o, e), Port(e, e)>>
  OBVIOUS
<1>9. Joins(x)'
  BY <1>7, <1>8
<1> QED BY <1>6, <1>8, <1>9 DEF NewLinks

(* An end device that is attached through a port of the owner               *)
LEMMA LinksAttachEnd ==
  ASSUME Types, NEW o \in Owners, NEW a \in Devices, NEW d \in Disks, AttachEnd(o, d, Port(o, a)),
         Port(o, a) \in ToSet(ports'[o])
  PROVE  NewLinks
<1>1. d \in ToSet(scope'[o].ends)
  BY EndIn DEF AttachEnd, Types
<1>2. d \in Devices
  BY KindFacts
<1>3. Wired(OwnWire(d))'
  BY <1>1, NewDiskWire
<1>4. Joins(<<Port(o, a), Port(d, d)>>)'
  BY <1>1, <1>2, NewJoin
<1>5. PICK x, y : x = OwnWire(d) /\ y = <<Port(o, a), Port(d, d)>>
  OBVIOUS
<1>6. Wired(x)' /\ Joins(y)'
  <2>1. OwnWire(d)' = OwnWire(d)
    BY DEF OwnWire, Phy, Port
  <2> QED BY <1>3, <1>4, <1>5, <2>1
<1>7. wires' = wires \cup {x} /\ joined' = joined \cup {y}
  BY <1>5 DEF AttachEnd
<1> QED BY <1>6, <1>7 DEF NewLinks

LEMMA LinksEnd ==
  ASSUME Types, Backed, Doing("end"), OpenEndDevice(Owner, Device)
  PROVE  NewLinks
<1>1. PICK o, d : o = Owner /\ d = Device
  OBVIOUS
<1>2. todo # <<>> /\ Head(todo) \in EndTask /\ Head(todo)[1] = "end"
  BY HeadFacts, TaskKinds DEF Types, Doing
<1>3. o \in Owners /\ d \in Devices
  BY <1>1, <1>2, KindFacts DEF EndTask, Owner, Device
<1>4. Port(o, d) \in ToSet(ports[o])
  BY <1>1, <1>2, BackHead DEF Back, Owner, Device
<1>5. ports' = ports /\ (UNCHANGED <<wires, joined>> \/ (d \in Disks /\ AttachEnd(o, d, Port(o, d))))
  BY <1>1 DEF OpenEndDevice
<1>6. CASE UNCHANGED <<wires, joined>>
  BY <1>6 DEF NewLinks
<1>7. CASE d \in Disks /\ AttachEnd(o, d, Port(o, d))
  BY <1>3, <1>4, <1>5, <1>7, LinksAttachEnd
<1> QED BY <1>5, <1>6, <1>7

LEMMA LinksDisk ==
  ASSUME Types, Doing("disk"), AttachSingle(Owner, Device, Argument)
  PROVE  NewLinks
<1>1. PICK o, d, h : o = Owner /\ d = Device /\ h = Argument
  OBVIOUS
<1>2. todo # <<>> /\ Head(todo) \in DiskTask
  BY HeadFacts, TaskKinds DEF Types, Doing
<1>3. o \in Owners /\ d \in Disks /\ h \in Devices
  BY <1>1, <1>2, KindFacts DEF DiskTask, Owner, Device, Argument
<1>4. ports' = [ports EXCEPT ![o] = Append(@, Port(o, h))]
  BY <1>1 DEF AttachSingle
<1>5. Port(o, h) \in ToSet(ports'[o])
  BY <1>3, <1>4, PortIn DEF Types
<1>6. UNCHANGED <<wires, joined>> \/ AttachEnd(o, d, Port(o, h))
  BY <1>1 DEF AttachSingle
<1>7. CASE UNCHANGED <<wires, joined>>
  BY <1>7 DEF NewLinks
<1>8. CASE AttachEnd(o, d, Port(o, h))
  BY <1>3, <1>5, <1>8, LinksAttachEnd
<1> QED BY <1>6, <1>7, <1>8

LEMMA LinksMember ==
  ASSUME Types, Doing("member"), AttachMember(Owner, Device)
  PROVE  NewLinks
<1>1. PICK m, d : m = Owner /\ d = Device
  OBVIOUS
<1>2. todo # <<>> /\ Head(todo) \in MemberTask
  BY HeadFacts, TaskKinds DEF Types, Doing
<1>3. m \in Owners /\ d \in Disks /\ d \in Devices /\ 1 \in 1 .. Lanes
  BY <1>1, <1>2, KindFacts, LanesAssumption DEF MemberTask, Owner, Device
<1>4. CASE UNCHANGED <<wires, joined>>
  BY <1>4 DEF NewLinks
<1>5. CASE ~UNCHANGED <<wires, joined>>
  <2>1. /\ phys' = [phys EXCEPT ![m] = Append(@, Phy(m, d, 1))]
        /\ ports' = [ports EXCEPT ![m] = Append(@, Port(m, d))]
        /\ wires' = wires \cup {<<Phy(m, d, 1), Port(m, d)>>, OwnWire(d)}
        /\ joined' = joined \cup {<<Port(m, d), Port(d, d)>>}
        /\ AttachEndDevice(m, d)
    BY <1>1, <1>5 DEF AttachMember
  <2>2. d \in ToSet(scope'[m].ends) /\ Port(m, d) \in ToSet(ports'[m]) /\ Phy(m, d, 1) \in ToSet(phys'[m])
    BY <1>3, <2>1, EndIn, PortIn, PhyIn DEF Types
  <2>3. Wired(<<Phy(m, d, 1), Port(m, d)>>)'
    BY <1>3, <2>2, NewWire
  <2>4. Wired(OwnWire(d))'
    BY <1>3, <2>2, NewDiskWire
  <2>5. Joins(<<Port(m, d), Port(d, d)>>)'
    BY <1>3, <2>2, NewJoin
  <2>6. PICK x, y, z : x = <<Phy(m, d, 1), Port(m, d)>> /\ y = OwnWire(d) /\ z = <<Port(m, d), Port(d, d)>>
    OBVIOUS
  <2>7. Wired(x)' /\ Wired(y)' /\ Joins(z)'
    <3>1. OwnWire(d)' = OwnWire(d)
      BY DEF OwnWire, Phy, Port
    <3> QED BY <2>3, <2>4, <2>5, <2>6, <3>1
  <2>8. wires' = wires \cup {x, y} /\ joined' = joined \cup {z}
    BY <2>1, <2>6
  <2> QED BY <2>7, <2>8 DEF NewLinks
<1> QED BY <1>4, <1>5

LEMMA LinksMultiplier ==
  ASSUME Types, Doing("multiplier"), AttachMultiplier(Owner, Device)
  PROVE  NewLinks
<1>1. PICK o, m : o = Owner /\ m = Device
  OBVIOUS
<1>2. todo # <<>> /\ Head(todo) \in MultiplierTask
  BY HeadFacts, TaskKinds DEF Types, Doing
<1>3. o \in Owners /\ m \in Routers /\ m \in Devices
  BY <1>1, <1>2, KindFacts DEF MultiplierTask, Owner, Device
<1>4. /\ ports' = [ports EXCEPT ![o] = Append(@, Port(o, m))] /\ wires' = wires
      /\ joined' = joined \cup {<<Port(o, m), Port(m, m)>>} /\ AttachRoutingDevice(o, m)
  BY <1>1 DEF AttachMultiplier
<1>5. Port(o, m) \in ToSet(ports'[o]) /\ m \in ToSet(scope'[o].routers)
  BY <1>3, <1>4, PortIn, RouterIn DEF Types
<1>6. Joins(<<Port(o, m), Port(m, m)>>)'
  BY <1>3, <1>5, NewJoin
<1>7. PICK x : x = <<Port(o, m), Port(m, m)>>
  OBVIOUS
<1>8. Joins(x)'
  BY <1>6, <1>7
<1> QED BY <1>4, <1>7, <1>8 DEF NewLinks

LEMMA LinksNvme ==
  ASSUME Types, Types', Doing("nvme"), ReadNvmeDriver(Owner, Device)
  PROVE  NewLinks
<1>1. PICK v, d : v = Owner /\ d = Device
  OBVIOUS
<1>2. todo # <<>> /\ Head(todo) \in NvmeTask
  BY HeadFacts, TaskKinds DEF Types, Doing
<1>3. v \in Owners /\ d \in Disks /\ d \in Devices /\ 1 \in 1 .. Lanes
  BY <1>1, <1>2, KindFacts, LanesAssumption DEF NvmeTask, Owner, Device
<1>4. joined' = joined
  BY DEF ReadNvmeDriver
<1>5. CASE wires' = wires
  BY <1>4, <1>5 DEF NewLinks
<1>6. CASE wires' # wires
  <2> DEFINE t == <<"disk", v, d, d>>
  <2>1. /\ phys' = [phys EXCEPT ![v] = Append(@, Phy(v, d, 1))]
        /\ wires' = wires \cup {<<Phy(v, d, 1), Port(v, d)>>}
        /\ Continue(<<t>>)
    BY <1>1, <1>6 DEF ReadNvmeDriver
  <2>2. Brings(t, v, d)
    BY DEF Brings
  <2> HIDE DEF t
  <2>3. PortDue(v, d)'
    <3>1. PICK k \in 1 .. Len(todo') : todo'[k] = t
      BY <1>2, <2>1, PushedOne
    <3> QED BY <2>2, <3>1 DEF PortDue, Brings
  <2>4. Phy(v, d, 1) \in ToSet(phys'[v])
    BY <1>3, <2>1, PhyIn DEF Types
  <2>5. Wired(<<Phy(v, d, 1), Port(v, d)>>)'
    BY <1>3, <2>3, <2>4, NewWire
  <2>6. PICK x : x = <<Phy(v, d, 1), Port(v, d)>>
    OBVIOUS
  <2>7. Wired(x)'
    BY <2>5, <2>6
  <2> QED BY <1>4, <2>1, <2>6, <2>7 DEF NewLinks
<1> QED BY <1>5, <1>6

LEMMA LinksStat ==
  ASSUME Types, Types', Doing("stat"), Owner \in Ahci, StatTargets(Owner, Device, Argument)
  PROVE  NewLinks
<1>1. PICK c, h, s : c = Owner /\ h = Device /\ s = Found(Argument)
  OBVIOUS
<1> DEFINE each == Each("member", h, s)
           multiplier == <<"multiplier", c, h>>
           last == <<multiplier>>
           disk == <<"disk", c, s[1], h>>
<1>2. todo # <<>> /\ Head(todo) \in AhciStat
  BY HeadFacts, TaskKinds, KindFacts DEF Types, Doing, VmdStat, Owner
<1>3. /\ c \in Owners /\ h \in Devices /\ 1 \in 1 .. Lanes /\ s \in Seq(Disks)
      /\ Len(s) > 1 => h \in Multipliers /\ each \in Seq(Task) /\ last \in Seq(Task)
  <2>1. /\ c \in Ahci /\ h \in Disks \cup Multipliers /\ s \in Seq(Disks)
        /\ Len(s) > 1 => h \in Multipliers /\ each \in Seq(Task) /\ last \in Seq(Task)
    BY <1>1, <1>2, TargetTasks DEF Owner, Device, Argument
  <2> HIDE DEF each, last
  <2>2. c \in Owners /\ h \in Devices
    BY <2>1, KindFacts
  <2>3. 1 \in 1 .. Lanes
    BY LanesAssumption
  <2> QED BY <2>1, <2>2, <2>3
<1>4. /\ phys' = [phys EXCEPT ![c] = Append(@, Phy(c, h, 1))] /\ joined' = joined
      /\ \/ wires' = wires
         \/ wires' = wires \cup {<<Phy(c, h, 1), Port(c, h)>>} /\ Continue(<<disk>>)
         \/ /\ Len(s) > 1 /\ wires' = wires \cup {<<Phy(c, h, 1), Port(c, h)>>, OwnWire(h)}
            /\ Continue(each \o last)
  BY <1>1 DEF StatTargets
<1>5. Brings(disk, c, h) /\ Brings(multiplier, c, h) /\ Lifts(multiplier, h)
  BY DEF Brings, Lifts
<1>6. Phy(c, h, 1) \in ToSet(phys'[c])
  BY <1>3, <1>4, PhyIn DEF Types
<1>7. PICK x, y : x = <<Phy(c, h, 1), Port(c, h)>> /\ y = OwnWire(h)
  OBVIOUS
<1>8. ASSUME PortDue(c, h)' PROVE Wired(x)'
  <2>1. Wired(<<Phy(c, h, 1), Port(c, h)>>)'
    BY <1>3, <1>6, <1>8, NewWire
  <2> QED BY <1>7, <2>1
<1> HIDE DEF disk, multiplier
<1>9. CASE wires' = wires
  BY <1>4, <1>9 DEF NewLinks
<1>10. CASE wires' = wires \cup {x} /\ Continue(<<disk>>)
  <2>1. PICK k \in 1 .. Len(todo') : todo'[k] = disk
    BY <1>2, <1>10, PushedOne
  <2>2. PortDue(c, h)'
    BY <1>5, <2>1 DEF PortDue, Brings
  <2> QED BY <1>4, <1>8, <1>10, <2>2 DEF NewLinks
<1>11. CASE Len(s) > 1 /\ wires' = wires \cup {x, y} /\ Continue(each \o last)
  <2> DEFINE tasks == each \o last
             n == Len(each) + 1
  <2>1. each \in Seq(Task) /\ multiplier \in Task
    <3>1. last \in Seq(Task) /\ Len(last) = 1 /\ last[1] = multiplier
      BY <1>3, <1>11
    <3> QED BY <1>3, <1>11, <3>1, ElementOfSeq
  <2> HIDE DEF each
  <2>2. tasks \in Seq(Task) /\ Len(each) \in Nat /\ Len(tasks) = n /\ tasks[n] = multiplier
    BY <2>1, JoinedLast
  <2>3. n \in 1 .. Len(tasks) /\ Continue(tasks)
    BY <1>11, <2>2
  <2> HIDE DEF tasks, n
  <2>4. PICK k \in 1 .. Len(todo') : todo'[k] = multiplier
    BY <1>2, <2>2, <2>3, PushedHas
  <2>5. PortDue(c, h)'
    BY <1>5, <2>4 DEF PortDue, Brings
  <2>6. Due(h)'
    BY <1>5, <2>4 DEF Due, Lifts
  <2>7. MultiplierWire(y)'
    BY <1>3, <1>7, <1>11, <2>6 DEF MultiplierWire, OwnWire, Phy, Port
  <2>8. Wired(y)'
    BY <2>7 DEF Wired
  <2> QED BY <1>4, <1>8, <1>11, <2>5, <2>8 DEF NewLinks
<1> QED BY <1>4, <1>7, <1>9, <1>10, <1>11

LEMMA LinkedNext ==
  ASSUME Types, Types', Seen, Up, Fixed, Escorted, Linked, [Next]_vars
  PROVE  Linked'
<1>1. Grows /\ Backed /\ Backed'
  BY GrowsNext, BackedNext DEF Linked
<1>2. ASSUME Live' PROVE NewLinks
  <2>1. ASSUME UNCHANGED <<wires, joined>> PROVE NewLinks
    BY <2>1 DEF NewLinks
  <2>2. ASSUME Doing("port"), DiscoverPort(Owner, Device) PROVE UNCHANGED <<wires, joined>>
    BY <1>2, <2>2 DEF DiscoverPort, wiring, Stop
  <2>3. ASSUME UNCHANGED vars PROVE UNCHANGED <<wires, joined>>
    BY <2>3 DEF vars, wiring
  <2>4. ASSUME NEW d \in Devices, Change(d) PROVE UNCHANGED <<wires, joined>>
    BY <2>4 DEF Change, wiring
  <2>5. ASSUME Opened PROVE UNCHANGED <<wires, joined>>
    BY <2>5 DEF Opened, wiring
  <2>6. ASSUME ListPhys(Owner) \/ ListPorts(Owner) \/ ReadDir(Owner, Device) \/ StatNvme(Owner, Argument) \/ AddToSession(Owner)
        PROVE  UNCHANGED <<wires, joined>>
    BY <2>6 DEF ListPhys, ListPorts, ReadDir, StatNvme, AddToSession, wiring
  <2> QED BY <1>1, <1>2, <2>1, <2>2, <2>3, <2>4, <2>5, <2>6, LinksPhy, LinksCreate, LinksAttach, LinksEnd, LinksDisk,
             LinksMember, LinksMultiplier, LinksNvme, LinksStat DEF Next
<1>3. AllWired'
  <2> SUFFICES ASSUME Live', NEW w \in wires' PROVE Wired(w)'
    BY DEF AllWired
  <2>1. PICK x : x = w
    OBVIOUS
  <2>2. CASE x \in wires
    <3>1. Wired(x)
      BY <2>2, LiveBefore DEF Linked, AllWired
    <3> QED BY <1>1, <2>1, <3>1, WiredStays
  <2>3. CASE x \notin wires
    BY <1>2, <2>1, <2>3 DEF NewLinks
  <2> QED BY <2>2, <2>3
<1>4. AllJoined'
  <2> SUFFICES ASSUME Live', NEW j \in joined' PROVE Joins(j)'
    BY DEF AllJoined
  <2>1. CASE j \in joined
    BY <1>1, <2>1, LiveBefore, JoinsStay DEF Linked, AllJoined
  <2>2. CASE j \notin joined
    BY <1>2, <2>2 DEF NewLinks
  <2> QED BY <2>1, <2>2
<1> QED BY <1>1, <1>3, <1>4 DEF Linked

LEMMA LinkedInit == Init => Linked
<1> SUFFICES ASSUME Init PROVE Linked
  OBVIOUS
<1>1. wires = {} /\ joined = {}
  BY DEF Init
<1> QED BY <1>1, BackedInit DEF Linked, AllWired, AllJoined

LEMMA LinksMean == Types /\ Up /\ Whole /\ Linked => LinksRegistered
<1> SUFFICES ASSUME Types, Up, Whole, Linked, status = "open", NEW link \in wires \cup joined
             PROVE  link[1] \in Registered /\ link[2] \in Registered
  BY DEF LinksRegistered
<1>1. Live /\ 1 .. Len(todo) = {}
  BY DEF Live, Whole
<1>2. (\A o, d : ~PortDue(o, d)) /\ \A d : ~Due(d)
  BY <1>1 DEF PortDue, Due
<1>3. \A o \in Owners : ToSet(phys[o]) \subseteq Registered /\ ToSet(ports[o]) \subseteq Registered
  BY DEF Whole
<1>4. \A o \in Owners : \A r \in ToSet(scope[o].routers) :
        r \in Registered /\ Port(r, r) \in Registered /\ (r \in Multipliers => Phy(r, r, 1) \in Registered)
  BY DEF Whole
<1>5. ASSUME NEW o \in Owners, NEW d \in ToSet(scope[o].ends)
      PROVE  Phy(d, d, 1) \in Registered /\ Port(d, d) \in Registered
  <2>1. d \in Disks
    BY ScopeFacts DEF Types
  <2>2. ToSet(EndListed(d)) \subseteq Registered
    BY DEF Whole
  <2> QED BY <2>1, <2>2, EndPiece
<1>6. ASSUME ListWire(link) PROVE link[1] \in Registered /\ link[2] \in Registered
  <2>1. PICK o \in Owners, d \in Devices, n \in 1 .. Lanes :
          /\ link = <<Phy(o, d, n), Port(o, d)>> /\ Phy(o, d, n) \in ToSet(phys[o])
          /\ Port(o, d) \in ToSet(ports[o]) \/ (o = d /\ o \in subtractive) \/ PortDue(o, d)
    BY <1>6 DEF ListWire
  <2>2. link[1] = Phy(o, d, n) /\ link[2] = Port(o, d)
    BY <2>1
  <2>3. Phy(o, d, n) \in Registered
    BY <1>3, <2>1
  <2>4. Port(o, d) \in Registered
    <3>1. CASE Port(o, d) \in ToSet(ports[o])
      BY <1>3, <3>1
    <3>2. CASE o = d /\ o \in subtractive
      <4>1. o \in Routers
        BY <3>2 DEF Types, WiringType
      <4>2. Touched(o)
        BY <2>1 DEF Touched
      <4>3. Port(o, o) \in Registered
        BY <2>1, <4>1, <4>2 DEF Whole
      <4> QED BY <3>2, <4>3
    <3> QED BY <1>2, <2>1, <3>1, <3>2
  <2> QED BY <2>2, <2>3, <2>4
<1>7. ASSUME NEW d, link = OwnWire(d), Phy(d, d, 1) \in Registered, Port(d, d) \in Registered
      PROVE  link[1] \in Registered /\ link[2] \in Registered
  <2>1. link[1] = Phy(d, d, 1) /\ link[2] = Port(d, d)
    BY <1>7 DEF OwnWire
  <2> QED BY <1>7, <2>1
<1>8. ASSUME DiskWire(link) PROVE link[1] \in Registered /\ link[2] \in Registered
  BY <1>5, <1>7, <1>8 DEF DiskWire
<1>9. ASSUME MultiplierWire(link) PROVE link[1] \in Registered /\ link[2] \in Registered
  <2>1. PICK d \in Multipliers : link = OwnWire(d) /\ Attached(d)
    BY <1>2, <1>9 DEF MultiplierWire
  <2>2. Phy(d, d, 1) \in Registered /\ Port(d, d) \in Registered
    BY <1>4, <2>1 DEF Attached
  <2> QED BY <1>7, <2>1, <2>2
<1>10. CASE link \in wires
  BY <1>1, <1>6, <1>8, <1>9, <1>10 DEF Linked, AllWired, Wired
<1>11. CASE link \in joined
  <2>1. PICK o \in Owners, a \in Devices, d \in Devices :
          /\ link = <<Port(o, a), Port(d, d)>> /\ Port(o, a) \in ToSet(ports[o])
          /\ d \in ToSet(scope[o].ends) \cup ToSet(scope[o].routers)
    BY <1>1, <1>11 DEF Linked, AllJoined, Joins
  <2>2. link[1] = Port(o, a) /\ link[2] = Port(d, d)
    BY <2>1
  <2> QED BY <1>3, <1>4, <1>5, <2>1, <2>2
<1> QED BY <1>10, <1>11

(* What a registered phy or port is linked to is registered too (the        *)
(* links of AHCI_Phy::discover, ISCI_Phy::discover and Port::attachPort,    *)
(* the addToSession of every class), whatever is plugged or unplugged.      *)
THEOREM LinksFollow == Spec => []LinksRegistered
<1>1. Init => Linked
  BY LinkedInit
<1>2. Types /\ Types' /\ Seen /\ Up /\ Carries /\ Linked /\ [Next]_vars => Linked'
  BY LinkedNext DEF Carries
<1>3. Types /\ Up /\ Whole /\ Linked => LinksRegistered
  BY LinksMean
<1> QED BY <1>1, <1>2, <1>3, TypesHold, SeenHolds, UpHolds, CarriesHolds, PTL DEF Spec

-----------------------------------------------------------------------------
(* The devices that are to be reported, and the tasks they are left to      *)

(* x is read in the Directory that d is.                                    *)
Beside(x, d) ==
  \/ d \in Multipliers /\ At[x] = d
  \/ d \in Disks /\ At[d] \in Vmd \cup Multipliers /\ At[x] = At[d]
Sure(d) ==
  /\ d \in Firm
  /\ d \in Ses => At[d] \in Expanders
  /\ \A x \in Devices : Beside(x, d) => x \notin Unplugged
  /\ d \in Multipliers => \E x, y \in Firm : x # y /\ At[x] = d /\ At[y] = d
Wanted == {d \in Devices : Sure(d)}

LEMMA WantedIs ==
  ASSUME NEW d \in Devices, Stable(d), Reportable(d)
  PROVE  d \in Wanted
<1>1. d \in Firm
  BY DEF Firm
<1>2. ASSUME NEW x \in Devices, Beside(x, d) PROVE x \notin Unplugged
  <2>1. x \in ListedTogether(d)
    <3>1. CASE d \in Multipliers /\ At[x] = d
      BY <3>1, PluggedFacts DEF ListedTogether
    <3>2. CASE d \in Disks /\ At[d] \in Vmd \cup Multipliers /\ At[x] = At[d]
      <4>1. d \notin Multipliers
        BY <3>2, KindFacts
      <4>2. ListedTogether(d) = ToSet(Plugged(At[d]))
        BY <3>2, <4>1 DEF ListedTogether
      <4>3. ToSet(Plugged(At[d])) = {y \in Devices : At[y] = At[d]}
        BY PluggedFacts
      <4> QED BY <3>2, <4>2, <4>3
    <3> QED BY <1>2, <3>1, <3>2 DEF Beside
  <2> QED BY <2>1 DEF Reportable
<1>3. ASSUME d \in Multipliers PROVE \E x, y \in Firm : x # y /\ At[x] = d /\ At[y] = d
  <2> DEFINE S == {x \in ToSet(Plugged(d)) : Stable(x)}
  <2>1. Cardinality(S) > 1
    BY <1>3 DEF Reportable
  <2>2. \A x \in S : x \in Firm /\ At[x] = d
    BY PluggedFacts DEF Firm
  <2> HIDE DEF S
  <2>3. S # {}
    BY <2>1, FS_EmptySet
  <2>4. PICK x \in S : TRUE
    BY <2>3
  <2>5. S # {x}
    BY <2>1, FS_Singleton
  <2>6. PICK y \in S : y # x
    BY <2>4, <2>5
  <2> QED BY <2>2, <2>4, <2>6
<1>4. d \in Ses => At[d] \in Expanders
  BY DEF Reportable
<1> QED BY <1>1, <1>2, <1>3, <1>4 DEF Wanted, Sure

LEMMA WantedShrinks ==
  ASSUME Types, Types', [Next]_vars
  PROVE  Wanted' \subseteq Wanted
<1> SUFFICES ASSUME NEW d \in Devices, Sure(d)' PROVE Sure(d)
  BY DEF Wanted
<1>1. Firm' \subseteq Firm /\ Unplugged \subseteq Unplugged'
  BY FirmShrinks
<1> QED BY <1>1 DEF Sure, Beside

Held(d) ==
  \/ \E o \in Owners : d \in ToSet(scope[o].ends) \cup ToSet(scope[o].routers)
  \/ \E c \in Controllers : d \in ToSet(enclosures[c])
(* The devices a task will see attached, if they are there                  *)
Pledges(t) == IF t[1] = "disk" THEN {t[3]} ELSE Claims(t)
Pledged(d) == \E i \in 1 .. Len(todo) : d \in Pledges(todo[i])
Covered == Live => \A d \in Wanted : Held(d) \/ Pledged(d)

(* The ports of an owner are listed when the phys that find those of what   *)
(* is there all the time have been read.                                    *)
Reads(t, x) == t[1] \in {"phy", "create"} /\ t[2] = At[x] /\ t[3] = x
Listens(x) == Port(At[x], x) \in ToSet(ports[At[x]])
PortsKnown ==
  \A i \in 1 .. Len(todo) : todo[i][1] = "ports" =>
    \A x \in Firm : At[x] = todo[i][2] => Listens(x) \/ \E j \in 1 .. i - 1 : Reads(todo[j], x)

(* What the task that is done had pledged is attached or is left to others, *)
(* and the port it was to find is there or is left to another.              *)
Passes(tasks) ==
  \A d \in Wanted' : d \in Pledges(Head(todo)) => Held(d)' \/ \E i \in 1 .. Len(tasks) : d \in Pledges(tasks[i])
Orders(tasks) ==
  /\ \A k \in 1 .. Len(tasks) : tasks[k][1] = "ports" =>
       \A x \in Firm : At[x] = tasks[k][2] => \E j \in 1 .. k - 1 : Reads(tasks[j], x)
  /\ \A x \in Firm : Reads(Head(todo), x) => Listens(x)' \/ (1 \in 1 .. Len(tasks) /\ Reads(tasks[1], x))
Honours == \E tasks \in Seq(Task) : Push(tasks) /\ Passes(tasks) /\ Orders(tasks)

LEMMA EnclosuresGrow ==
  ASSUME Types, Types', Seen, Up, [Next]_vars
  PROVE  \A c \in Controllers : ToSet(enclosures[c]) \subseteq ToSet(enclosures'[c])
<1>1. CASE enclosures' = enclosures
  BY <1>1
<1>2. CASE enclosures' # enclosures
  <2>1. Takes
    <3>1. CASE Calm \/ Stops \/ Adds
      BY <1>2, <3>1 DEF Calm, Stops, Stop, Adds, AddToSession, boxes
    <3>2. CASE Works
      BY <1>2, <3>2 DEF Works, Moved, BoxesKept
    <3> QED BY <3>1, <3>2, StepKinds
  <2>2. enclosures \in [Controllers -> Seq(Ses)]
    BY DEF Types, BoxesType
  <2>3. PICK k, s : enclosures' = [enclosures EXCEPT ![k] = Append(@, s)]
    BY <1>2, <2>1 DEF Takes, TakeEnclosure
  <2> SUFFICES ASSUME NEW c \in Controllers PROVE ToSet(enclosures[c]) \subseteq ToSet(enclosures'[c])
    OBVIOUS
  <2>4. CASE c = k
    <3>1. enclosures'[c] = Append(enclosures[c], s) /\ enclosures[c] \in Seq(Ses)
      BY <2>2, <2>3, <2>4
    <3> QED BY <3>1, AppendGrows
  <2>5. CASE c # k
    BY <2>2, <2>3, <2>5
  <2> QED BY <2>4, <2>5
<1> QED BY <1>1, <1>2

LEMMA HeldStays ==
  ASSUME Types, Types', Seen, Up, Fixed, [Next]_vars, NEW d, Held(d)
  PROVE  Held(d)'
<1>1. Grows
  BY GrowsNext
<1>2. \A c \in Controllers : ToSet(enclosures[c]) \subseteq ToSet(enclosures'[c])
  BY EnclosuresGrow
<1> QED BY <1>1, <1>2 DEF Held, Grows

LEMMA CoveredPush ==
  ASSUME Types, Types', Seen, Up, Fixed, [Next]_vars, Covered, Live, todo # <<>>,
         NEW tasks \in Seq(Task), Push(tasks), Passes(tasks)
  PROVE  Covered'
<1> SUFFICES ASSUME NEW d \in Wanted' PROVE Held(d)' \/ Pledged(d)'
  BY DEF Covered
<1>1. Held(d) \/ Pledged(d)
  BY WantedShrinks DEF Covered
<1>2. CASE Held(d)
  BY <1>2, HeldStays
<1>3. ASSUME NEW k \in 1 .. Len(todo'), NEW t, todo'[k] = t, d \in Pledges(t) PROVE Pledged(d)'
  BY <1>3 DEF Pledged, Pledges, Claims, Sub, Under, Leads
<1>4. CASE Pledged(d)
  <2>1. PICK i \in 1 .. Len(todo) : d \in Pledges(todo[i])
    BY <1>4 DEF Pledged
  <2>2. PICK t : t = todo[i]
    OBVIOUS
  <2>3. CASE i = 1
    <3>1. t = Head(todo)
      BY <2>2, <2>3, HeadOfTodo
    <3>2. Held(d)' \/ \E j \in 1 .. Len(tasks) : d \in Pledges(tasks[j])
      BY <2>1, <2>2, <3>1 DEF Passes
    <3>3. ASSUME NEW j \in 1 .. Len(tasks), d \in Pledges(tasks[j]) PROVE Pledged(d)'
      <4>1. j \in 1 .. Len(todo') /\ todo'[j] = tasks[j]
        BY StackFacts DEF Types
      <4> QED BY <1>3, <3>3, <4>1
    <3> QED BY <3>2, <3>3
  <2>4. CASE i # 1
    <3>1. i \in 2 .. Len(todo)
      BY <2>4 DEF Types, TodoType
    <3>2. i + Len(tasks) - 1 \in 1 .. Len(todo') /\ todo'[i + Len(tasks) - 1] = t
      BY <2>2, <3>1, StackFacts DEF Types
    <3> QED BY <1>3, <2>1, <2>2, <3>2
  <2> QED BY <2>3, <2>4
<1> QED BY <1>1, <1>2, <1>4

LEMMA ListensStays ==
  ASSUME Types, Types', Fixed, [Next]_vars, NEW x \in Devices, Listens(x)
  PROVE  Listens(x)'
<1>1. Grows /\ At[x] \in Owners
  BY GrowsNext, AtFacts
<1> QED BY <1>1 DEF Listens, Grows, Port

LEMMA KnownPush ==
  ASSUME Types, Types', Fixed, [Next]_vars, PortsKnown, todo # <<>>, NEW tasks \in Seq(Task), Push(tasks), Orders(tasks)
  PROVE  PortsKnown'
<1> DEFINE n == Len(tasks)
<1>1. /\ n \in Nat /\ Len(todo) \in Nat /\ Len(todo') \in Nat
      /\ \A i \in 1 .. n : i \in 1 .. Len(todo') /\ todo'[i] = tasks[i]
      /\ \A i \in 2 .. Len(todo) : i + n - 1 \in 1 .. Len(todo') /\ todo'[i + n - 1] = todo[i]
      /\ \A k \in 1 .. Len(todo') : k \in 1 .. n \/ \E i \in 2 .. Len(todo) : k = i + n - 1
      /\ todo[1] = Head(todo) /\ 1 \in 1 .. Len(todo)
  BY StackFacts DEF Types
<1>2. n = Len(tasks)
  OBVIOUS
<1> HIDE DEF n
<1> SUFFICES ASSUME NEW k \in 1 .. Len(todo'), todo'[k][1] = "ports", NEW x \in Firm', At[x] = todo'[k][2]
             PROVE  Listens(x)' \/ \E j \in 1 .. k - 1 : Reads(todo'[j], x)
  BY DEF PortsKnown, Reads
<1>3. x \in Firm /\ x \in Devices
  BY FirmShrinks, FirmThere
<1>4. CASE k \in 1 .. n
  <2>1. todo'[k] = tasks[k]
    BY <1>1, <1>4
  <2>2. PICK j \in 1 .. k - 1 : Reads(tasks[j], x)
    BY <1>2, <1>3, <1>4, <2>1 DEF Orders
  <2>3. j \in 1 .. n
    BY <1>1, <1>4
  <2> QED BY <1>1, <2>2, <2>3
<1>5. CASE k \notin 1 .. n
  <2>1. PICK i \in 2 .. Len(todo) : k = i + n - 1
    BY <1>1, <1>5
  <2>2. todo'[k] = todo[i] /\ i \in 1 .. Len(todo)
    BY <1>1, <2>1
  <2>3. Listens(x) \/ \E j \in 1 .. i - 1 : Reads(todo[j], x)
    BY <1>3, <2>2 DEF PortsKnown
  <2>4. CASE Listens(x)
    BY <1>3, <2>4, ListensStays
  <2>5. ASSUME NEW j \in 1 .. i - 1, Reads(todo[j], x), j # 1 PROVE \E b \in 1 .. k - 1 : Reads(todo'[b], x)
    <3>1. j \in 2 .. Len(todo) /\ j + n - 1 \in 1 .. k - 1
      BY <1>1, <2>1, <2>5
    <3>2. todo'[j + n - 1] = todo[j]
      BY <1>1, <3>1
    <3> QED BY <2>5, <3>1, <3>2
  <2>6. ASSUME Reads(todo[1], x) PROVE Listens(x)' \/ \E b \in 1 .. k - 1 : Reads(todo'[b], x)
    <3>1. Listens(x)' \/ (1 \in 1 .. n /\ Reads(tasks[1], x))
      BY <1>1, <1>2, <1>3, <2>6 DEF Orders
    <3>2. ASSUME 1 \in 1 .. n PROVE 1 \in 1 .. k - 1 /\ todo'[1] = tasks[1]
      BY <1>1, <2>1, <3>2
    <3> QED BY <3>1, <3>2
  <2> QED BY <2>3, <2>4, <2>5, <2>6
<1> QED BY <1>4, <1>5

LEMMA KnownSame ==
  ASSUME Types, Types', Fixed, [Next]_vars, PortsKnown, todo' = todo
  PROVE  PortsKnown'
<1> SUFFICES ASSUME NEW k \in 1 .. Len(todo), todo[k][1] = "ports", NEW x \in Firm', At[x] = todo[k][2]
             PROVE  Listens(x)' \/ \E j \in 1 .. k - 1 : Reads(todo[j], x)
  BY DEF PortsKnown, Reads
<1>1. x \in Firm /\ x \in Devices
  BY FirmShrinks, FirmThere
<1>2. Listens(x) \/ \E j \in 1 .. k - 1 : Reads(todo[j], x)
  BY <1>1 DEF PortsKnown
<1> QED BY <1>1, <1>2, ListensStays

LEMMA CoveredSame ==
  ASSUME Types, Types', Seen, Up, Fixed, [Next]_vars, Covered, todo' = todo
  PROVE  Covered'
<1> SUFFICES ASSUME Live', NEW d \in Wanted' PROVE Held(d)' \/ Pledged(d)'
  BY DEF Covered
<1>1. Held(d) \/ Pledged(d)
  BY WantedShrinks, LiveBefore DEF Covered
<1>2. CASE Pledged(d)
  <2>1. PICK i \in 1 .. Len(todo) : d \in Pledges(todo[i])
    BY <1>2 DEF Pledged
  <2>2. PICK t : t = todo[i]
    OBVIOUS
  <2> QED BY <2>1, <2>2 DEF Pledged, Pledges, Claims, Sub, Under, Leads
<1> QED BY <1>1, <1>2, HeldStays

LEMMA HonoursNone ==
  ASSUME Push(<<>>), \A d \in Wanted' : d \in Pledges(Head(todo)) => Held(d)',
         \A x \in Firm : Reads(Head(todo), x) => Listens(x)'
  PROVE  Honours
<1> DEFINE none == <<>>
<1>1. none \in Seq(Task) /\ Push(none) /\ 1 .. Len(none) = {}
  OBVIOUS
<1> HIDE DEF none
<1>2. Passes(none) /\ Orders(none)
  BY <1>1 DEF Passes, Orders
<1> QED BY <1>1, <1>2 DEF Honours

LEMMA HonoursSome ==
  ASSUME NEW T \in SUBSET Task, NEW tasks \in Seq(T), Continue(tasks), \A t \in T : t[1] # "ports",
         Head(todo)[1] \notin {"phy", "create"}, Passes(tasks)
  PROVE  Honours
<1>1. tasks \in Seq(Task) /\ \A i \in 1 .. Len(tasks) : tasks[i] \in T
  BY SeqMonotonic, ElementOfSeq
<1>2. Push(tasks)
  BY DEF Continue, Push
<1>3. Orders(tasks)
  BY <1>1 DEF Orders, Reads
<1> QED BY <1>1, <1>2, <1>3 DEF Honours

LEMMA HonoursOne ==
  ASSUME Types, Types', todo # <<>>, NEW t, Continue(<<t>>), t[1] # "ports",
         \A d \in Wanted' : d \in Pledges(Head(todo)) => Held(d)' \/ d \in Pledges(t),
         \A x \in Firm : Reads(Head(todo), x) => Reads(t, x)
  PROVE  Honours
<1> DEFINE tasks == <<t>>
<1>1. t \in Task
  <2>1. todo' = <<t>> \o Tail(todo) /\ Tail(todo) \in Seq(Task) /\ todo' \in Seq(Task)
    BY DEF Continue, Types, TodoType
  <2>2. 1 \in 1 .. Len(todo') /\ todo'[1] = t
    BY <2>1
  <2> QED BY <2>1, <2>2, ElementOfSeq
<1>2. tasks \in Seq(Task) /\ 1 \in 1 .. Len(tasks) /\ \A i \in 1 .. Len(tasks) : tasks[i] = t
  BY <1>1
<1>3. Push(tasks)
  BY DEF Continue, Push
<1>4. tasks[1] = t
  BY <1>2
<1> HIDE DEF tasks
<1>5. Orders(tasks)
  BY <1>2, <1>4 DEF Orders
<1>6. Passes(tasks)
  <2> SUFFICES ASSUME NEW d \in Wanted', d \in Pledges(Head(todo))
               PROVE  Held(d)' \/ \E i \in 1 .. Len(tasks) : d \in Pledges(tasks[i])
    BY DEF Passes
  <2>1. Held(d)' \/ d \in Pledges(tasks[1])
    BY <1>4
  <2> QED BY <1>2, <2>1
<1> QED BY <1>2, <1>3, <1>5, <1>6 DEF Honours

LEMMA NoneRead ==
  ASSUME Head(todo)[1] \notin {"phy", "create"}
  PROVE  \A x : ~Reads(Head(todo), x)
BY DEF Reads

LEMMA PledgesAre ==
  ASSUME NEW t
  PROVE  /\ t[1] = "disk" => Pledges(t) = {t[3]}
         /\ t[1] # "disk" => Pledges(t) = Claims(t)
BY DEF Pledges

(* What is wanted is there, and all that leads to it.                       *)
LEMMA WantedThere ==
  ASSUME Types, NEW d \in Wanted
  PROVE  /\ d \in Devices /\ d \in Firm /\ Present(d) /\ d \in There
         /\ \A o \in Devices : d \in Sub(o) => o \in Firm /\ Present(o) /\ o \in There
<1>1. d \in Devices /\ d \in Firm
  BY DEF Wanted, Sure
<1>2. ASSUME NEW o \in Devices, d \in Sub(o) PROVE o \in Firm
  BY <1>1, <1>2, FirmAbove DEF Sub
<1>3. \A o \in Firm : o \in There /\ Present(o)
  BY FirmThere DEF There
<1> QED BY <1>1, <1>2, <1>3

-----------------------------------------------------------------------------
(* Each task honours its pledges                                            *)
LEMMA FoundAll ==
  ASSUME Types, NEW s, ToSet(s) \subseteq Reached,
         \A x \in ToSet(s) : x \notin Unplugged /\ (At[x] \in Controllers \/ At[x] \in There)
  PROVE  Found(s) = s
<1>1. plugged \subseteq Devices /\ changed \subseteq Devices
  BY DEF Types, CablingType
<1>2. ASSUME NEW x \in ToSet(s) PROVE Present(x)
  <2>1. x \in plugged
    BY <1>1, <1>2, ReachedFacts DEF Unplugged
  <2>2. x \in There
    BY <1>1, <2>1, ThereRule
  <2> QED BY <2>2 DEF There
<1> QED BY <1>2 DEF Found

LEMMA PhysReach ==
  ASSUME NEW o \in Hosts, NEW x \in Devices, At[x] = o
  PROVE  \E j \in 1 .. Len(PhysOf(o)) : PhysOf(o)[j] = Phy(o, x, 1)
<1> DEFINE up == IF o \in Expanders THEN PhysTo(o, o) ELSE <<>>
           each == [i \in DOMAIN Plugged(o) |-> PhysTo(o, Plugged(o)[i])]
<1>1. PhysOf(o) = up \o FlattenSeq(each)
  BY DEF PhysOf
<1>2. up \in Seq(OwnPhy(o))
  <2>1. CASE o \in Expanders
    <3>1. o \in Far(o)
      BY <2>1 DEF Far
    <3> QED BY <2>1, <3>1, PhysToFacts
  <2>2. CASE o \notin Expanders
    BY <2>2
  <2> QED BY <2>1, <2>2
<1>3. DOMAIN Plugged(o) = 1 .. Len(Plugged(o)) /\ Len(Plugged(o)) \in Nat
  BY PluggedFacts
<1>4. \A i \in DOMAIN Plugged(o) : Plugged(o)[i] \in Far(o)
  <2> DEFINE D == {d \in Devices : At[d] = o}
  <2>1. Plugged(o) \in Seq(D)
    BY PluggedFacts
  <2>2. D \subseteq Far(o)
    BY DEF Far
  <2> HIDE DEF D
  <2> QED BY <2>1, <2>2
<1>5. each \in Seq(Seq(OwnPhy(o)))
  <2>1. \A i \in DOMAIN Plugged(o) : PhysTo(o, Plugged(o)[i]) \in Seq(OwnPhy(o))
    BY <1>4, PhysToFacts
  <2> QED BY <1>3, <2>1
<1>6. PICK i \in 1 .. Len(Plugged(o)) : Plugged(o)[i] = x
  <2> DEFINE D == {d \in Devices : At[d] = o}
  <2>1. Plugged(o) \in Seq(D) /\ x \in ToSet(Plugged(o))
    BY PluggedFacts
  <2> HIDE DEF D
  <2> QED BY <2>1, Elements
<1>7. i \in 1 .. Len(each) /\ each[i] = PhysTo(o, x)
  BY <1>3, <1>6
<1>8. x \in Far(o)
  BY DEF Far
<1>9. Phy(o, x, 1) \in ToSet(PhysTo(o, x))
  <2>1. PhysTo(o, x) \in Seq(OwnPhy(o)) /\ Len(PhysTo(o, x)) >= 1 /\ PhysTo(o, x)[1] = Phy(o, x, 1)
    BY <1>8, PhysToFacts
  <2>2. Len(PhysTo(o, x)) \in Nat
    BY <2>1
  <2>3. 1 \in 1 .. Len(PhysTo(o, x))
    BY <2>1, <2>2
  <2> QED BY <2>1, <2>3, Elements
<1> HIDE DEF each, up
<1>10. Phy(o, x, 1) \in ToSet(PhysOf(o)) /\ PhysOf(o) \in Seq(OwnPhy(o))
  <2>1. FlattenSeq(each) \in Seq(OwnPhy(o)) /\ Phy(o, x, 1) \in ToSet(FlattenSeq(each))
    BY <1>5, <1>7, <1>9, FlattenFacts
  <2> QED BY <1>1, <1>2, <2>1, Joined
<1> QED BY <1>10, Elements

LEMMA HonoursList ==
  ASSUME Types, Types', [Next]_vars, Doing("list"), ListPhys(Owner)
  PROVE  Honours
<1>1. PICK o : o = Owner
  OBVIOUS
<1> DEFINE last == <<"ports", o>>
           tasks == PhysOf(o) \o <<last>>
           n == Len(PhysOf(o)) + 1
<1>2. Head(todo) \in ListTask /\ Head(todo)[1] = "list" /\ Head(todo)[2] = o
  BY <1>1, HeadFacts, TaskKinds DEF Types, Owner, Doing
<1>3. o \in Hosts
  BY <1>2 DEF ListTask
<1>4. Pledges(Head(todo)) = Under(o) /\ Pledges(last) = Under(o)
  BY <1>2, PledgesAre, ClaimsAre
<1>5. CASE Continue(tasks)
  <2>1. OwnPhy(o) \subseteq Task /\ last \in Task /\ last[1] = "ports" /\ last[2] = o
    BY <1>3, TaskSets DEF OwnPhy, ListTask
  <2> HIDE DEF last
  <2>2. PhysOf(o) \in Seq(OwnPhy(o)) /\ PhysOf(o) \in Seq(Task)
    BY <1>3, <2>1, PhysOfFacts, SeqMonotonic
  <2>3. /\ tasks \in Seq(Task) /\ Len(PhysOf(o)) \in Nat /\ Len(tasks) = n
        /\ \A i \in 1 .. Len(PhysOf(o)) : tasks[i] = PhysOf(o)[i]
        /\ tasks[n] = last
    BY <2>1, <2>2, JoinedLast
  <2>4. n \in 1 .. Len(tasks) /\ \A i \in 1 .. Len(tasks) : i = n \/ i \in 1 .. Len(PhysOf(o))
    BY <2>3
  <2>5. \A i \in 1 .. Len(PhysOf(o)) : PhysOf(o)[i][1] = "phy"
    <3>1. \A i \in 1 .. Len(PhysOf(o)) : PhysOf(o)[i] \in OwnPhy(o)
      BY <2>2, ElementOfSeq
    <3> QED BY <3>1 DEF OwnPhy
  <2>6. n - 1 = Len(PhysOf(o))
    BY <2>3
  <2>7. Push(tasks)
    BY <1>5 DEF Continue, Push
  <2> HIDE DEF tasks, n
  <2>8. Passes(tasks)
    BY <1>4, <2>3, <2>4 DEF Passes
  <2>9. Orders(tasks)
    <3>1. ASSUME NEW k \in 1 .. Len(tasks), tasks[k][1] = "ports", NEW x \in Firm, At[x] = tasks[k][2]
          PROVE  \E j \in 1 .. k - 1 : Reads(tasks[j], x)
      <4>1. k = n
        BY <2>3, <2>4, <2>5, <3>1
      <4>2. At[x] = o /\ x \in Devices
        BY <2>1, <2>3, <3>1, <4>1, FirmThere
      <4>3. PICK j \in 1 .. Len(PhysOf(o)) : PhysOf(o)[j] = Phy(o, x, 1)
        BY <1>3, <4>2, PhysReach
      <4>4. Reads(Phy(o, x, 1), x)
        BY <4>2 DEF Reads, Phy
      <4> QED BY <2>3, <2>6, <4>1, <4>3, <4>4
    <3>2. \A x : ~Reads(Head(todo), x)
      BY <1>2, NoneRead
    <3> QED BY <3>1, <3>2 DEF Orders
  <2> QED BY <2>3, <2>7, <2>8, <2>9 DEF Honours
<1>6. CASE ~Continue(tasks)
  <2>1. Continue(<<>>) /\ o \notin Isci /\ ~Present(o)
    BY <1>1, <1>6 DEF ListPhys
  <2>2. o \in Devices
    BY <1>3, <2>1, KindFacts DEF Hosts
  <2>3. \A d \in Wanted' : d \notin Under(o)
    <3> SUFFICES ASSUME NEW d \in Wanted', d \in Under(o) PROVE FALSE
      OBVIOUS
    <3>1. d \in Wanted /\ d \in Sub(o)
      BY WantedShrinks DEF Sub
    <3> QED BY <2>1, <2>2, <3>1, WantedThere
  <2>4. \A x : ~Reads(Head(todo), x)
    BY <1>2, NoneRead
  <2> QED BY <1>4, <2>1, <2>3, <2>4, HonoursNone, PushNone
<1> QED BY <1>5, <1>6

LEMMA HonoursPhy ==
  ASSUME Types, Types', Doing("phy"), ReadPhy(Owner, Device, Argument)
  PROVE  Honours
<1>1. PICK o, d, n : o = Owner /\ d = Device /\ n = Argument
  OBVIOUS
<1>2. todo # <<>> /\ Head(todo) \in PhyTask /\ Head(todo)[1] = "phy" /\ Head(todo)[2] = o /\ Head(todo)[3] = d
  BY <1>1, HeadFacts, TaskKinds DEF Types, Doing, Owner, Device
<1>3. o \in Hosts /\ o \in Owners /\ d \in Devices /\ Port(o, d) \in Objects
  BY <1>2, PhyTaskFacts, KindFacts
<1>4. Pledges(Head(todo)) = {}
  BY <1>2, PledgesAre, ClaimsAre
<1>5. ASSUME NEW x \in Firm, Reads(Head(todo), x) PROVE x = d /\ At[d] = o /\ o # d /\ Present(d)
  <2>1. x = d /\ At[d] = o
    BY <1>2, <1>5 DEF Reads
  <2>2. o # d
    BY <1>3, <2>1, AboveItself DEF Sub
  <2> QED BY <1>5, <2>1, <2>2, FirmThere DEF There
<1>6. PICK t : t = <<"create", o, d, n>>
  OBVIOUS
<1>7. CASE Continue(<<t>>)
  <2>1. t[1] # "ports" /\ \A x \in Firm : Reads(Head(todo), x) => Reads(t, x)
    BY <1>2, <1>6 DEF Reads
  <2> QED BY <1>2, <1>4, <1>7, <2>1, HonoursOne
<1>8. CASE ~Continue(<<t>>)
  <2>1. /\ Continue(<<>>)
        /\ Present(d) => ports' = IF KnownPort(o, d) THEN ports ELSE [ports EXCEPT ![o] = Append(@, Port(o, d))]
    BY <1>1, <1>6, <1>8 DEF ReadPhy
  <2>2. ASSUME NEW x \in Firm, Reads(Head(todo), x) PROVE Listens(x)'
    <3>1. x = d /\ At[d] = o /\ o # d /\ Present(d)
      BY <1>5, <2>2
    <3>2. Port(o, d) \in ToSet(ports'[o])
      <4>1. CASE KnownPort(o, d)
        BY <2>1, <3>1, <4>1 DEF KnownPort
      <4>2. CASE ~KnownPort(o, d)
        BY <1>3, <2>1, <3>1, <4>2, PortIn DEF Types
      <4> QED BY <4>1, <4>2
    <3> QED BY <3>1, <3>2 DEF Listens, Port
  <2> QED BY <1>4, <2>1, <2>2, HonoursNone, PushNone
<1> QED BY <1>7, <1>8

LEMMA HonoursCreate ==
  ASSUME Types, Doing("create"), CreatePort(Owner, Device, Argument)
  PROVE  Honours
<1>1. PICK o, d : o = Owner /\ d = Device
  OBVIOUS
<1>2. Head(todo) \in PhyTask /\ Head(todo)[1] = "create" /\ Head(todo)[2] = o /\ Head(todo)[3] = d
  BY <1>1, HeadFacts, TaskKinds DEF Types, Doing, Owner, Device
<1>3. o \in Owners /\ d \in Devices
  BY <1>2, PhyTaskFacts, KindFacts
<1>4. Pledges(Head(todo)) = {}
  BY <1>2, PledgesAre, ClaimsAre
<1>5. Continue(<<>>) /\ (o # d => ports' = [ports EXCEPT ![o] = Append(@, Port(o, d))])
  BY <1>1 DEF CreatePort
<1>6. ASSUME NEW x \in Firm, Reads(Head(todo), x) PROVE Listens(x)'
  <2>1. x = d /\ At[d] = o
    BY <1>2, <1>6 DEF Reads
  <2>2. o # d
    BY <1>3, <2>1, AboveItself DEF Sub
  <2>3. Port(o, d) \in ToSet(ports'[o])
    BY <1>3, <1>5, <2>2, PortIn DEF Types
  <2> QED BY <2>1, <2>3 DEF Listens, Port
<1> QED BY <1>4, <1>5, <1>6, HonoursNone, PushNone

LEMMA HonoursPorts ==
  ASSUME Types, Types', [Next]_vars, PortsKnown, Doing("ports"), ListPorts(Owner)
  PROVE  Honours
<1>1. PICK o, tasks : o = Owner /\ tasks = ports[o]
  OBVIOUS
<1>2. todo # <<>> /\ Head(todo) \in ListTask /\ Head(todo)[1] = "ports" /\ Head(todo)[2] = o
  BY <1>1, HeadFacts, TaskKinds DEF Types, Owner, Doing
<1>3. o \in Hosts
  BY <1>2 DEF ListTask
<1>4. tasks \in Seq(OwnPort(o)) /\ OwnPort(o) \in SUBSET Task /\ \A t \in OwnPort(o) : t[1] # "ports"
  BY <1>1, <1>3, TaskSets, PortIsPort DEF Types, WiringType, OwnPort
<1>5. Continue(tasks)
  BY <1>1 DEF ListPorts
<1>6. Pledges(Head(todo)) = Under(o)
  BY <1>2, PledgesAre, ClaimsAre
<1>7. ASSUME NEW d \in Wanted', d \in Under(o) PROVE \E i \in 1 .. Len(tasks) : d \in Pledges(tasks[i])
  <2>1. d \in Wanted
    BY WantedShrinks
  <2>2. PICK x \in Devices : At[x] = o /\ d \in Sub(x)
    BY <1>7, UnderStep
  <2>3. x \in Firm
    BY <2>1, <2>2, WantedThere
  <2>4. Listens(x)
    <3>1. 1 \in 1 .. Len(todo) /\ todo[1] = Head(todo) /\ 1 .. 1 - 1 = {}
      BY <1>2, HeadOfTodo
    <3> QED BY <1>2, <2>2, <2>3, <3>1 DEF PortsKnown
  <2>5. Port(o, x) \in ToSet(tasks)
    BY <1>1, <2>2, <2>4 DEF Listens
  <2>6. PICK i \in 1 .. Len(tasks) : tasks[i] = Port(o, x)
    BY <1>4, <2>5, Elements
  <2>7. x # o
    BY <2>2, AboveItself DEF Sub
  <2>8. Port(o, x)[1] = "port" /\ Port(o, x)[2] = o /\ Port(o, x)[3] = x
    BY DEF Port
  <2>9. Pledges(Port(o, x)) = Sub(x)
    BY <2>7, <2>8, PledgesAre, ClaimsAre
  <2> QED BY <2>2, <2>6, <2>9
<1>8. Passes(tasks)
  BY <1>6, <1>7 DEF Passes
<1> QED BY <1>2, <1>4, <1>5, <1>8, HonoursSome

LEMMA HonoursPort ==
  ASSUME Types, Types', Doing("port"), DiscoverPort(Owner, Device), Present(Device)
  PROVE  Honours
<1>1. PICK o, d : o = Owner /\ d = Device
  OBVIOUS
<1>2. /\ todo # <<>> /\ Head(todo) \in PortTask /\ Head(todo)[1] = "port" /\ Head(todo)[2] = o /\ Head(todo)[3] = d
  BY <1>1, HeadFacts, TaskKinds DEF Types, Doing, Owner, Device
<1>3. o \in Hosts /\ d \in Devices /\ d \in Far(o)
  BY <1>2, PortTaskFacts
<1>4. Pledges(Head(todo)) = IF d = o THEN {} ELSE Sub(d)
  BY <1>2, PledgesAre, ClaimsAre
<1>5. \A x : ~Reads(Head(todo), x)
  BY <1>2, NoneRead
<1>6. CASE d \in Expanders
  <2> DEFINE list == <<"list", d>>
             attach == <<"attach", o, d>>
             tasks == <<list, attach>>
             T == {list, attach}
  <2>1. Continue(tasks) /\ tasks \in Seq(Task) /\ Len(tasks) = 2 /\ tasks[1] = list /\ tasks[2] = attach
    BY <1>1, <1>2, <1>6, PortTaskFacts DEF DiscoverPort
  <2>2. /\ list[1] = "list" /\ list[2] = d /\ attach[1] = "attach" /\ attach[3] = d
    OBVIOUS
  <2> HIDE DEF tasks, list, attach
  <2>3. 1 \in 1 .. Len(tasks) /\ 2 \in 1 .. Len(tasks)
    BY <2>1
  <2>4. list \in Task /\ attach \in Task
    <3>1. tasks[1] \in Task /\ tasks[2] \in Task
      BY <2>1, <2>3, ElementOfSeq
    <3> QED BY <2>1, <3>1
  <2>5. tasks \in Seq(T)
    BY <2>1 DEF tasks
  <2>6. T \in SUBSET Task /\ \A t \in T : t[1] # "ports"
    BY <2>2, <2>4
  <2>7. Pledges(list) = Under(d) /\ Pledges(attach) = {d}
    BY <2>2, PledgesAre, ClaimsAre
  <2>8. Passes(tasks)
    <3> SUFFICES ASSUME NEW y \in Wanted', y \in Pledges(Head(todo)) PROVE \E i \in 1 .. Len(tasks) : y \in Pledges(tasks[i])
      BY DEF Passes
    <3>1. y = d \/ y \in Under(d)
      BY <1>4 DEF Sub
    <3> QED BY <2>1, <2>3, <2>7, <3>1
  <2> HIDE DEF T
  <2> QED BY <1>2, <2>1, <2>5, <2>6, <2>8, HonoursSome
<1>7. CASE d \notin Expanders
  <2>1. PICK t : t = <<"end", o, d>>
    OBVIOUS
  <2>2. Continue(<<t>>)
    BY <1>1, <1>7, <2>1 DEF DiscoverPort
  <2>3. At[d] = o
    BY <1>2, <1>7, PortTaskFacts
  <2>4. d \in Disks \cup Ses
    BY <1>3, <1>7, <2>3, AtFacts, KindFacts DEF Hosts
  <2>5. Sub(d) = {d} /\ Pledges(t) = {d} /\ t[1] = "end"
    BY <2>1, <2>4, NoneBelow, PledgesAre, ClaimsAre
  <2> QED BY <1>2, <1>4, <1>5, <2>2, <2>5, HonoursOne
<1> QED BY <1>6, <1>7

LEMMA HonoursAttach ==
  ASSUME Types, Doing("attach"), AttachExpander(Owner, Device), ~Stops
  PROVE  Honours
<1>1. PICK o, e : o = Owner /\ e = Device
  OBVIOUS
<1>2. Head(todo) \in AttachTask /\ Head(todo)[1] = "attach" /\ Head(todo)[2] = o /\ Head(todo)[3] = e
  BY <1>1, HeadFacts, TaskKinds DEF Types, Doing, Owner, Device
<1>3. o \in Owners /\ e \in Routers
  BY <1>2, KindFacts DEF AttachTask
<1>4. AttachRoutingDevice(o, e) /\ Continue(<<>>)
  BY <1>1 DEF AttachExpander, Stops
<1>5. e \in ToSet(scope'[o].routers)
  BY <1>3, <1>4, RouterIn DEF Types
<1>6. Held(e)' /\ Pledges(Head(todo)) = {e}
  BY <1>2, <1>3, <1>5, PledgesAre, ClaimsAre DEF Held
<1>7. \A x : ~Reads(Head(todo), x)
  BY <1>2, NoneRead
<1> QED BY <1>4, <1>6, <1>7, HonoursNone, PushNone

LEMMA HeldEnd ==
  ASSUME Types, NEW o \in Owners, NEW d \in Disks, AttachEndDevice(o, d)
  PROVE  Held(d)'
<1>1. d \in ToSet(scope'[o].ends)
  BY EndIn DEF Types
<1> QED BY <1>1 DEF Held

LEMMA HonoursEnd ==
  ASSUME Types, Types', [Next]_vars, Rooted, Doing("end"), OpenEndDevice(Owner, Device)
  PROVE  Honours
<1>1. PICK o, d : o = Owner /\ d = Device
  OBVIOUS
<1>2. todo # <<>> /\ Head(todo) \in EndTask /\ Head(todo)[1] = "end" /\ Head(todo)[2] = o /\ Head(todo)[3] = d
  BY <1>1, HeadFacts, TaskKinds DEF Types, Doing, Owner, Device
<1>3. o \in Owners /\ d \in Disks \cup Ses /\ At[d] = o
  BY <1>2, KindFacts DEF EndTask
<1>4. Pledges(Head(todo)) = {d}
  BY <1>2, PledgesAre, ClaimsAre
<1>5. \A x : ~Reads(Head(todo), x)
  BY <1>2, NoneRead
<1>6. Continue(<<>>)
  BY DEF OpenEndDevice
<1>7. ASSUME d \in Wanted' PROVE Held(d)'
  <2>1. d \in Wanted /\ Present(d)
    BY <1>7, WantedShrinks, WantedThere
  <2>2. CASE d \in Disks
    <3>1. AttachEndDevice(o, d)
      BY <1>1, <2>1, <2>2 DEF OpenEndDevice, AttachEnd
    <3> QED BY <1>3, <2>2, <3>1, HeldEnd
  <2>3. CASE d \notin Disks
    <3>1. d \in Ses /\ o \in Expanders
      BY <1>3, <2>1, <2>3 DEF Wanted, Sure
    <3>2. AttachEnclosure(o, d)
      BY <1>1, <2>1, <2>3 DEF OpenEndDevice
    <3>3. o \notin Controllers
      BY <3>1, KindFacts
    <3>4. Root(o) \in Controllers
      BY <1>2, <3>1, HeadOfTodo DEF Rooted
    <3>5. PICK c : c = Root(o)
      OBVIOUS
    <3>6. c # None
      BY <3>4, <3>5, KindFacts
    <3>7. enclosures' = [enclosures EXCEPT ![c] = Append(@, d)]
      BY <3>2, <3>3, <3>5, <3>6 DEF AttachEnclosure, TakeEnclosure
    <3>8. enclosures \in [Controllers -> Seq(Ses)]
      BY DEF Types, BoxesType
    <3>9. enclosures'[c] = Append(enclosures[c], d) /\ enclosures[c] \in Seq(Ses)
      BY <3>4, <3>5, <3>7, <3>8
    <3>10. d \in ToSet(enclosures'[c])
      BY <3>9, AppendGrows
    <3> QED BY <3>4, <3>5, <3>10 DEF Held
  <2> QED BY <2>2, <2>3
<1> QED BY <1>4, <1>5, <1>6, <1>7, HonoursNone, PushNone

LEMMA HonoursReadDir ==
  ASSUME Types, Types', Doing("readdir"), ReadDir(Owner, Device)
  PROVE  Honours
<1>1. PICK o, d, L : o = Owner /\ d = Device /\ L = IF o \in Vmd THEN Among(Plugged(o), There) ELSE Targets(d)
  OBVIOUS
<1>2. PICK t : t = <<"stat", o, d, L>>
  OBVIOUS
<1>3. todo # <<>> /\ Head(todo)[1] = "readdir" /\ Head(todo)[2] = o /\ Head(todo)[3] = d
  BY <1>1 DEF Doing, Owner, Device
<1>4. Continue(<<t>>)
  BY <1>1, <1>2 DEF ReadDir
<1>5. Pledges(t) = Pledges(Head(todo)) /\ t[1] = "stat"
  BY <1>2, <1>3, PledgesAre, ClaimsAre
<1>6. \A x : ~Reads(Head(todo), x)
  BY <1>3, NoneRead
<1> QED BY <1>3, <1>4, <1>5, <1>6, HonoursOne

LEMMA HonoursStatNvme ==
  ASSUME Types, Types', [Next]_vars, Backed, Doing("stat"), Owner \in Vmd, StatNvme(Owner, Argument)
  PROVE  Honours
<1>1. PICK v, L, s : v = Owner /\ L = Argument /\ s = Found(L)
  OBVIOUS
<1> DEFINE tasks == Each("nvme", v, s)
<1>2. todo # <<>> /\ Head(todo)[1] = "stat" /\ Head(todo)[2] = v /\ Head(todo)[4] = L /\ v \in Vmd
  BY <1>1 DEF Doing, Owner, Argument
<1>3. Head(todo) \in VmdStat
  BY HeadFacts, TaskKinds, KindFacts DEF Types, Doing, AhciStat, Owner
<1>4. L \in Seq(Disks) /\ \A x \in ToSet(L) : x \in Disks /\ x \in Devices /\ At[x] = v
  <2>1. L \in Seq(Disks)
    BY <1>2, <1>3 DEF VmdStat
  <2> QED BY <1>2, <1>3, <2>1, Elements, KindFacts DEF VmdStat
<1>5. s \in Seq(Disks) /\ \A x \in ToSet(s) : <<"nvme", v, x>> \in NvmeTask
  <2>1. s \in Seq(Disks) /\ ToSet(s) \subseteq ToSet(L)
    BY <1>1, <1>4, FoundFacts
  <2> QED BY <1>2, <1>4, <2>1 DEF NvmeTask
<1>6. tasks \in Seq(NvmeTask) /\ Len(tasks) = Len(s) /\ \A i \in 1 .. Len(s) : tasks[i] = <<"nvme", v, s[i]>>
  BY <1>5, EachFacts
<1>7. Continue(tasks)
  BY <1>1 DEF StatNvme
<1>8. NvmeTask \in SUBSET Task /\ \A t \in NvmeTask : t[1] # "ports"
  BY TaskSets DEF NvmeTask
<1>9. Pledges(Head(todo)) = Under(v)
  BY <1>2, PledgesAre, ClaimsAre
<1>10. ToSet(L) \subseteq Reached /\ {x \in Devices : At[x] = v} \cap Firm \subseteq ToSet(L)
  BY <1>2, BackHead DEF Back, Listing
<1> HIDE DEF tasks
<1>11. ASSUME NEW d \in Wanted', d \in Under(v) PROVE \E i \in 1 .. Len(tasks) : d \in Pledges(tasks[i])
  <2>1. d \in Wanted
    BY WantedShrinks
  <2>2. d \in Disks /\ At[d] = v /\ d \in Devices
    BY <1>2, <1>11, OnlyDisks
  <2>3. d \in Firm /\ \A x \in Devices : At[x] = v => x \notin Unplugged
    BY <1>2, <2>1, <2>2 DEF Wanted, Sure, Beside
  <2>4. s = L
    BY <1>1, <1>2, <1>4, <1>10, <2>3, FoundAll, KindFacts
  <2>5. d \in ToSet(s)
    BY <1>10, <2>2, <2>3, <2>4
  <2>6. PICK i \in 1 .. Len(s) : s[i] = d
    BY <1>5, <2>5, Elements
  <2>7. PICK t : t = <<"nvme", v, d>>
    OBVIOUS
  <2>8. Pledges(t) = {d}
    BY <2>7, PledgesAre, ClaimsAre
  <2> QED BY <1>6, <2>6, <2>7, <2>8
<1>12. Passes(tasks)
  BY <1>9, <1>11 DEF Passes
<1> QED BY <1>2, <1>6, <1>7, <1>8, <1>12, HonoursSome

(* What is read of an AHCI host has all of it that is wanted.               *)
LEMMA TargetsFound ==
  ASSUME Types, NEW t \in AhciStat, Back(t), NEW h, h = t[3], NEW d \in Wanted, d \in Sub(h)
  PROVE  LET s == Found(t[4]) IN
           /\ s \in Seq(Disks)
           /\ d = h /\ h \in Multipliers => Len(s) > 1
           /\ d # h \/ h \in Disks => d \in ToSet(s)
           /\ h \in Disks => Len(s) = 1
<1>1. PICK L : L = t[4]
  OBVIOUS
<1>2. t[2] \in Ahci /\ h \in Disks \cup Multipliers /\ h \in Devices /\ t[2] \notin Vmd /\ t[1] = "stat"
  BY KindFacts DEF AhciStat
<1>3. L \in Seq(Disks) /\ (h \in Disks => Len(L) <= 1) /\ \A x \in ToSet(L) : x \in Disks /\ x \in Devices /\ (x = h \/ At[x] = h)
  <2>1. L \in Seq(Disks)
    BY <1>1 DEF AhciStat
  <2> QED BY <1>1, <2>1, Elements, KindFacts DEF AhciStat
<1>4. ToSet(L) \subseteq Reached /\ Listing(t) \cap Firm \subseteq ToSet(L)
  BY <1>1, <1>2 DEF Back
<1>5. d \in Firm /\ d \in There /\ d \in Devices /\ h \in There /\ h \in Firm
  BY <1>2, WantedThere
<1>6. Found(L) \in Seq(Disks)
  BY <1>3, FoundFacts
<1>7. CASE h \in Disks
  <2>1. d = h
    BY <1>7, NoneBelow
  <2>2. Listing(t) = {h}
    BY <1>2, <1>7 DEF Listing
  <2>3. \A x \in ToSet(L) : x = h
    <3>1. \A x \in Devices : At[x] # h
      BY <1>7, AtFacts, KindFacts
    <3> QED BY <1>3, <3>1
  <2>4. h \in ToSet(L)
    BY <1>4, <1>5, <2>2
  <2>5. Found(L) = L
    BY <1>5, <2>3 DEF Found, There
  <2>6. Len(L) = 1
    <3>1. \E i \in 1 .. Len(L) : L[i] = h
      BY <1>3, <2>4, Elements
    <3>2. PICK n : n = Len(L)
      OBVIOUS
    <3>3. n \in Nat /\ n <= 1
      BY <1>3, <1>7, <3>2
    <3>4. PICK i : i \in 1 .. n
      BY <3>1, <3>2
    <3>5. n = 1
      BY <3>3, <3>4
    <3> QED BY <3>2, <3>5
  <2> QED BY <1>1, <1>6, <1>7, <2>1, <2>4, <2>5, <2>6, KindFacts
<1>8. CASE h \in Multipliers
  <2>1. h \notin Disks
    BY <1>8, KindFacts
  <2>2. \A x \in ToSet(L) : x \in Devices /\ At[x] = h
    BY <1>3, <2>1
  <2>3. Listing(t) = {x \in Devices : At[x] = h}
    BY <1>2, <2>1 DEF Listing
  <2>4. d # h => d \in Disks /\ At[d] = h
    BY <1>8, OnlyDisks DEF Sub
  <2>5. \A x \in Devices : At[x] = h => x \notin Unplugged
    BY <1>8, <2>4 DEF Wanted, Sure, Beside
  <2>6. Found(L) = L
    BY <1>4, <1>5, <2>2, <2>5, FoundAll
  <2>7. CASE d = h
    <3>1. PICK x, y \in Firm : x # y /\ At[x] = h /\ At[y] = h
      BY <1>8, <2>7 DEF Wanted, Sure
    <3>2. x \in ToSet(L) /\ y \in ToSet(L)
      BY <1>4, <2>3, <3>1, FirmThere
    <3>3. PICK i, j \in 1 .. Len(L) : L[i] = x /\ L[j] = y
      BY <1>3, <3>2, Elements
    <3>4. Len(L) > 1
      BY <1>3, <3>1, <3>3
    <3> QED BY <1>1, <1>6, <2>1, <2>6, <2>7, <3>4
  <2>8. CASE d # h
    <3>1. d \in ToSet(L)
      BY <1>4, <1>5, <2>3, <2>4, <2>8
    <3> QED BY <1>1, <1>6, <2>1, <2>6, <2>8, <3>1
  <2> QED BY <2>7, <2>8
<1> QED BY <1>2, <1>7, <1>8

LEMMA HonoursStatTargets ==
  ASSUME Types, Types', [Next]_vars, Backed, Doing("stat"), Owner \in Ahci, StatTargets(Owner, Device, Argument)
  PROVE  Honours
<1>1. PICK c, h, s : c = Owner /\ h = Device /\ s = Found(Argument)
  OBVIOUS
<1> DEFINE each == Each("member", h, s)
           multiplier == <<"multiplier", c, h>>
           last == <<multiplier>>
           disk == <<"disk", c, s[1], h>>
<1>2. todo # <<>> /\ Head(todo) \in AhciStat /\ Head(todo)[1] = "stat" /\ Head(todo)[2] = c /\ c \notin Vmd /\ h = Head(todo)[3]
  BY <1>1, HeadFacts, TaskKinds, KindFacts DEF Types, Doing, VmdStat, Owner, Device
<1>3. /\ s \in Seq(Disks)
      /\ Len(s) > 1 => each \in Seq(Task) /\ last \in Seq(Task)
  BY <1>1, <1>2, TargetTasks, KindFacts DEF Owner, Device, Argument
<1>4. Pledges(Head(todo)) = Sub(h)
  BY <1>2, PledgesAre, ClaimsAre
<1>5. \A x : ~Reads(Head(todo), x)
  BY <1>2, NoneRead
<1>6. ASSUME NEW d \in Wanted', d \in Sub(h)
      PROVE  /\ d = h /\ h \in Multipliers => Len(s) > 1
             /\ d # h \/ h \in Disks => d \in ToSet(s)
             /\ h \in Disks => Len(s) = 1
  <2>1. d \in Wanted /\ Back(Head(todo)) /\ s = Found(Head(todo)[4])
    BY <1>1, <1>2, WantedShrinks, BackHead DEF Argument
  <2> QED BY <1>2, <1>6, <2>1, TargetsFound
<1>7. h \in Disks \cup Multipliers
  BY <1>2 DEF AhciStat
<1>8. \A d \in ToSet(s) : \E i \in 1 .. Len(s) : s[i] = d
  BY <1>3, Elements
<1>9. Len(s) \in Nat
  BY <1>3
<1>10. multiplier[1] = "multiplier" /\ Pledges(multiplier) = {h}
  <2>1. multiplier[1] = "multiplier" /\ multiplier[3] = h
    OBVIOUS
  <2> HIDE DEF multiplier
  <2> QED BY <2>1, PledgesAre, ClaimsAre
<1>11. disk[1] = "disk" /\ Pledges(disk) = {s[1]}
  <2>1. disk[1] = "disk" /\ disk[3] = s[1]
    OBVIOUS
  <2> HIDE DEF disk
  <2> QED BY <2>1, PledgesAre
<1>12. \/ s = <<>> /\ Continue(<<>>)
       \/ Len(s) = 1 /\ Continue(<<disk>>)
       \/ Len(s) > 1 /\ Continue(each \o last)
  BY <1>1 DEF StatTargets
<1>13. CASE s = <<>> /\ Continue(<<>>)
  <2>1. \A d \in Wanted' : d \notin Sub(h)
    <3> SUFFICES ASSUME NEW d \in Wanted', d \in Sub(h) PROVE FALSE
      OBVIOUS
    <3>1. ToSet(s) = {} /\ Len(s) = 0
      BY <1>13, Empty
    <3> QED BY <1>6, <1>7, <3>1
  <2> QED BY <1>4, <1>5, <1>13, <2>1, HonoursNone, PushNone
<1>14. CASE Len(s) = 1 /\ Continue(<<disk>>)
  <2>1. ASSUME NEW d \in Wanted', d \in Sub(h) PROVE d = s[1]
    <3>1. d \in ToSet(s)
      BY <1>6, <1>7, <1>14, <2>1
    <3>2. PICK i \in 1 .. Len(s) : s[i] = d
      BY <1>8, <3>1
    <3> QED BY <1>14, <3>2
  <2> HIDE DEF disk
  <2> QED BY <1>2, <1>4, <1>5, <1>11, <1>14, <2>1, HonoursOne
<1>15. CASE Len(s) > 1 /\ Continue(each \o last)
  <2> DEFINE tasks == each \o last
             T == {t \in Task : t[1] \in {"member", "multiplier"}}
             n == Len(each) + 1
  <2>1. Len(each) = Len(s) /\ \A i \in 1 .. Len(s) : each[i] = <<"member", h, s[i]>>
    BY <1>3, EachEntries
  <2>2. each \in Seq(Task) /\ multiplier \in Task
    <3>1. each \in Seq(Task) /\ last \in Seq(Task) /\ Len(last) = 1 /\ last[1] = multiplier
      BY <1>3, <1>15
    <3> HIDE DEF each, last, multiplier
    <3> QED BY <3>1, ElementOfSeq
  <2> HIDE DEF each, multiplier
  <2>3. \A i \in 1 .. Len(s) : each[i][1] = "member" /\ Pledges(each[i]) = {s[i]}
    <3> SUFFICES ASSUME NEW i \in 1 .. Len(s) PROVE each[i][1] = "member" /\ Pledges(each[i]) = {s[i]}
      OBVIOUS
    <3>1. PICK t : t = each[i]
      OBVIOUS
    <3>2. t = <<"member", h, s[i]>>
      BY <2>1, <3>1
    <3>3. t[1] = "member" /\ t[3] = s[i]
      BY <3>2
    <3> QED BY <3>1, <3>3, PledgesAre, ClaimsAre
  <2>4. /\ tasks \in Seq(Task) /\ Len(tasks) = n /\ tasks[n] = multiplier
        /\ \A i \in 1 .. Len(each) : tasks[i] = each[i]
    BY <2>2, JoinedLast
  <2>5. n \in 1 .. Len(tasks) /\ \A i \in 1 .. Len(tasks) : i = n \/ i \in 1 .. Len(s)
    BY <1>9, <2>1, <2>4
  <2>6. 1 .. Len(s) \subseteq 1 .. Len(tasks)
    BY <1>9, <2>1, <2>4
  <2>7. Continue(tasks)
    BY <1>15
  <2> HIDE DEF tasks, n
  <2>8. \A i \in 1 .. Len(tasks) : tasks[i] \in T
    <3>1. \A i \in 1 .. Len(tasks) : tasks[i][1] \in {"member", "multiplier"}
      BY <1>10, <2>1, <2>3, <2>4, <2>5
    <3> QED BY <2>4, <3>1, ElementOfSeq
  <2>9. tasks \in Seq(T)
    BY <2>4, <2>8, Elements, Narrowed
  <2>10. Passes(tasks)
    <3> SUFFICES ASSUME NEW d \in Wanted', d \in Sub(h) PROVE \E i \in 1 .. Len(tasks) : d \in Pledges(tasks[i])
      BY <1>4 DEF Passes
    <3>1. CASE d = h
      BY <1>10, <2>4, <2>5, <3>1
    <3>2. CASE d # h
      <4>1. PICK i \in 1 .. Len(s) : s[i] = d
        BY <1>6, <1>8, <3>2
      <4> QED BY <2>1, <2>3, <2>4, <2>6, <4>1
    <3> QED BY <3>1, <3>2
  <2>11. T \in SUBSET Task /\ \A t \in T : t[1] # "ports"
    OBVIOUS
  <2> HIDE DEF T
  <2> QED BY <1>2, <2>7, <2>9, <2>10, <2>11, HonoursSome
<1> QED BY <1>12, <1>13, <1>14, <1>15

LEMMA HonoursNvme ==
  ASSUME Types, Types', [Next]_vars, Doing("nvme"), ReadNvmeDriver(Owner, Device)
  PROVE  Honours
<1>1. PICK v, d : v = Owner /\ d = Device
  OBVIOUS
<1>2. PICK t : t = <<"disk", v, d, d>>
  OBVIOUS
<1>3. todo # <<>> /\ Head(todo)[1] = "nvme" /\ Head(todo)[2] = v /\ Head(todo)[3] = d
  BY <1>1 DEF Doing, Owner, Device
<1>4. Pledges(Head(todo)) = {d} /\ Pledges(t) = {d} /\ t[1] # "ports"
  BY <1>2, <1>3, PledgesAre, ClaimsAre
<1>5. \A x : ~Reads(Head(todo), x)
  BY <1>3, NoneRead
<1>6. IF Present(d) THEN Continue(<<t>>) ELSE Continue(<<>>)
  BY <1>1, <1>2 DEF ReadNvmeDriver
<1>7. d \in Wanted' => Present(d)
  BY WantedShrinks, WantedThere
<1>8. CASE Present(d)
  BY <1>3, <1>4, <1>5, <1>6, <1>8, HonoursOne
<1>9. CASE ~Present(d)
  BY <1>4, <1>5, <1>6, <1>7, <1>9, HonoursNone, PushNone
<1> QED BY <1>8, <1>9

LEMMA HonoursDisk ==
  ASSUME Types, Types', [Next]_vars, Doing("disk"), AttachSingle(Owner, Device, Argument)
  PROVE  Honours
<1>1. PICK o, d : o = Owner /\ d = Device
  OBVIOUS
<1>2. Head(todo) \in DiskTask /\ Head(todo)[1] = "disk" /\ Head(todo)[2] = o /\ Head(todo)[3] = d
  BY <1>1, HeadFacts, TaskKinds DEF Types, Doing, Owner, Device
<1>3. o \in Owners /\ d \in Disks
  BY <1>2, KindFacts DEF DiskTask
<1>4. Pledges(Head(todo)) = {d}
  BY <1>2, PledgesAre
<1>5. \A x : ~Reads(Head(todo), x)
  BY <1>2, NoneRead
<1>6. Continue(<<>>) /\ (Present(d) => AttachEndDevice(o, d))
  BY <1>1 DEF AttachSingle, AttachEnd
<1>7. d \in Wanted' => Present(d)
  BY WantedShrinks, WantedThere
<1>8. Present(d) => Held(d)'
  BY <1>3, <1>6, HeldEnd
<1> QED BY <1>4, <1>5, <1>6, <1>7, <1>8, HonoursNone, PushNone

LEMMA HonoursMember ==
  ASSUME Types, Types', [Next]_vars, Doing("member"), AttachMember(Owner, Device)
  PROVE  Honours
<1>1. PICK o, d : o = Owner /\ d = Device
  OBVIOUS
<1>2. Head(todo) \in MemberTask /\ Head(todo)[1] = "member" /\ Head(todo)[2] = o /\ Head(todo)[3] = d
  BY <1>1, HeadFacts, TaskKinds DEF Types, Doing, Owner, Device
<1>3. o \in Owners /\ d \in Disks
  BY <1>2, KindFacts DEF MemberTask
<1>4. Pledges(Head(todo)) = {d}
  BY <1>2, PledgesAre, ClaimsAre
<1>5. \A x : ~Reads(Head(todo), x)
  BY <1>2, NoneRead
<1>6. Continue(<<>>) /\ (Present(d) => AttachEndDevice(o, d))
  BY <1>1 DEF AttachMember
<1>7. d \in Wanted' => Present(d)
  BY WantedShrinks, WantedThere
<1>8. Present(d) => Held(d)'
  BY <1>3, <1>6, HeldEnd
<1> QED BY <1>4, <1>5, <1>6, <1>7, <1>8, HonoursNone, PushNone

LEMMA HonoursMultiplier ==
  ASSUME Types, Doing("multiplier"), AttachMultiplier(Owner, Device)
  PROVE  Honours
<1>1. PICK o, m : o = Owner /\ m = Device
  OBVIOUS
<1>2. Head(todo) \in MultiplierTask /\ Head(todo)[1] = "multiplier" /\ Head(todo)[2] = o /\ Head(todo)[3] = m
  BY <1>1, HeadFacts, TaskKinds DEF Types, Doing, Owner, Device
<1>3. o \in Owners /\ m \in Routers
  BY <1>2, KindFacts DEF MultiplierTask
<1>4. AttachRoutingDevice(o, m) /\ Continue(<<>>)
  BY <1>1 DEF AttachMultiplier
<1>5. m \in ToSet(scope'[o].routers)
  BY <1>3, <1>4, RouterIn DEF Types
<1>6. Held(m)' /\ Pledges(Head(todo)) = {m}
  BY <1>2, <1>3, <1>5, PledgesAre, ClaimsAre DEF Held
<1>7. \A x : ~Reads(Head(todo), x)
  BY <1>2, NoneRead
<1> QED BY <1>4, <1>6, <1>7, HonoursNone, PushNone

LEMMA HonoursAdd ==
  ASSUME Types, Types', [Next]_vars, Doing("add"), AddToSession(Owner)
  PROVE  Honours
<1>1. Push(<<>>) /\ todo # <<>> /\ Owner \in Controllers /\ Head(todo) = Add(Owner)
  BY AddsPush DEF Adds
<1>2. PICK c : c = Owner
  OBVIOUS
<1>3. Head(todo)[1] = "add" /\ Head(todo)[2] = c
  BY <1>1, <1>2 DEF Add
<1>4. Pledges(Head(todo)) = {c}
  BY <1>3, PledgesAre, ClaimsAre
<1>5. \A d \in Wanted' : d # c
  BY <1>1, <1>2, WantedShrinks, KindFacts DEF Wanted
<1>6. \A x : ~Reads(Head(todo), x)
  BY <1>3, NoneRead
<1> QED BY <1>1, <1>4, <1>5, <1>6, HonoursNone

LEMMA CoveredNext ==
  ASSUME Types, Types', Seen, Up, Rooted, Fixed, Backed, Covered, PortsKnown, [Next]_vars
  PROVE  Covered' /\ PortsKnown'
<1>1. CASE todo' = todo
  BY <1>1, CoveredSame, KnownSame
<1>2. CASE Stops
  <2>1. todo' = <<>> /\ 1 .. Len(<<>>) = {} /\ ~Live'
    BY <1>2 DEF Stops, Stop, Live
  <2> QED BY <2>1 DEF Covered, PortsKnown
<1>3. CASE todo # <<>> /\ Live /\ Honours
  <2>1. PICK tasks \in Seq(Task) : Push(tasks) /\ Passes(tasks) /\ Orders(tasks)
    BY <1>3 DEF Honours
  <2> QED BY <1>3, <2>1, CoveredPush, KnownPush
<1>4. \A what : Doing(what) => todo # <<>> /\ Live
  BY DEF Doing, Live
<1>5. ASSUME NEW d \in Devices, Change(d) PROVE todo' = todo
  BY <1>5 DEF Change
<1>6. ASSUME Opened PROVE todo' = todo
  BY <1>6 DEF Opened
<1>7. UNCHANGED vars => todo' = todo
  BY DEF vars
<1>8. ASSUME Doing("port"), DiscoverPort(Owner, Device) PROVE Honours \/ Stops
  BY <1>8, HonoursPort DEF DiscoverPort, Stops
<1>9. ASSUME Doing("attach"), AttachExpander(Owner, Device) PROVE Honours \/ Stops
  BY <1>9, HonoursAttach
<1>10. ASSUME Doing("phy"), ReadPhy(Owner, Device, Argument) PROVE Honours
  BY <1>10, HonoursPhy
<1>11. ASSUME Doing("create"), CreatePort(Owner, Device, Argument) PROVE Honours
  BY <1>11, HonoursCreate
<1>12. ASSUME Doing("ports"), ListPorts(Owner) PROVE Honours
  BY <1>12, HonoursPorts
<1>13. ASSUME Doing("stat"), Owner \in Vmd, StatNvme(Owner, Argument) PROVE Honours
  BY <1>13, HonoursStatNvme
<1>14. ASSUME Doing("stat"), Owner \in Ahci, StatTargets(Owner, Device, Argument) PROVE Honours
  BY <1>14, HonoursStatTargets
<1>15. ASSUME Doing("end"), OpenEndDevice(Owner, Device) PROVE Honours
  BY <1>15, HonoursEnd
<1> QED BY <1>1, <1>2, <1>3, <1>4, <1>5, <1>6, <1>7, <1>8, <1>9, <1>10, <1>11, <1>12, <1>13, <1>14, <1>15, HonoursList,
           HonoursReadDir, HonoursNvme, HonoursDisk, HonoursMember, HonoursMultiplier, HonoursAdd DEF Next

(* All that is below a controller is left to its tasks at the start.        *)
LEMMA TasksPledge ==
  ASSUME NEW c \in Controllers, NEW d \in Under(c)
  PROVE  \E t \in ToSet(Tasks(c)) : d \in Pledges(t)
<1>1. PICK t : t = <<"add", c>>
  OBVIOUS
<1>2. ASSUME NEW u, Tasks(c) = <<u>> \o <<t>> PROVE u \in ToSet(Tasks(c))
  <2>1. PICK a, b, X : a = <<u>> /\ b = <<t>> /\ X = {u, t}
    OBVIOUS
  <2>2. u \in X /\ t \in X
    BY <2>1
  <2>3. a \in Seq(X) /\ b \in Seq(X) /\ ToSet(a) = {u}
    BY <2>1, <2>2, Singleton
  <2>4. ToSet(a \o b) = ToSet(a) \cup ToSet(b)
    BY <2>3, Joined
  <2> QED BY <1>2, <2>1, <2>3, <2>4
<1>3. CASE c \in Isci
  <2>1. PICK u : u = <<"list", c>>
    OBVIOUS
  <2>2. Tasks(c) = <<u>> \o <<t>>
    BY <1>1, <1>3, <2>1 DEF Tasks
  <2>3. Pledges(u) = Under(c)
    BY <2>1, PledgesAre, ClaimsAre
  <2> QED BY <1>2, <2>2, <2>3
<1>4. CASE c \in Vmd
  <2>1. PICK u : u = <<"readdir", c, c>>
    OBVIOUS
  <2>2. Tasks(c) = <<u>> \o <<t>>
    BY <1>1, <1>4, <2>1, KindFacts DEF Tasks
  <2>3. Pledges(u) = Under(c)
    BY <1>4, <2>1, PledgesAre, ClaimsAre
  <2> QED BY <1>2, <2>2, <2>3
<1>5. CASE c \in Ahci
  <2>1. c \notin Isci /\ c \notin Vmd
    BY <1>5, KindFacts
  <2>2. PICK x \in Devices : At[x] = c /\ d \in Sub(x)
    BY UnderStep
  <2>3. PICK each, D : each = Each("readdir", c, Plugged(c)) /\ D = {y \in Devices : At[y] = c}
    OBVIOUS
  <2>4. Plugged(c) \in Seq(D) /\ x \in ToSet(Plugged(c))
    BY <2>2, <2>3, PluggedFacts
  <2>5. PICK i \in 1 .. Len(Plugged(c)) : Plugged(c)[i] = x
    BY <2>4, Elements
  <2>6. PICK u : u = <<"readdir", c, x>>
    OBVIOUS
  <2>7. PICK W : W = {<<"readdir", c, y>> : y \in D} \cup {t}
    OBVIOUS
  <2>8. /\ each \in Seq(W) /\ Len(each) = Len(Plugged(c)) /\ each[i] = u
    <3>1. PICK q : q = Plugged(c)
      OBVIOUS
    <3>2. q \in Seq(D) /\ ToSet(q) \subseteq D
      BY <2>4, <3>1, Elements
    <3>3. \A y \in ToSet(q) : <<"readdir", c, y>> \in W
      BY <2>7, <3>2
    <3>4. /\ Each("readdir", c, q) \in Seq(W) /\ Len(Each("readdir", c, q)) = Len(q)
          /\ \A k \in 1 .. Len(q) : Each("readdir", c, q)[k] = <<"readdir", c, q[k]>>
      BY <3>2, <3>3, EachFacts
    <3> QED BY <2>3, <2>5, <2>6, <3>1, <3>4
  <2>9. u \in ToSet(each)
    BY <2>5, <2>8, Elements
  <2>10. PICK b : b = <<t>>
    OBVIOUS
  <2>11. Tasks(c) = each \o b
    BY <1>1, <2>1, <2>3, <2>10 DEF Tasks
  <2>12. u \in ToSet(Tasks(c))
    <3>1. b \in Seq(W)
      BY <2>7, <2>10, Singleton
    <3>2. ToSet(each \o b) = ToSet(each) \cup ToSet(b)
      BY <2>8, <3>1, Joined
    <3> QED BY <2>9, <2>11, <3>2
  <2>13. Pledges(u) = Sub(x)
    BY <2>1, <2>6, PledgesAre, ClaimsAre
  <2> QED BY <2>2, <2>12, <2>13
<1> QED BY <1>3, <1>4, <1>5, KindFacts

LEMMA CoveredInit == Init => Covered /\ PortsKnown
<1> SUFFICES ASSUME Init PROVE Covered /\ PortsKnown
  OBVIOUS
<1>1. Covered
  <2> SUFFICES ASSUME NEW d \in Wanted PROVE Pledged(d)
    BY DEF Covered
  <2>1. PICK c \in Controllers : d \in Under(c)
    BY UnderSome DEF Wanted
  <2>2. PICK t \in ToSet(Tasks(c)) : d \in Pledges(t)
    BY <2>1, TasksPledge
  <2>3. t \in ToSet(todo) /\ todo \in Seq(Task)
    BY TasksAtFirst
  <2>4. PICK i \in 1 .. Len(todo) : todo[i] = t
    BY <2>3, Elements
  <2> QED BY <2>2, <2>4 DEF Pledged
<1>2. \A i \in 1 .. Len(todo) : todo[i] \in StartTask
  BY TodoInit, ElementOfSeq
<1>3. PortsKnown
  BY <1>2 DEF PortsKnown, StartTask
<1> QED BY <1>1, <1>3

LEMMA StableMeans == Types /\ Whole /\ Covered => StableReported
<1> SUFFICES ASSUME Types, Whole, Covered, status = "open", NEW d \in Devices, Stable(d), Reportable(d)
             PROVE  d \in Registered
  BY DEF StableReported
<1>1. d \in Wanted
  BY WantedIs
<1>2. Live /\ 1 .. Len(todo) = {}
  BY DEF Live, Whole
<1>3. Held(d)
  BY <1>1, <1>2 DEF Covered, Pledged
<1>4. ASSUME NEW o \in Owners, d \in ToSet(scope[o].ends) PROVE d \in Registered
  <2>1. d \in Disks
    BY <1>4, ScopeFacts DEF Types
  <2>2. ToSet(EndListed(d)) \subseteq Registered
    BY <1>4 DEF Whole
  <2> QED BY <2>1, <2>2, EndPiece
<1>5. ASSUME NEW o \in Owners, d \in ToSet(scope[o].routers) PROVE d \in Registered
  BY <1>5 DEF Whole
<1>6. ASSUME NEW c \in Controllers, d \in ToSet(enclosures[c]) PROVE d \in Registered
  BY <1>6 DEF Whole
<1> QED BY <1>3, <1>4, <1>5, <1>6 DEF Held

(* A session that opens has every device that was there all the time of the *)
(* discovery (Session::initialize and the discover of every class): what is *)
(* plugged or unplugged elsewhere makes it lose none, for every tree of     *)
(* devices.  Left out are an enclosure on a controller, a multiplier with   *)
(* one disk, and what a Directory named beside a device that vanished.      *)
THEOREM StableFound == Spec => []StableReported
<1>1. Init => Covered /\ PortsKnown /\ Backed
  BY CoveredInit, BackedInit
<1>2. Types /\ Types' /\ Carries /\ Backed /\ [Next]_vars => Backed'
  BY BackedNext DEF Carries
<1>3. Types /\ Types' /\ Seen /\ Up /\ EncInv /\ Carries /\ Backed /\ Covered /\ PortsKnown /\ [Next]_vars
        => Covered' /\ PortsKnown'
  BY CoveredNext DEF Carries, EncInv
<1>4. Types /\ Whole /\ Covered => StableReported
  BY StableMeans
<1> QED BY <1>1, <1>2, <1>3, <1>4, TypesHold, SeenHolds, UpHolds, EncHolds, CarriesHolds, PTL DEF Spec
=============================================================================
