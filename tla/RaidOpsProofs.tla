---------------------------- MODULE RaidOpsProofs ----------------------------
(***************************************************************************)
(* What the chains of mdadm commands keep, for any number of processes,    *)
(* disks, containers and volumes, whatever commands fail and whatever the  *)
(* kernel does meanwhile.                                                   *)
(***************************************************************************)
EXTENDS RaidOps, FiniteSetTheorems, SequenceTheorems, TLAPS

Call == [op : Ops, arr : Container, vol : SUBSET Vols, level : Levels,
         want : SUBSET Disks, disks : SUBSET Disks, todo : SUBSET Disks,
         cur : SUBSET Disks, joined : SUBSET Disks, seen : SUBSET Vols,
         left : SUBSET Arrays, plan : Seq(Commands \cup {"refuse"}),
         tries : 0 .. MaxTries, status : {"ok", "failed"}, refused : BOOLEAN,
         alone : BOOLEAN]

Results == {"none", "ok", "failed", "stuck", "invalid", "thrown"}

(* The parts of TypeOK *)
WorldType ==
  /\ held \in [Disks -> Container]
  /\ meta \in [Disks -> Container]
  /\ up \subseteq Arrays
  /\ volume \in [Vols -> Volume]

CallsType ==
  /\ pc \in [Procs -> Commands \cup {"idle"}]
  /\ call \in [Procs -> Call]
  /\ result \in [Procs -> Results]

BoundsType == calls \in 0 .. MaxCalls /\ faults \in 0 .. MaxFaults

LEMMA TypeParts == TypeOK <=> WorldType /\ CallsType /\ BoundsType /\ stuck \subseteq Vols
BY DEF TypeOK, WorldType, CallsType, BoundsType, Call, Results

-----------------------------------------------------------------------------
(* What the helpers return *)

LEMMA NoCallType == NoCall \in Call
<1>1. <<>> \in Seq(Commands \cup {"refuse"})
  OBVIOUS
<1>2. 0 \in 0 .. MaxTries
  BY MaxTriesAssumption
<1> QED BY <1>1, <1>2 DEF NoCall, Call, Ops, Container, Levels

LEMMA MapTypes ==
  ASSUME WorldType, NEW S, NEW a \in Container, NEW f \in [Disks -> Container]
  PROVE  /\ With(f, S, a) \in [Disks -> Container]
         /\ Without(f, S) \in [Disks -> Container]
         /\ Remnant(f) \in [Vols -> Volume]
<1>1. NoVolume \in Volume
  BY DEF NoVolume, Volume, Container, Levels
<1> QED BY <1>1 DEF WorldType, With, Without, Remnant, Container

LEMMA GrowthType ==
  ASSUME NEW op \in Ops, NEW a \in Container, NEW S \in SUBSET Disks
  PROVE  Growth(op, a, S) \in Call
<1>1. Spareable(S) \subseteq Disks /\ S \ Skipped(a, S) \subseteq Disks /\ Visible(a) \subseteq Vols
  BY DEF Spareable, Visible, Of
<1> QED BY <1>1, NoCallType DEF Growth, Call

LEMMA ReturnType ==
  ASSUME CallsType, NEW p \in Procs, NEW status \in Results, Return(p, status)
  PROVE  CallsType'
<1>1. call' \in [Procs -> Call]
  BY NoCallType DEF CallsType, Return
<1>2. pc' \in [Procs -> Commands \cup {"idle"}] /\ result' \in [Procs -> Results]
  BY DEF CallsType, Return
<1> QED BY <1>1, <1>2 DEF CallsType

LEMMA GotoType ==
  ASSUME CallsType, NEW p \in Procs, NEW command \in Commands, NEW c \in Call, Goto(p, command, c)
  PROVE  CallsType'
<1>1. call' \in [Procs -> Call]
  BY DEF CallsType, Goto
<1>2. pc' \in [Procs -> Commands \cup {"idle"}] /\ result' \in [Procs -> Results]
  BY DEF CallsType, Goto
<1> QED BY <1>1, <1>2 DEF CallsType

LEMMA ProceedType ==
  ASSUME CallsType, NEW p \in Procs, NEW c \in Call, Proceed(p, c)
  PROVE  CallsType'
<1>1. c.plan \in Seq(Commands \cup {"refuse"})
  BY DEF Call
<1>2. CASE c.plan = <<>>
  BY <1>2, ReturnType DEF Proceed, Results
<1>3. CASE c.plan # <<>> /\ Head(c.plan) = "refuse"
  BY <1>3, ReturnType DEF Proceed, Results
<1>4. CASE c.plan # <<>> /\ Head(c.plan) # "refuse"
  <2>1. Head(c.plan) \in Commands /\ Tail(c.plan) \in Seq(Commands \cup {"refuse"})
    BY <1>1, <1>4
  <2>2. [c EXCEPT !.plan = Tail(c.plan)] \in Call
    BY <2>1 DEF Call
  <2> QED BY <1>4, <2>1, <2>2, GotoType DEF Proceed
<1> QED BY <1>2, <1>3, <1>4

LEMMA TakeBackType ==
  ASSUME CallsType, NEW p \in Procs, NEW c \in Call, TakeBack(p, c)
  PROVE  CallsType'
<1>1. [c EXCEPT !.todo = c.disks, !.status = "failed"] \in Call
  BY DEF Call
<1>2. "unplug" \in Commands /\ "failed" \in Results
  BY DEF Commands, Results
<1> QED BY <1>1, <1>2, ReturnType, GotoType DEF TakeBack

LEMMA NextSpareType ==
  ASSUME CallsType, NEW p \in Procs, NEW c \in Call, NextSpare(p, c)
  PROVE  CallsType'
<1>1. Status(c) \in Results
  BY DEF Status, Results
<1>2. "unplug" \in Commands
  BY DEF Commands
<1> QED BY <1>1, <1>2, ReturnType, GotoType DEF NextSpare

LEMMA RetryType ==
  ASSUME CallsType, NEW p \in Procs, NEW c \in Call, Retry(p, c), stuck \subseteq Vols
  PROVE  CallsType' /\ stuck' \subseteq Vols
<1>1. CASE c.tries + 1 < MaxTries
  <2>1. c.tries + 1 \in 0 .. MaxTries
    BY <1>1, MaxTriesAssumption DEF Call
  <2>2. [c EXCEPT !.tries = @ + 1] \in Call
    BY <2>1 DEF Call
  <2> QED BY <1>1, <2>2, GotoType DEF Retry, Commands
<1>2. CASE ~(c.tries + 1 < MaxTries)
  <2>1. c.vol \subseteq Vols
    BY DEF Call
  <2> QED BY <1>2, <2>1, ReturnType DEF Retry, Results
<1> QED BY <1>1, <1>2

-----------------------------------------------------------------------------
(* What a call may do next, by what it has decided *)

(* What follows the first command of a growth or a migration *)
Chains == {<<>>, <<"refuse">>, <<"reshape">>, <<"relevel">>, <<"add", "reshape">>}

Clean(S) == S \cap SystemDisks = {}

(* Whatever c may still put into a container is free of system disks; what  *)
(* it stops is one volume.                                                  *)
CallSafe(k, c) ==
  /\ c.op = "GlobalSpare" => Clean(c.want)
  /\ k = "create" /\ c.op # "GlobalSpare" => Clean(c.disks)
  /\ k = "add" => Clean(c.todo)
  /\ k \in {"add", "reshape", "relevel"} =>
       c.plan \in Chains /\ (c.plan = <<"add", "reshape">> => Clean(c.todo))
  /\ k = "stopVolume" => \E v \in Vols : c.vol = {v}
  /\ k = "stopVolume" /\ c.op = "Rename" => c.plan \in {<<"name">>, <<"scan">>}

(* Where c may come to take its disks back, it has put them in before.      *)
CallOwns(k, c) ==
  c.op \in {"Grow", "Modify"} =>
    /\ k = "add" => c.disks \subseteq c.todo
    /\ k = "reshape" => c.disks \subseteq c.joined
    /\ k = "relevel" /\ c.level # 0 => c.disks \subseteq c.joined
    /\ k \in {"reshape", "relevel"} /\ c.plan \in {<<"reshape">>, <<"relevel">>} => c.disks \subseteq c.joined
    /\ k \in {"add", "reshape", "relevel"} /\ c.plan = <<"add", "reshape">> => c.disks \subseteq c.todo
    /\ k \in {"unplug", "wipe"} => c.todo \subseteq c.joined

CallOK(k, c) == CallSafe(k, c) /\ CallOwns(k, c)

CallsOK == \A p \in Procs : CallOK(pc[p], call[p])

LEMMA AloneOK ==
  ASSUME NEW c \in Call, NEW b \in BOOLEAN, NEW k
  PROVE  /\ [c EXCEPT !.alone = b] \in Call
         /\ CallOK(k, c) => CallOK(k, [c EXCEPT !.alone = b])
BY DEF Call, CallOK, CallSafe, CallOwns

LEMMA BeginOK ==
  ASSUME CallsType, CallsOK, BoundsType, NEW p \in Procs, calls < MaxCalls,
         NEW k \in Commands, NEW c \in Call, CallOK(k, c), Begin(p, k, c)
  PROVE  CallsType' /\ CallsOK' /\ BoundsType'
<1> DEFINE b == \A r \in Procs : pc[r] = "idle"
<1>1. call' = [q \in Procs |-> IF q = p THEN [c EXCEPT !.alone = b] ELSE [call[q] EXCEPT !.alone = FALSE]]
  BY DEF Begin
<1>2. [c EXCEPT !.alone = b] \in Call /\ CallOK(k, [c EXCEPT !.alone = b])
  BY AloneOK
<1>3. ASSUME NEW q \in Procs
      PROVE  /\ [call[q] EXCEPT !.alone = FALSE] \in Call
             /\ CallOK(pc[q], [call[q] EXCEPT !.alone = FALSE])
  BY AloneOK DEF CallsType, CallsOK
<1>4. call' \in [Procs -> Call]
  BY <1>1, <1>2, <1>3
<1>5. pc' \in [Procs -> Commands \cup {"idle"}] /\ result' \in [Procs -> Results]
  BY DEF CallsType, Begin, Results
<1>6. CallsOK'
  <2> SUFFICES ASSUME NEW q \in Procs PROVE CallOK(pc'[q], call'[q])
    BY DEF CallsOK
  <2>1. CASE q = p
    BY <1>1, <1>2, <2>1 DEF Begin, CallsType
  <2>2. CASE q # p
    BY <1>1, <1>3, <2>2 DEF Begin, CallsType
  <2> QED BY <2>1, <2>2
<1>7. BoundsType'
  BY MaxCallsAssumption DEF BoundsType, Begin
<1> QED BY <1>4, <1>5, <1>6, <1>7 DEF CallsType

LEMMA ReturnOK ==
  ASSUME CallsType, CallsOK, NEW p \in Procs, NEW status, Return(p, status)
  PROVE  CallsOK'
<1>1. CallOK("idle", NoCall)
  BY DEF CallOK, CallSafe, CallOwns, NoCall
<1>2. ASSUME NEW q \in Procs PROVE CallOK(pc'[q], call'[q])
  BY <1>1 DEF CallsOK, CallsType, Return
<1> QED BY <1>2 DEF CallsOK

LEMMA GotoOK ==
  ASSUME CallsType, CallsOK, NEW p \in Procs, NEW k, NEW c, CallOK(k, c), Goto(p, k, c)
  PROVE  CallsOK'
<1>1. ASSUME NEW q \in Procs PROVE CallOK(pc'[q], call'[q])
  BY DEF CallsOK, CallsType, Goto
<1> QED BY <1>1 DEF CallsOK

(* The chain goes on.                                                       *)
LEMMA ProceedOK ==
  ASSUME CallsType, CallsOK, NEW p \in Procs, NEW c \in Call, Proceed(p, c),
         c.op = "GlobalSpare" => Clean(c.want),
         c.plan \in Chains,
         c.plan = <<"add", "reshape">> =>
           Clean(c.todo) /\ (c.op \in {"Grow", "Modify"} => c.disks \subseteq c.todo),
         c.plan \in {<<"reshape">>, <<"relevel">>} /\ c.op \in {"Grow", "Modify"} =>
           c.disks \subseteq c.joined
  PROVE  CallsOK'
<1> DEFINE d == [c EXCEPT !.plan = Tail(c.plan)]
<1>0. /\ d.plan = Tail(c.plan) /\ d.op = c.op /\ d.want = c.want /\ d.disks = c.disks
      /\ d.todo = c.todo /\ d.joined = c.joined /\ d.level = c.level
  BY DEF Call
<1>1. CASE c.plan = <<>>
  BY <1>1, ReturnOK DEF Proceed
<1>2. CASE c.plan = <<"refuse">>
  BY <1>2, ReturnOK DEF Proceed
<1>3. CASE c.plan \in {<<"reshape">>, <<"relevel">>}
  <2>1. Head(c.plan) \in {"reshape", "relevel"} /\ d.plan = <<>>
    <3>1. CASE c.plan = <<"reshape">>
      BY <1>0, <3>1
    <3>2. CASE c.plan = <<"relevel">>
      BY <1>0, <3>2
    <3> QED BY <1>3, <3>1, <3>2
  <2>2. CallOK(Head(c.plan), d)
    BY <1>0, <1>3, <2>1 DEF CallOK, CallSafe, CallOwns, Chains
  <2>3. Goto(p, Head(c.plan), d)
    BY <1>3, <2>1 DEF Proceed
  <2> QED BY <2>2, <2>3, GotoOK
<1>4. CASE c.plan = <<"add", "reshape">>
  <2>1. Head(c.plan) = "add" /\ d.plan = <<"reshape">>
    BY <1>0, <1>4
  <2>2. CallOK("add", d)
    BY <1>0, <1>4, <2>1 DEF CallOK, CallSafe, CallOwns, Chains
  <2>3. Goto(p, "add", d)
    BY <1>4, <2>1 DEF Proceed
  <2> QED BY <2>2, <2>3, GotoOK
<1> QED BY <1>1, <1>2, <1>3, <1>4 DEF Chains

-----------------------------------------------------------------------------
(* The calls *)

LEMMA Prepend ==
  ASSUME NEW T, NEW x \in T, NEW s \in Seq(T)
  PROVE  <<x>> \o s # <<>> /\ Head(<<x>> \o s) = x /\ Tail(<<x>> \o s) = s
<1>1. Len(<<x>> \o s) = 1 + Len(s) /\ <<x>> \o s \in Seq(T)
  OBVIOUS
<1>2. <<x>> \o s # <<>> /\ Head(<<x>> \o s) = x
  BY <1>1
<1>3. Tail(<<x>> \o s) \in Seq(T) /\ Len(Tail(<<x>> \o s)) = Len(s)
  BY <1>1, <1>2
<1>4. \A i \in 1 .. Len(s) : Tail(<<x>> \o s)[i] = s[i]
  BY <1>1, <1>2
<1> QED BY <1>2, <1>3, <1>4

LEMMA GrowthFields ==
  ASSUME WorldType, NEW op \in Ops, NEW a \in Container, NEW S \in SUBSET Disks
  PROVE  LET c == Growth(op, a, S)
         IN /\ c \in Call /\ c.op = op /\ c.want = S /\ c.todo = S \ Skipped(a, S)
            /\ c.plan = <<>> /\ c.level = 0 /\ c.vol = {} /\ c.joined = {}
            /\ c.disks \subseteq c.todo
            /\ S \subseteq Skipped(a, S) => c.disks = {}
            /\ MayAdd(a, S) => Clean(c.todo)
<1>1. Growth(op, a, S) \in Call
  BY GrowthType
<1>2. Spareable(S) \subseteq S \ Skipped(a, S) /\ (S \subseteq Skipped(a, S) => Spareable(S) = {})
  BY DEF Spareable, Skipped
<1>3. MayAdd(a, S) => Clean(S \ Skipped(a, S))
  BY DEF MayAdd, Usable, Clean
<1> QED BY <1>1, <1>2, <1>3 DEF Growth, NoCall

LEMMA AddsOne ==
  ASSUME WorldType, NEW op \in {"AddSpare", "Rebuild", "GlobalSpare"}, NEW a \in Container, NEW d \in Disks,
         MayAdd(a, {d})
  PROVE  Growth(op, a, {d}) \in Call /\ (op # "GlobalSpare" => CallOK("add", Growth(op, a, {d})))
<1>1. op \in Ops
  BY DEF Ops
<1> QED BY <1>1, GrowthFields DEF CallOK, CallSafe, CallOwns, Chains

LEMMA AddingCases ==
  ASSUME NEW a, NEW S, NEW k \in {"reshape", "relevel"}
  PROVE  Adding(a, S, <<k>>) = IF S \subseteq Skipped(a, S) THEN <<k>> ELSE <<"add", k>>
<1> DEFINE T == {"add", "reshape", "relevel"}
<1>1. <<"add">> \in Seq(T) /\ <<k>> \in Seq(T) /\ <<"add", k>> \in Seq(T)
  OBVIOUS
<1>2. <<"add">> \o <<k>> \in Seq(T) /\ Len(<<"add">> \o <<k>>) = Len(<<"add", k>>)
  BY <1>1
<1>3. \A i \in 1 .. Len(<<"add">> \o <<k>>) : (<<"add">> \o <<k>>)[i] = <<"add", k>>[i]
  BY <1>1
<1>4. <<"add">> \o <<k>> = <<"add", k>>
  BY <1>1, <1>2, <1>3, SeqEqual
<1> QED BY <1>4 DEF Adding

LEMMA GrowPlanCases ==
  ASSUME NEW a, NEW S
  PROVE  /\ GrowPlan(a, S) \in {<<>>, <<"refuse">>, <<"reshape">>, <<"add", "reshape">>}
         /\ GrowPlan(a, S) = <<"reshape">> => S \subseteq Skipped(a, S)
         /\ GrowPlan(a, S) = <<"add", "reshape">> => MayAdd(a, S)
<1>1. Adding(a, S, <<"reshape">>) = IF S \subseteq Skipped(a, S) THEN <<"reshape">> ELSE <<"add", "reshape">>
  BY AddingCases
<1>2. <<>> # <<"reshape">> /\ <<>> # <<"add", "reshape">> /\ <<"refuse">> # <<"reshape">>
      /\ <<"refuse">> # <<"add", "reshape">> /\ <<"reshape">> # <<"add", "reshape">>
  OBVIOUS
<1> QED BY <1>1, <1>2 DEF GrowPlan

LEMMA ChainsType == Chains \subseteq Seq(Commands \cup {"refuse"})
<1> DEFINE T == Commands \cup {"refuse"}
<1>1. {"reshape", "relevel", "add", "refuse"} \subseteq T
  BY DEF Commands
<1> HIDE DEF T
<1>2. <<>> \in Seq(T)
  OBVIOUS
<1>3. <<"refuse">> \in Seq(T) /\ <<"reshape">> \in Seq(T) /\ <<"relevel">> \in Seq(T)
  BY <1>1
<1>4. <<"add", "reshape">> \in Seq(T)
  BY <1>1
<1> QED BY <1>2, <1>3, <1>4 DEF Chains, T

(* A chain that begins as its call has decided *)
LEMMA ChainOK ==
  ASSUME CallsType, CallsOK, BoundsType, NEW p \in Procs, MayBegin(p), NEW c \in Call,
         c.op \in {"Grow", "Modify"},
         NEW k \in {"add", "reshape", "relevel"}, NEW rest \in (Chains \ {<<"relevel">>}) \cup
           (IF k = "add" THEN {<<"relevel">>} ELSE {}),
         Begin(p, k, [c EXCEPT !.plan = rest]),
         c.disks \subseteq c.todo,
         k = "add" => Clean(c.todo),
         rest = <<"add", "reshape">> => Clean(c.todo) /\ c.level = 0,
         k = "reshape" \/ (k = "relevel" /\ (c.level # 0 \/ rest = <<"reshape">>)) => c.disks = {}
  PROVE  CallsType' /\ CallsOK' /\ BoundsType'
<1> DEFINE d == [c EXCEPT !.plan = rest]
<1>1. rest \in Chains
  BY DEF Chains
<1>2. rest \in Seq(Commands \cup {"refuse"})
  BY <1>1, ChainsType
<1>3. d \in Call /\ d.plan = rest /\ d.op = c.op /\ d.want = c.want /\ d.disks = c.disks
      /\ d.todo = c.todo /\ d.joined = c.joined /\ d.level = c.level
  BY <1>2 DEF Call
<1>4. <<"reshape">> # <<"add", "reshape">>
  OBVIOUS
<1>5. CallSafe(k, d)
  BY <1>1, <1>3 DEF CallSafe
<1>6. CallOwns(k, d)
  BY <1>3, <1>4 DEF CallOwns
<1>7. k \in Commands /\ calls < MaxCalls
  BY DEF Commands, MayBegin
<1> QED BY <1>3, <1>5, <1>6, <1>7, BeginOK DEF CallOK

LEMMA AddDisksOK ==
  ASSUME WorldType, CallsType, CallsOK, BoundsType, NEW p \in Procs,
         NEW a \in Arrays, NEW S \in SUBSET Disks, AddDisks(p, a, S)
  PROVE  CallsType' /\ CallsOK' /\ BoundsType'
<1> DEFINE c == Growth("Grow", a, S)
<1>1. "Grow" \in Ops /\ a \in Container
  BY DEF Ops, Container
<1>2. /\ c \in Call /\ c.op = "Grow" /\ c.disks \subseteq c.todo /\ Clean(c.todo)
      /\ S \subseteq Skipped(a, S) => c.disks = {}
  BY <1>1, GrowthFields DEF AddDisks
<1>3. MayBegin(p) /\ Chain(p, c, IF S \subseteq Skipped(a, S) THEN <<"reshape">> ELSE <<"add", "reshape">>)
  BY AddingCases DEF AddDisks
<1>4. CASE S \subseteq Skipped(a, S)
  <2>1. Begin(p, "reshape", [c EXCEPT !.plan = <<>>])
    BY <1>3, <1>4 DEF Chain
  <2> HIDE DEF c
  <2> QED BY <1>2, <1>3, <1>4, <2>1, ChainOK DEF Chains
<1>5. CASE ~(S \subseteq Skipped(a, S))
  <2>1. Begin(p, "add", [c EXCEPT !.plan = <<"reshape">>])
    BY <1>3, <1>5 DEF Chain
  <2>2. <<"reshape">> # <<"add", "reshape">> /\ <<"reshape">> # <<"relevel">>
    OBVIOUS
  <2> HIDE DEF c
  <2> QED BY <1>2, <1>3, <1>5, <2>1, <2>2, ChainOK DEF Chains
<1> QED BY <1>4, <1>5

LEMMA ModifyOK ==
  ASSUME WorldType, CallsType, CallsOK, BoundsType, NEW p \in Procs,
         NEW v \in Vols, NEW level \in Levels, NEW S \in SUBSET Disks, Modify(p, v, level, S)
  PROVE  CallsType' /\ CallsOK' /\ BoundsType'
<1> DEFINE a == volume[v].arr
           g == Growth("Modify", a, S)
           c == [g EXCEPT !.vol = {v}, !.level = level]
           Plans == CASE level = 0 -> ToRaid0(v, S) [] level = 10 -> ToRaid10(v, S) [] OTHER -> ToRaid5(v, S)
<1>1. "Modify" \in Ops /\ a \in Container
  BY DEF Ops, WorldType, Volume
<1>2. /\ g \in Call /\ g.op = "Modify" /\ g.disks \subseteq g.todo
      /\ MayAdd(a, S) => Clean(g.todo)
      /\ S \subseteq Skipped(a, S) => g.disks = {}
  BY <1>1, GrowthFields
<1>3. /\ c \in Call /\ c.op = "Modify" /\ c.disks \subseteq c.todo /\ c.level = level
      /\ MayAdd(a, S) => Clean(c.todo)
      /\ S \subseteq Skipped(a, S) => c.disks = {}
  <2> HIDE DEF g
  <2> QED BY <1>2 DEF Call
<1>4. PICK plan \in Plans : Chain(p, c, plan)
  BY DEF Modify
<1>5. MayBegin(p)
  BY DEF Modify
<1>6. Begin(p, Head(plan), [c EXCEPT !.plan = Tail(plan)])
  BY <1>4 DEF Chain
<1>7. GrowPlan(a, S) \in {<<>>, <<"refuse">>, <<"reshape">>, <<"add", "reshape">>}
      /\ (GrowPlan(a, S) = <<"reshape">> => S \subseteq Skipped(a, S))
      /\ (GrowPlan(a, S) = <<"add", "reshape">> => MayAdd(a, S))
  BY GrowPlanCases
<1>8. <<"reshape">> # <<"add", "reshape">> /\ <<"reshape">> # <<"relevel">> /\ <<>> # <<"reshape">>
      /\ <<>> # <<"relevel">> /\ <<>> # <<"add", "reshape">> /\ <<"refuse">> # <<"relevel">>
      /\ <<"refuse">> # <<"reshape">> /\ <<"refuse">> # <<"add", "reshape">>
      /\ <<"add", "reshape">> # <<"relevel">>
  OBVIOUS
<1>9. CASE plan = <<"relevel">> \o GrowPlan(a, S) /\ level = 0
  <2>1. GrowPlan(a, S) \in Seq(Commands \cup {"refuse"}) /\ "relevel" \in Commands \cup {"refuse"}
    BY <1>7, ChainsType DEF Chains, Commands
  <2>2. Head(plan) = "relevel" /\ Tail(plan) = GrowPlan(a, S)
    BY <1>9, <2>1, Prepend
  <2>3. Begin(p, "relevel", [c EXCEPT !.plan = GrowPlan(a, S)])
    BY <1>6, <2>2
  <2> HIDE DEF c
  <2> QED BY <1>3, <1>5, <1>7, <1>8, <1>9, <2>3, ChainOK DEF Chains
<1>10. CASE plan = <<"reshape">> /\ S \subseteq Skipped(a, S)
  <2>1. Begin(p, "reshape", [c EXCEPT !.plan = <<>>])
    BY <1>6, <1>10
  <2> HIDE DEF c
  <2> QED BY <1>3, <1>5, <1>8, <1>10, <2>1, ChainOK DEF Chains
<1>11. CASE plan = <<"relevel">> /\ S \subseteq Skipped(a, S)
  <2>1. Begin(p, "relevel", [c EXCEPT !.plan = <<>>])
    BY <1>6, <1>11
  <2> HIDE DEF c
  <2> QED BY <1>3, <1>5, <1>8, <1>11, <2>1, ChainOK DEF Chains
<1>12. ASSUME NEW k \in {"reshape", "relevel"}, plan = <<"add", k>>, MayAdd(a, S)
       PROVE  CallsType' /\ CallsOK' /\ BoundsType'
  <2>1. Head(plan) = "add" /\ Tail(plan) = <<k>>
    BY <1>12
  <2>2. Begin(p, "add", [c EXCEPT !.plan = <<k>>])
    BY <1>6, <2>1
  <2>3. <<k>> \in Chains /\ <<k>> # <<"add", "reshape">>
    BY <1>12 DEF Chains
  <2> DEFINE rest == <<k>>
  <2>4. rest \in (Chains \ {<<"relevel">>}) \cup (IF "add" = "add" THEN {<<"relevel">>} ELSE {})
    BY <2>3
  <2>5. rest # <<"add", "reshape">> /\ Begin(p, "add", [c EXCEPT !.plan = rest])
    BY <2>2, <2>3
  <2> HIDE DEF c, rest
  <2> QED BY <1>3, <1>5, <1>12, <2>4, <2>5, ChainOK
<1>13. CASE level = 0
  <2>1. plan \in ToRaid0(v, S)
    BY <1>13
  <2>2. CASE plan \in GrowOnly(a, S)
    <3>1. plan = GrowPlan(a, S) /\ MayAdd(a, S) /\ S # {} /\ ~Busy(a)
      BY <2>2 DEF GrowOnly
    <3>2. plan = IF S \subseteq Skipped(a, S) THEN <<"reshape">> ELSE <<"add", "reshape">>
      BY <3>1, AddingCases DEF GrowPlan
    <3> QED BY <1>10, <1>12, <3>1, <3>2
  <2> QED BY <1>9, <1>13, <2>1, <2>2 DEF ToRaid0
<1>14. CASE level # 0
  <2>1. plan \in ToRaid10(v, S) \/ plan \in ToRaid5(v, S)
    BY <1>14
  <2>2. \/ plan \in GrowOnly(a, S)
        \/ MayAdd(a, S) /\ plan = Adding(a, S, <<"relevel">>)
    BY <2>1 DEF ToRaid10, ToRaid5
  <2>3. CASE plan \in GrowOnly(a, S)
    <3>1. plan = GrowPlan(a, S) /\ MayAdd(a, S) /\ S # {} /\ ~Busy(a)
      BY <2>3 DEF GrowOnly
    <3>2. plan = IF S \subseteq Skipped(a, S) THEN <<"reshape">> ELSE <<"add", "reshape">>
      BY <3>1, AddingCases DEF GrowPlan
    <3> QED BY <1>10, <1>12, <3>1, <3>2
  <2>4. CASE MayAdd(a, S) /\ plan = Adding(a, S, <<"relevel">>)
    <3>1. plan = IF S \subseteq Skipped(a, S) THEN <<"relevel">> ELSE <<"add", "relevel">>
      BY <2>4, AddingCases
    <3> QED BY <1>11, <1>12, <2>4, <3>1
  <2> QED BY <2>2, <2>3, <2>4
<1> QED BY <1>13, <1>14

LEMMA WorldFacts ==
  ASSUME WorldType
  PROVE  /\ \A d \in Disks : held[d] \in Container
         /\ \A v \in Vols : volume[v].arr \in Container /\ volume[v].disks \subseteq Disks
         /\ \A a : Visible(a) \subseteq Vols /\ Components(a) \subseteq Disks
         /\ up \subseteq Container /\ NoArray \in Container
BY DEF WorldType, Volume, Visible, Of, Components, Container

LEMMA SpareCallsOK ==
  ASSUME WorldType, CallsType, CallsOK, BoundsType, NEW p \in Procs, NEW d \in Disks,
         \/ \E a \in Arrays : MarkAsSpare(p, a, d)
         \/ \E v \in Vols : Rebuild(p, v, d)
         \/ MakeSpare(p, d)
  PROVE  CallsType' /\ CallsOK' /\ BoundsType'
<1>1. "add" \in Commands /\ "create" \in Commands
  BY DEF Commands
<1>2. CASE \E a \in Arrays : MarkAsSpare(p, a, d)
  <2>1. PICK a \in Arrays : MarkAsSpare(p, a, d)
    BY <1>2
  <2>2. Growth("AddSpare", a, {d}) \in Call /\ CallOK("add", Growth("AddSpare", a, {d}))
    BY <2>1, AddsOne DEF MarkAsSpare, Container
  <2> QED BY <1>1, <2>1, <2>2, BeginOK DEF MarkAsSpare, MayBegin
<1>3. CASE \E v \in Vols : Rebuild(p, v, d)
  <2>1. PICK v \in Vols : Rebuild(p, v, d)
    BY <1>3
  <2>2. volume[v].arr \in Container
    BY WorldFacts
  <2>3. /\ Growth("Rebuild", volume[v].arr, {d}) \in Call
        /\ CallOK("add", Growth("Rebuild", volume[v].arr, {d}))
    BY <2>1, <2>2, AddsOne DEF Rebuild
  <2> QED BY <1>1, <2>1, <2>3, BeginOK DEF Rebuild, MayBegin
<1>4. CASE MakeSpare(p, d)
  <2>1. MayBegin(p) /\ Clean({d}) /\ "GlobalSpare" \in Ops
    BY <1>4 DEF MakeSpare, Usable, Clean, Ops
  <2>2. CASE \E a \in up : Begin(p, "add", [Growth("GlobalSpare", a, {d}) EXCEPT !.left = up \ {a}])
    <3>1. PICK a \in up : Begin(p, "add", [Growth("GlobalSpare", a, {d}) EXCEPT !.left = up \ {a}])
      BY <2>2
    <3> DEFINE g == Growth("GlobalSpare", a, {d})
               c == [g EXCEPT !.left = up \ {a}]
    <3>2. /\ g \in Call /\ g.op = "GlobalSpare" /\ g.want = {d} /\ g.todo \subseteq {d} /\ g.plan = <<>>
      BY <2>1, GrowthFields, WorldFacts
    <3>3. up \ {a} \in SUBSET Arrays
      BY DEF WorldType
    <3>4. c \in Call /\ c.op = "GlobalSpare" /\ c.want = {d} /\ c.todo \subseteq {d} /\ c.plan = <<>>
      <4> HIDE DEF g
      <4> QED BY <3>2, <3>3 DEF Call
    <3>5. <<>> # <<"add", "reshape">>
      OBVIOUS
    <3> HIDE DEF c
    <3>6. CallOK("add", c)
      BY <2>1, <3>4, <3>5 DEF CallOK, CallSafe, CallOwns, Chains, Clean
    <3> QED BY <1>1, <2>1, <3>1, <3>4, <3>6, BeginOK DEF c, MayBegin
  <2>3. CASE Begin(p, "create", Growth("GlobalSpare", NoArray, {d}))
    <3> DEFINE c == Growth("GlobalSpare", NoArray, {d})
    <3>1. c \in Call /\ c.op = "GlobalSpare" /\ c.want = {d}
      BY <2>1, GrowthFields, WorldFacts
    <3> HIDE DEF c
    <3>2. CallOK("create", c)
      BY <2>1, <3>1 DEF CallOK, CallSafe, CallOwns
    <3> QED BY <1>1, <2>1, <2>3, <3>1, <3>2, BeginOK DEF c, MayBegin
  <2> QED BY <1>4, <2>2, <2>3 DEF MakeSpare
<1> QED BY <1>2, <1>3, <1>4

LEMMA OtherCallsOK ==
  ASSUME WorldType, CallsType, CallsOK, BoundsType, NEW p \in Procs,
         \/ \E d \in Disks : UnmarkAsSpare(p, d) \/ ClearMetadata(p, d)
         \/ \E v \in Vols : Delete(p, v) \/ Rename(p, v) \/ CancelVerify(p, v)
         \/ \E v \in Vols, op \in {"Expand", "Verify"} : Sync(p, v, op)
         \/ \E level \in Levels, S \in SUBSET Disks : CreateFromDisks(p, level, S)
         \/ \E level \in Levels, a \in Arrays : CreateFromArray(p, level, a)
  PROVE  CallsType' /\ CallsOK' /\ BoundsType'
<1>1. SUFFICES \E k \in Commands, c \in Call : CallOK(k, c) /\ Begin(p, k, c) /\ calls < MaxCalls
  BY BeginOK
<1>2. ASSUME NEW d \in Disks, UnmarkAsSpare(p, d)
      PROVE  \E k \in Commands, c \in Call : CallOK(k, c) /\ Begin(p, k, c) /\ calls < MaxCalls
  <2> DEFINE c == [NoCall EXCEPT !.op = "RemoveSpare", !.arr = held[d], !.todo = {d}, !.seen = Visible(held[d])]
  <2>1. c \in Call
    BY NoCallType, WorldFacts DEF Call, Ops
  <2>2. CallOK("unplug", c)
    BY DEF CallOK, CallSafe, CallOwns, NoCall
  <2> QED BY <1>2, <2>1, <2>2 DEF UnmarkAsSpare, MayBegin, Commands
<1>3. ASSUME NEW d \in Disks, ClearMetadata(p, d)
      PROVE  \E k \in Commands, c \in Call : CallOK(k, c) /\ Begin(p, k, c) /\ calls < MaxCalls
  <2> DEFINE c == [NoCall EXCEPT !.op = "ClearMetadata", !.todo = {d}, !.cur = {d}]
  <2>1. c \in Call
    BY NoCallType DEF Call, Ops
  <2>2. CallOK("wipe", c)
    BY DEF CallOK, CallSafe, CallOwns, NoCall
  <2> QED BY <1>3, <2>1, <2>2 DEF ClearMetadata, MayBegin, Commands
<1>4. ASSUME NEW v \in Vols, Delete(p, v)
      PROVE  \E k \in Commands, c \in Call : CallOK(k, c) /\ Begin(p, k, c) /\ calls < MaxCalls
  <2> DEFINE c == [NoCall EXCEPT !.op = "Delete", !.arr = volume[v].arr, !.vol = {v},
                                 !.disks = Components(volume[v].arr), !.seen = Visible(volume[v].arr)]
  <2>1. c \in Call
    BY NoCallType, WorldFacts DEF Call, Ops
  <2>2. CallOK("stopVolume", c)
    BY DEF CallOK, CallSafe, CallOwns, NoCall
  <2> QED BY <1>4, <2>1, <2>2 DEF Delete, MayBegin, Commands
<1>5. ASSUME NEW v \in Vols, Rename(p, v)
      PROVE  \E k \in Commands, c \in Call : CallOK(k, c) /\ Begin(p, k, c) /\ calls < MaxCalls
  <2>1. PICK plan \in {<<"name">>, <<"scan">>} :
          Begin(p, "stopVolume", [NoCall EXCEPT !.op = "Rename", !.arr = volume[v].arr, !.vol = {v},
                                                !.plan = plan, !.seen = Visible(volume[v].arr)])
    BY <1>5 DEF Rename
  <2> DEFINE c == [NoCall EXCEPT !.op = "Rename", !.arr = volume[v].arr, !.vol = {v},
                                 !.plan = plan, !.seen = Visible(volume[v].arr)]
  <2>2. plan \in Seq(Commands \cup {"refuse"})
    <3>1. "name" \in Commands \cup {"refuse"} /\ "scan" \in Commands \cup {"refuse"}
      BY DEF Commands
    <3>2. <<"name">> \in Seq(Commands \cup {"refuse"})
      BY <3>1
    <3>3. <<"scan">> \in Seq(Commands \cup {"refuse"})
      BY <3>1
    <3> QED BY <3>2, <3>3
  <2>3. c \in Call
    BY <2>2, NoCallType, WorldFacts DEF Call, Ops
  <2>4. CallOK("stopVolume", c)
    BY DEF CallOK, CallSafe, CallOwns, NoCall
  <2> QED BY <1>5, <2>1, <2>3, <2>4 DEF Rename, MayBegin, Commands
<1>6. ASSUME NEW v \in Vols, CancelVerify(p, v)
      PROVE  \E k \in Commands, c \in Call : CallOK(k, c) /\ Begin(p, k, c) /\ calls < MaxCalls
  <2> DEFINE c == [NoCall EXCEPT !.op = "CancelVerify", !.vol = {v}]
  <2>1. c \in Call
    BY NoCallType DEF Call, Ops
  <2>2. CallOK("cancel", c)
    BY DEF CallOK, CallSafe, CallOwns, NoCall
  <2> QED BY <1>6, <2>1, <2>2 DEF CancelVerify, MayBegin, Commands
<1>7. ASSUME NEW v \in Vols, NEW op \in {"Expand", "Verify"}, Sync(p, v, op)
      PROVE  \E k \in Commands, c \in Call : CallOK(k, c) /\ Begin(p, k, c) /\ calls < MaxCalls
  <2> DEFINE c == [NoCall EXCEPT !.op = op, !.vol = {v}]
  <2>1. c \in Call
    BY NoCallType DEF Call, Ops
  <2>2. CallOK("sync", c)
    BY DEF CallOK, CallSafe, CallOwns, NoCall
  <2> QED BY <1>7, <2>1, <2>2 DEF Sync, MayBegin, Commands
<1>8. ASSUME NEW level \in Levels, NEW S \in SUBSET Disks, CreateFromDisks(p, level, S)
      PROVE  \E k \in Commands, c \in Call : CallOK(k, c) /\ Begin(p, k, c) /\ calls < MaxCalls
  <2> DEFINE c == [NoCall EXCEPT !.op = "Create", !.level = level, !.disks = S]
  <2>1. c \in Call
    BY NoCallType DEF Call, Ops
  <2>2. Clean(S)
    BY <1>8 DEF CreateFromDisks, Usable, Clean
  <2>3. CallOK("create", c)
    BY <2>2 DEF CallOK, CallSafe, CallOwns, NoCall
  <2> QED BY <1>8, <2>1, <2>3 DEF CreateFromDisks, MayBegin, Commands
<1>9. ASSUME NEW level \in Levels, NEW a \in Arrays, CreateFromArray(p, level, a)
      PROVE  \E k \in Commands, c \in Call : CallOK(k, c) /\ Begin(p, k, c) /\ calls < MaxCalls
  <2> DEFINE members == {d \in Components(a) : Usage(d) = "ArrayMember"}
             S == IF members = {} THEN Components(a) ELSE members
             c == [NoCall EXCEPT !.op = "CreateFromArray", !.arr = a, !.level = level,
                                 !.disks = S, !.seen = Visible(a)]
  <2>1. S \in SUBSET Disks /\ Visible(a) \in SUBSET Vols /\ a \in Container
    BY DEF Components, Visible, Of, Container
  <2>2. c \in Call
    <3> HIDE DEF S
    <3> QED BY <2>1, NoCallType DEF Call, Ops
  <2>3. CallOK("createVolume", c)
    BY DEF CallOK, CallSafe, CallOwns, NoCall
  <2> QED BY <1>9, <2>2, <2>3 DEF CreateFromArray, MayBegin, Commands
<1> QED BY <1>2, <1>3, <1>4, <1>5, <1>6, <1>7, <1>8, <1>9

LEMMA CallAPIOK ==
  ASSUME WorldType, CallsType, CallsOK, BoundsType, NEW p \in Procs, CallAPI(p)
  PROVE  CallsType' /\ CallsOK' /\ BoundsType' /\ UNCHANGED <<world, stuck>>
<1>1. CallsType' /\ CallsOK' /\ BoundsType'
  BY SpareCallsOK, OtherCallsOK, AddDisksOK, ModifyOK DEF CallAPI
<1>2. UNCHANGED <<world, stuck>>
  BY DEF CallAPI, MarkAsSpare, Rebuild, MakeSpare, UnmarkAsSpare, ClearMetadata, AddDisks, Modify, Delete,
     Rename, CancelVerify, Sync, CreateFromDisks, CreateFromArray, Chain, Begin
<1> QED BY <1>1, <1>2

-----------------------------------------------------------------------------
(* The commands *)

IInv ==
  /\ WorldType
  /\ CallsType
  /\ BoundsType
  /\ stuck \subseteq Vols
  /\ CallsOK
  /\ SystemDisksUntouched

LEMMA CallFacts ==
  ASSUME IInv, NEW p \in Procs
  PROVE  call[p] \in Call /\ CallSafe(pc[p], call[p]) /\ CallOwns(pc[p], call[p])
BY DEF IInv, CallsType, CallsOK, CallOK

LEMMA OwnStepOK ==
  ASSUME IInv, OwnStep
  PROVE  BoundsType' /\ stuck' \subseteq Vols
BY DEF IInv, OwnStep, bounds, BoundsType

(* Metadata is only taken away, or written to the clean disks of S.         *)
LEMMA Taken ==
  ASSUME IInv, NEW S, meta' = Without(meta, S)
  PROVE  meta' \in [Disks -> Container] /\ SystemDisksUntouched'
BY SystemDisksAssumption DEF IInv, WorldType, Without, SystemDisksUntouched, Container

LEMMA Written ==
  ASSUME IInv, NEW S, Clean(S), NEW a \in Container, meta' = With(meta, S, a)
  PROVE  meta' \in [Disks -> Container] /\ SystemDisksUntouched'
BY SystemDisksAssumption DEF IInv, WorldType, With, SystemDisksUntouched, Container, Clean

LEMMA AddOK ==
  ASSUME IInv, NEW p \in Procs, Add(p)
  PROVE  IInv'
<1> DEFINE c == call[p]
<1>1. c \in Call /\ CallSafe("add", c) /\ CallOwns("add", c) /\ pc[p] = "add"
  BY CallFacts DEF Add
<1>2. PICK T \in SUBSET {d \in c.todo : held[d] = NoArray /\ c.arr \in up} :
          /\ held' = With(held, T, c.arr)
          /\ meta' = With(meta, T, c.arr)
          /\ volume' = Remnant(meta')
          /\ IF T = c.todo THEN Proceed(p, [c EXCEPT !.joined = T])
             ELSE IF c.op # "GlobalSpare" THEN Return(p, "failed")
             ELSE IF c.left = {} THEN Goto(p, "create", c)
             ELSE \E a \in c.left : Goto(p, "add", [c EXCEPT !.arr = a, !.left = @ \ {a}])
  BY DEF Add
<1>3. UNCHANGED up /\ OwnStep
  BY DEF Add
<1>4. c.arr \in Container /\ Clean(c.todo) /\ T \subseteq c.todo /\ T \subseteq Disks
  BY <1>1 DEF Call, CallSafe
<1>5. Clean(T)
  BY <1>4 DEF Clean
<1>6. meta' \in [Disks -> Container] /\ SystemDisksUntouched'
  BY <1>2, <1>4, <1>5, Written
<1>7. held' \in [Disks -> Container] /\ volume' \in [Vols -> Volume]
  BY <1>2, <1>4, <1>6, MapTypes DEF IInv, WorldType
<1>8. WorldType'
  BY <1>3, <1>6, <1>7 DEF IInv, WorldType
<1>9. BoundsType' /\ stuck' \subseteq Vols
  BY <1>3, OwnStepOK
<1>10. CallsType' /\ CallsOK'
  <2> HIDE DEF c
  <2>1. CASE T = c.todo
    <3> DEFINE d == [c EXCEPT !.joined = T]
    <3>1. d \in Call /\ d.joined = T /\ d.op = c.op /\ d.want = c.want /\ d.plan = c.plan
          /\ d.disks = c.disks /\ d.todo = c.todo
      BY <1>1, <1>4 DEF Call
    <3>2. Proceed(p, d)
      BY <1>2, <2>1
    <3>3. /\ c.op = "GlobalSpare" => Clean(c.want)
          /\ c.plan \in Chains
          /\ c.plan = <<"add", "reshape">> => Clean(c.todo)
          /\ c.op \in {"Grow", "Modify"} => c.disks \subseteq c.todo
      BY <1>1 DEF CallSafe, CallOwns
    <3> HIDE DEF d
    <3>4. CallsType /\ CallsOK
      BY DEF IInv
    <3>5. CallsOK'
      BY <2>1, <3>1, <3>2, <3>3, <3>4, ProceedOK
    <3> QED BY <3>1, <3>2, <3>4, <3>5, ProceedType
  <2>2. CASE T # c.todo /\ c.op # "GlobalSpare"
    BY <1>2, <2>2, ReturnOK, ReturnType DEF IInv, Results
  <2>3. CASE T # c.todo /\ c.op = "GlobalSpare" /\ c.left = {}
    <3>1. Goto(p, "create", c) /\ CallOK("create", c)
      BY <1>1, <1>2, <2>3 DEF CallOK, CallSafe, CallOwns
    <3> QED BY <1>1, <3>1, GotoOK, GotoType DEF IInv, Commands
  <2>4. CASE T # c.todo /\ c.op = "GlobalSpare" /\ c.left # {}
    <3>1. PICK a \in c.left : Goto(p, "add", [c EXCEPT !.arr = a, !.left = @ \ {a}])
      BY <1>2, <2>4
    <3> DEFINE d == [c EXCEPT !.arr = a, !.left = @ \ {a}]
    <3>2. /\ d \in Call /\ d.op = c.op /\ d.want = c.want /\ d.plan = c.plan
          /\ d.disks = c.disks /\ d.todo = c.todo
      BY <1>1 DEF Call, Container
    <3> HIDE DEF d
    <3>3. CallOK("add", d)
      BY <1>1, <2>4, <3>2 DEF CallOK, CallSafe, CallOwns
    <3> QED BY <3>1, <3>2, <3>3, GotoOK, GotoType DEF IInv, Commands, d
  <2> QED BY <2>1, <2>2, <2>3, <2>4
<1> QED BY <1>6, <1>8, <1>9, <1>10 DEF IInv

(* A command that leaves the disks alone *)
LEMMA VolumesOnly ==
  ASSUME IInv, UNCHANGED <<held, meta, up>>, volume' \in [Vols -> Volume],
         BoundsType', stuck' \subseteq Vols, CallsType', CallsOK'
  PROVE  IInv'
BY DEF IInv, WorldType, SystemDisksUntouched

LEMMA TakeBackOK ==
  ASSUME IInv, NEW p \in Procs, NEW c \in Call, TakeBack(p, c), CallSafe("reshape", c),
         c.op \in {"Grow", "Modify"} => c.disks \subseteq c.joined
  PROVE  CallsType' /\ CallsOK'
<1> DEFINE d == [c EXCEPT !.todo = c.disks, !.status = "failed"]
<1>1. CallsType'
  BY TakeBackType DEF IInv
<1>2. CASE c.disks = {}
  BY <1>1, <1>2, ReturnOK DEF TakeBack, IInv
<1>3. CASE c.disks # {}
  <2>1. d.op = c.op /\ d.want = c.want /\ d.joined = c.joined /\ d.todo = c.disks
    BY DEF Call
  <2>2. Goto(p, "unplug", d)
    BY <1>3 DEF TakeBack
  <2> HIDE DEF d
  <2>3. CallOK("unplug", d)
    BY <2>1 DEF CallOK, CallSafe, CallOwns
  <2> QED BY <1>1, <2>2, <2>3, GotoOK DEF IInv
<1> QED BY <1>2, <1>3

LEMMA ReshapeOK ==
  ASSUME IInv, NEW p \in Procs, Reshape(p)
  PROVE  IInv'
<1> DEFINE c == call[p]
           Grown(T) == [v \in Vols |->
                          IF v \in Visible(c.arr)
                          THEN [volume[v] EXCEPT !.disks = @ \cup T, !.state = "Busy"] ELSE volume[v]]
<1>1. c \in Call /\ CallSafe("reshape", c) /\ CallOwns("reshape", c)
  BY CallFacts DEF Reshape
<1>2. \/ (\E T \in SUBSET Spares(c.arr) : volume' = Grown(T)) /\ Proceed(p, c)
      \/ TakeBack(p, c) /\ UNCHANGED volume
  BY DEF Reshape
<1>3. UNCHANGED <<held, meta, up>> /\ BoundsType' /\ stuck' \subseteq Vols
  BY OwnStepOK DEF Reshape
<1>4. volume' \in [Vols -> Volume]
  <2>1. ASSUME NEW T \in SUBSET Spares(c.arr) PROVE Grown(T) \in [Vols -> Volume]
    <3>1. T \subseteq Disks
      BY DEF Spares, Components
    <3> QED BY <3>1 DEF IInv, WorldType, Volume
  <2> QED BY <1>2, <2>1 DEF IInv, WorldType
<1>5. CallsType' /\ CallsOK'
  <2> HIDE DEF c
  <2>1. CASE Proceed(p, c)
    <3>1. /\ c.op = "GlobalSpare" => Clean(c.want)
          /\ c.plan \in Chains
          /\ c.plan = <<"add", "reshape">> =>
               Clean(c.todo) /\ (c.op \in {"Grow", "Modify"} => c.disks \subseteq c.todo)
          /\ c.op \in {"Grow", "Modify"} => c.disks \subseteq c.joined
      BY <1>1 DEF CallSafe, CallOwns
    <3>2. CallsOK'
      BY <1>1, <2>1, <3>1, ProceedOK DEF IInv
    <3> QED BY <1>1, <2>1, <3>2, ProceedType DEF IInv
  <2>2. CASE TakeBack(p, c)
    BY <1>1, <2>2, TakeBackOK DEF CallOwns
  <2> QED BY <1>2, <2>1, <2>2
<1> QED BY <1>3, <1>4, <1>5, VolumesOnly

LEMMA RelevelOK ==
  ASSUME IInv, NEW p \in Procs, Relevel(p)
  PROVE  IInv'
<1> DEFINE c == call[p]
<1>1. c \in Call /\ CallSafe("relevel", c) /\ CallOwns("relevel", c)
  BY CallFacts DEF Relevel
<1>2. \/ /\ \E v \in c.vol, D \in SUBSET Disks :
              volume' = [volume EXCEPT ![v].disks = D, ![v].level = c.level, ![v].state = "Busy"]
         /\ Proceed(p, c)
      \/ RelevelFails(p, c) /\ UNCHANGED volume
  <2>1. \A v \in Vols : volume[v].disks \subseteq Disks
    BY DEF IInv, WorldType, Volume
  <2>2. Spares(c.arr) \subseteq Disks /\ c.vol \subseteq Vols
    BY <1>1 DEF Spares, Components, Call
  <2> QED BY <2>1, <2>2 DEF Relevel
<1>3. UNCHANGED <<held, meta, up>> /\ BoundsType' /\ stuck' \subseteq Vols
  BY OwnStepOK DEF Relevel
<1>4. volume' \in [Vols -> Volume]
  <2>1. c.level \in Levels /\ c.vol \subseteq Vols
    BY <1>1 DEF Call
  <2> HIDE DEF c
  <2>2. ASSUME NEW v \in Vols, NEW D \in SUBSET Disks
        PROVE  [volume EXCEPT ![v].disks = D, ![v].level = c.level, ![v].state = "Busy"] \in [Vols -> Volume]
    <3>1. [volume[v] EXCEPT !.disks = D, !.level = c.level, !.state = "Busy"] \in Volume
      BY <2>1 DEF IInv, WorldType, Volume
    <3>2. [volume EXCEPT ![v].disks = D, ![v].level = c.level, ![v].state = "Busy"]
            = [volume EXCEPT ![v] = [volume[v] EXCEPT !.disks = D, !.level = c.level, !.state = "Busy"]]
      BY DEF IInv, WorldType, Volume
    <3> QED BY <3>1, <3>2 DEF IInv, WorldType
  <2>3. CASE \E v \in c.vol, D \in SUBSET Disks :
               volume' = [volume EXCEPT ![v].disks = D, ![v].level = c.level, ![v].state = "Busy"]
    <3>1. PICK v \in c.vol, D \in SUBSET Disks :
            volume' = [volume EXCEPT ![v].disks = D, ![v].level = c.level, ![v].state = "Busy"]
      BY <2>3
    <3>2. v \in Vols
      BY <2>1
    <3> QED BY <2>2, <3>1, <3>2
  <2> QED BY <1>2, <2>3 DEF IInv, WorldType
<1>5. CallsType' /\ CallsOK'
  <2> HIDE DEF c
  <2>1. CASE Proceed(p, c)
    <3>1. /\ c.op = "GlobalSpare" => Clean(c.want)
          /\ c.plan \in Chains
          /\ c.plan = <<"add", "reshape">> =>
               Clean(c.todo) /\ (c.op \in {"Grow", "Modify"} => c.disks \subseteq c.todo)
          /\ c.plan \in {<<"reshape">>, <<"relevel">>} /\ c.op \in {"Grow", "Modify"} =>
               c.disks \subseteq c.joined
      BY <1>1 DEF CallSafe, CallOwns
    <3>2. CallsOK'
      BY <1>1, <2>1, <3>1, ProceedOK DEF IInv
    <3> QED BY <1>1, <2>1, <3>2, ProceedType DEF IInv
  <2>2. CASE RelevelFails(p, c)
    <3>1. CASE c.level = 0
      BY <2>2, <3>1, ReturnOK, ReturnType DEF RelevelFails, IInv, Results
    <3>2. CASE c.level # 0
      <4>1. TakeBack(p, c) /\ CallSafe("reshape", c)
        BY <1>1, <2>2, <3>2 DEF RelevelFails, CallSafe
      <4>2. c.op \in {"Grow", "Modify"} => c.disks \subseteq c.joined
        BY <1>1, <3>2 DEF CallOwns
      <4> QED BY <1>1, <4>1, <4>2, TakeBackOK
    <3> QED BY <3>1, <3>2
  <2> QED BY <1>2, <2>1, <2>2
<1> QED BY <1>3, <1>4, <1>5, VolumesOnly

(* A command that is not one of a growth, and what comes after it *)
Quiet == Commands \ {"add", "reshape", "relevel", "create", "stopVolume", "unplug", "wipe"}

LEMMA QuietOK ==
  ASSUME NEW k \in Quiet, NEW c, NEW j, CallSafe(j, c)
  PROVE  CallOK(k, c)
BY DEF Quiet, CallOK, CallSafe, CallOwns

LEMMA GoOK ==
  ASSUME IInv, NEW p \in Procs, NEW k \in Commands, NEW c \in Call, CallOK(k, c), Goto(p, k, c)
  PROVE  CallsType' /\ CallsOK'
BY GotoOK, GotoType DEF IInv

LEMMA EndOK ==
  ASSUME IInv, NEW p \in Procs, NEW status \in Results, Return(p, status)
  PROVE  CallsType' /\ CallsOK'
BY ReturnOK, ReturnType DEF IInv

(* The disks still to be taken out are some of those the call had there.    *)
LEMMA NextSpareOK ==
  ASSUME IInv, NEW p \in Procs, NEW c \in Call, NextSpare(p, c), CallOK("unplug", c)
  PROVE  CallsType' /\ CallsOK'
<1>1. Status(c) \in Results /\ "unplug" \in Commands
  BY DEF Status, Results, Commands
<1> QED BY <1>1, GoOK, EndOK DEF NextSpare

LEMMA RetryOK ==
  ASSUME IInv, NEW p \in Procs, NEW c \in Call, NEW k, CallSafe(k, c), Retry(p, c)
  PROVE  CallsType' /\ CallsOK' /\ stuck' \subseteq Vols
<1>1. CallsType' /\ stuck' \subseteq Vols
  BY RetryType DEF IInv
<1>2. CASE c.tries + 1 < MaxTries
  <2> DEFINE d == [c EXCEPT !.tries = @ + 1]
  <2>1. d.op = c.op /\ d.want = c.want
    BY DEF Call
  <2>2. Goto(p, "stopArray", d)
    BY <1>2 DEF Retry
  <2> HIDE DEF d
  <2>3. CallOK("stopArray", d)
    BY <2>1 DEF CallOK, CallSafe, CallOwns
  <2> QED BY <1>1, <2>2, <2>3, GotoOK DEF IInv
<1>3. CASE ~(c.tries + 1 < MaxTries)
  BY <1>1, <1>3, ReturnOK DEF Retry, IInv
<1> QED BY <1>1, <1>2, <1>3

LEMMA UnplugOK ==
  ASSUME IInv, NEW p \in Procs, Unplug(p)
  PROVE  IInv'
<1> DEFINE c == call[p]
<1>1. c \in Call /\ CallSafe("unplug", c) /\ CallOwns("unplug", c)
  BY CallFacts DEF Unplug
<1>2. PICK d \in c.todo :
        \/ /\ held[d] = c.arr
           /\ \A v \in Visible(c.arr) : d \notin volume[v].disks
           /\ held' = Without(held, {d})
           /\ Goto(p, "wipe", [c EXCEPT !.cur = {d}])
        \/ /\ NextSpare(p, [c EXCEPT !.todo = @ \ {d}, !.status = "failed", !.refused = TRUE])
           /\ UNCHANGED held
  BY DEF Unplug
<1>3. UNCHANGED <<meta, up, volume>> /\ BoundsType' /\ stuck' \subseteq Vols
  <2>1. \A a : Of(a) \subseteq Vols
    BY DEF Of
  <2> QED BY <2>1 DEF Unplug, IInv, bounds, BoundsType
<1>4. held' \in [Disks -> Container]
  <2>1. NoArray \in Container /\ WorldType
    BY DEF Container, IInv
  <2>2. Without(held, {d}) \in [Disks -> Container]
    BY <2>1, MapTypes DEF WorldType
  <2> QED BY <1>2, <2>1, <2>2 DEF WorldType
<1>5. CallsType' /\ CallsOK'
  <2> HIDE DEF c
  <2>1. CASE Goto(p, "wipe", [c EXCEPT !.cur = {d}])
    <3> DEFINE e == [c EXCEPT !.cur = {d}]
    <3>1. e \in Call /\ e.op = c.op /\ e.want = c.want /\ e.todo = c.todo /\ e.joined = c.joined
      BY <1>1 DEF Call
    <3> HIDE DEF e
    <3>2. CallOK("wipe", e)
      BY <1>1, <3>1 DEF CallOK, CallSafe, CallOwns
    <3> QED BY <2>1, <3>1, <3>2, GoOK DEF Commands, e
  <2>2. CASE NextSpare(p, [c EXCEPT !.todo = @ \ {d}, !.status = "failed", !.refused = TRUE])
    <3> DEFINE e == [c EXCEPT !.todo = @ \ {d}, !.status = "failed", !.refused = TRUE]
    <3>1. e \in Call /\ e.op = c.op /\ e.want = c.want /\ e.todo = c.todo \ {d} /\ e.joined = c.joined
      BY <1>1 DEF Call
    <3> HIDE DEF e
    <3>2. CallOK("unplug", e)
      BY <1>1, <3>1 DEF CallOK, CallSafe, CallOwns
    <3> QED BY <2>2, <3>1, <3>2, NextSpareOK DEF e
  <2> QED BY <1>2, <2>1, <2>2
<1> QED BY <1>3, <1>4, <1>5 DEF IInv, WorldType, SystemDisksUntouched

LEMMA WipeOK ==
  ASSUME IInv, NEW p \in Procs, Wipe(p)
  PROVE  IInv'
<1> DEFINE c == call[p]
           rest == [c EXCEPT !.todo = @ \ c.cur, !.cur = {}]
           fail == [rest EXCEPT !.status = "failed", !.refused = TRUE]
<1>1. c \in Call /\ CallSafe("wipe", c) /\ CallOwns("wipe", c)
  BY CallFacts DEF Wipe
<1>2. \/ meta' = Without(meta, c.cur) /\ volume' = Remnant(meta') /\ NextSpare(p, rest)
      \/ NextSpare(p, fail) /\ UNCHANGED <<meta, volume>>
  BY DEF Wipe
<1>3. UNCHANGED <<held, up>> /\ BoundsType' /\ stuck' \subseteq Vols
  BY OwnStepOK DEF Wipe
<1>4. meta' \in [Disks -> Container] /\ SystemDisksUntouched'
  <2>1. CASE meta' = Without(meta, c.cur)
    BY <2>1, Taken
  <2>2. CASE UNCHANGED meta
    BY <2>2 DEF IInv, WorldType, SystemDisksUntouched
  <2> QED BY <1>2, <2>1, <2>2
<1>5. volume' \in [Vols -> Volume]
  BY <1>2, <1>4, MapTypes DEF IInv, WorldType, Container
<1>6. CallsType' /\ CallsOK'
  <2>1. /\ rest \in Call /\ rest.op = c.op /\ rest.want = c.want /\ rest.todo \subseteq c.todo
        /\ rest.joined = c.joined
        /\ fail \in Call /\ fail.op = c.op /\ fail.want = c.want /\ fail.todo \subseteq c.todo
        /\ fail.joined = c.joined
    <3> HIDE DEF c
    <3> QED BY <1>1 DEF Call
  <2> HIDE DEF c, rest, fail
  <2>2. CallOK("unplug", rest) /\ CallOK("unplug", fail)
    BY <1>1, <2>1 DEF CallOK, CallSafe, CallOwns
  <2> QED BY <1>2, <2>1, <2>2, NextSpareOK
<1> QED BY <1>3, <1>4, <1>5, <1>6 DEF IInv, WorldType

LEMMA StopVolumeOK ==
  ASSUME IInv, NEW p \in Procs, StopVolume(p)
  PROVE  IInv'
<1> DEFINE c == call[p]
           down == [c EXCEPT !.status = IF c.plan = <<"scan">> THEN "failed" ELSE "ok"]
           fail == [c EXCEPT !.status = "failed"]
<1>1. c \in Call /\ CallSafe("stopVolume", c)
  BY CallFacts DEF StopVolume
<1>2. /\ \/ \E v \in c.vol : volume' = [volume EXCEPT ![v].running = FALSE]
         \/ UNCHANGED volume
      /\ \/ c.op = "Rename" /\ Goto(p, Head(c.plan), down)
         \/ Goto(p, "stopArray", c)
         \/ Goto(p, "kill", c)
         \/ Goto(p, "assemble", fail)
         \/ Return(p, "failed")
  BY DEF StopVolume
<1>3. UNCHANGED <<held, meta, up>> /\ BoundsType' /\ stuck' \subseteq Vols
  <2>1. c.vol \subseteq Vols
    BY <1>1 DEF Call
  <2>2. UNCHANGED <<held, meta, up, bounds>>
    BY DEF StopVolume
  <2>3. stuck' \subseteq stuck \cup c.vol
    BY DEF StopVolume
  <2> QED BY <2>1, <2>2, <2>3 DEF IInv, bounds, BoundsType
<1>4. volume' \in [Vols -> Volume]
  <2>1. c.vol \subseteq Vols
    BY <1>1 DEF Call
  <2> HIDE DEF c
  <2> QED BY <1>2, <2>1 DEF IInv, WorldType, Volume
<1>5. CallsType' /\ CallsOK'
  <2>1. down \in Call /\ fail \in Call /\ CallSafe("stopVolume", down) /\ CallSafe("stopVolume", fail)
    <3> HIDE DEF c
    <3>1. /\ down \in Call /\ down.op = c.op /\ down.want = c.want /\ down.plan = c.plan
          /\ fail \in Call /\ fail.op = c.op /\ fail.want = c.want /\ fail.plan = c.plan
          /\ down.vol = c.vol /\ fail.vol = c.vol
      BY <1>1 DEF Call
    <3> HIDE DEF down, fail
    <3> QED BY <1>1, <3>1 DEF CallSafe
  <2> HIDE DEF c, down, fail
  <2>2. CASE c.op = "Rename" /\ Goto(p, Head(c.plan), down)
    <3>1. c.plan \in {<<"name">>, <<"scan">>}
      BY <1>1, <2>2 DEF CallSafe
    <3>2. Head(c.plan) \in {"name", "scan"}
      <4>1. CASE c.plan = <<"name">>
        BY <4>1
      <4>2. CASE c.plan = <<"scan">>
        BY <4>2
      <4> QED BY <3>1, <4>1, <4>2
    <3>3. Head(c.plan) \in Quiet /\ Head(c.plan) \in Commands
      BY <3>2 DEF Quiet, Commands
    <3> QED BY <2>1, <2>2, <3>3, QuietOK, GoOK
  <2>3. "stopArray" \in Quiet /\ "kill" \in Quiet /\ "assemble" \in Quiet /\ Quiet \subseteq Commands
    BY DEF Quiet, Commands
  <2>4. "failed" \in Results
    BY DEF Results
  <2> QED BY <1>1, <1>2, <2>1, <2>2, <2>3, <2>4, QuietOK, GoOK, EndOK
<1> QED BY <1>3, <1>4, <1>5, VolumesOnly

LEMMA KillOK ==
  ASSUME IInv, NEW p \in Procs, Kill(p)
  PROVE  IInv'
<1>1. call[p].vol \subseteq Vols
  BY CallFacts DEF Call
<1>2. NoVolume \in Volume
  BY DEF NoVolume, Volume, Container, Levels
<1>3. volume' \in [Vols -> Volume]
  BY <1>1, <1>2 DEF Kill, IInv, WorldType
<1>4. stuck' \subseteq Vols /\ UNCHANGED <<held, meta, up, bounds>>
  BY <1>1 DEF Kill, IInv
<1>5. BoundsType'
  BY <1>4 DEF IInv, bounds, BoundsType
<1>6. "ok" \in Results /\ "failed" \in Results
  BY DEF Results
<1>7. CallsType' /\ CallsOK'
  BY <1>6, EndOK DEF Kill
<1> QED BY <1>3, <1>4, <1>5, <1>7, VolumesOnly

LEMMA StopArrayOK ==
  ASSUME IInv, NEW p \in Procs, StopArray(p)
  PROVE  IInv'
<1> DEFINE c == call[p]
<1>1. c \in Call /\ CallSafe("stopArray", c)
  BY CallFacts DEF StopArray
<1>2. CASE /\ up' = up \ {c.arr}
           /\ held' = Without(held, Components(c.arr))
           /\ volume' = Remnant(meta)
           /\ Goto(p, "wipeAll", c)
           /\ stuck' = stuck \cup (Of(c.arr) \ c.seen)
  <2>1. "wipeAll" \in Quiet /\ "wipeAll" \in Commands
    BY DEF Quiet, Commands
  <2>2. CallsType' /\ CallsOK'
    BY <1>1, <1>2, <2>1, QuietOK, GoOK
  <2>3. held' \in [Disks -> Container] /\ up' \subseteq Arrays /\ volume' \in [Vols -> Volume]
    BY <1>2, MapTypes DEF IInv, WorldType, Container
  <2>4. UNCHANGED <<meta, bounds>>
    BY DEF StopArray
  <2>5. stuck' \subseteq Vols
    BY <1>2 DEF Of, IInv
  <2> QED BY <1>2, <2>2, <2>3, <2>4, <2>5 DEF IInv, WorldType, bounds, BoundsType, SystemDisksUntouched
<1>3. CASE Retry(p, c) /\ UNCHANGED <<up, held, volume>>
  <2>1. CallsType' /\ CallsOK' /\ stuck' \subseteq Vols
    BY <1>1, <1>3, RetryOK
  <2>2. UNCHANGED <<meta, bounds>>
    BY DEF StopArray
  <2> QED BY <1>3, <2>1, <2>2 DEF IInv, WorldType, bounds, BoundsType, SystemDisksUntouched
<1> QED BY <1>2, <1>3 DEF StopArray

LEMMA WipeAllOK ==
  ASSUME IInv, NEW p \in Procs, WipeAll(p)
  PROVE  IInv'
<1> DEFINE c == call[p]
<1>1. c \in Call /\ CallSafe("wipeAll", c)
  BY CallFacts DEF WipeAll
<1>2. PICK T : /\ meta' = Without(meta, T)
               /\ volume' = Remnant(meta')
               /\ IF T # c.disks THEN Retry(p, c)
                  ELSE /\ Return(p, IF c.op = "Delete" THEN "ok" ELSE "failed")
                       /\ stuck' = stuck \cup {v \in c.vol : volume'[v] # NoVolume}
  BY DEF WipeAll
<1>3. UNCHANGED <<held, up, bounds>>
  BY DEF WipeAll
<1>4. meta' \in [Disks -> Container] /\ SystemDisksUntouched'
  BY <1>2, Taken
<1>5. volume' \in [Vols -> Volume]
  BY <1>2, <1>4, MapTypes DEF IInv, WorldType, Container
<1>6. CallsType' /\ CallsOK' /\ stuck' \subseteq Vols
  <2>1. CASE T # c.disks
    BY <1>1, <1>2, <2>1, RetryOK
  <2>2. CASE T = c.disks
    <3>1. (IF c.op = "Delete" THEN "ok" ELSE "failed") \in Results
      BY DEF Results
    <3>2. c.vol \subseteq Vols
      BY <1>1 DEF Call
    <3> HIDE DEF c
    <3> QED BY <1>2, <2>2, <3>1, <3>2, EndOK DEF IInv
  <2> QED BY <2>1, <2>2
<1> QED BY <1>3, <1>4, <1>5, <1>6 DEF IInv, WorldType, bounds, BoundsType

LEMMA StepsOfRename ==
  ASSUME IInv, NEW p \in Procs, Name(p) \/ Scan(p)
  PROVE  IInv'
<1> DEFINE c == call[p]
<1>1. c \in Call /\ \E k : CallSafe(k, c)
  BY CallFacts
<1>2. \/ \E k \in {"scan", "assemble"}, status \in {"ok", "failed"} : Goto(p, k, [c EXCEPT !.status = status])
      \/ Return(p, "thrown")
  <2>1. CASE Name(p)
    <3>1. c = [c EXCEPT !.status = c.status] /\ c.status \in {"ok", "failed"}
      <4> HIDE DEF c
      <4> QED BY <1>1 DEF Call
    <3>2. Goto(p, "scan", c) \/ Goto(p, "scan", [c EXCEPT !.status = "failed"])
      BY <2>1 DEF Name
    <3> HIDE DEF c
    <3> QED BY <3>1, <3>2
  <2>2. CASE Scan(p)
    <3>1. c.status \in {"ok", "failed"}
      <4> HIDE DEF c
      <4> QED BY <1>1 DEF Call
    <3> QED BY <2>2, <3>1 DEF Scan
  <2> QED BY <2>1, <2>2
<1>3. UNCHANGED <<world, bounds>> /\ stuck' \subseteq Vols
  <2>1. c.vol \subseteq Vols
    <3> HIDE DEF c
    <3> QED BY <1>1 DEF Call
  <2> QED BY <2>1 DEF Name, Scan, OwnStep, IInv
<1>4. ASSUME NEW k \in {"scan", "assemble"}, NEW status \in {"ok", "failed"},
             Goto(p, k, [c EXCEPT !.status = status])
      PROVE  CallsType' /\ CallsOK'
  <2> DEFINE d == [c EXCEPT !.status = status]
  <2> HIDE DEF c
  <2>1. d \in Call /\ d.op = c.op /\ d.want = c.want
    BY <1>1 DEF Call
  <2> HIDE DEF d
  <2>2. CallOK(k, d)
    BY <1>1, <2>1 DEF CallOK, CallSafe, CallOwns
  <2> QED BY <1>4, <2>1, <2>2, GoOK DEF d, Commands
<1>5. CallsType' /\ CallsOK'
  BY <1>2, <1>4, EndOK DEF Results
<1>6. BoundsType'
  BY <1>3 DEF IInv, bounds, BoundsType
<1> QED BY <1>3, <1>5, <1>6, VolumesOnly DEF world, IInv, WorldType

(* What mdadm -I starts, and how *)
LEMMA Restarted ==
  ASSUME IInv, NEW p \in Procs, Assemble(p), ~UNCHANGED volume
  PROVE  /\ volume' \in [Vols -> Volume]
         /\ call[p].arr \in up
         /\ stuck' = {v \in stuck \cup call[p].vol : Exists(v) /\ ~volume'[v].running}
         /\ \A v \in Vols :
              \/ volume'[v] = volume[v]
              \/ /\ Exists(v) /\ volume[v].arr = call[p].arr
                 /\ volume'[v].running /\ volume'[v].arr = volume[v].arr
                 /\ volume'[v].level = volume[v].level
                 /\ volume'[v].disks = There(v) /\ There(v) # {}
<1> DEFINE c == call[p]
           state(v) == IF There(v) = volume[v].disks THEN volume[v].state ELSE "Degraded"
<1>1. PICK Starts \in SUBSET {v \in Vols : Exists(v) /\ volume[v].arr = c.arr /\ Startable(v)} :
        /\ volume' = [v \in Vols |->
             IF v \in Starts THEN [volume[v] EXCEPT !.running = TRUE, !.disks = There(v), !.state = state(v)]
             ELSE volume[v]]
        /\ c.arr \in up
        /\ stuck' = {v \in stuck \cup c.vol : Exists(v) /\ ~volume'[v].running}
  BY DEF Assemble, Of
<1>2. ASSUME NEW v \in Starts
      PROVE  /\ Exists(v) /\ volume[v].arr = c.arr /\ volume[v] \in Volume /\ There(v) # {}
             /\ There(v) \in SUBSET Disks
             /\ state(v) \in {"Normal", "Degraded", "Busy", "Verifying"}
  BY DEF Startable, There, IInv, WorldType, Volume
<1> HIDE DEF state, c
<1>3. ASSUME NEW v \in Starts
      PROVE  LET n == [volume[v] EXCEPT !.running = TRUE, !.disks = There(v), !.state = state(v)]
             IN /\ n \in Volume /\ n.running /\ n.arr = volume[v].arr /\ n.level = volume[v].level
                /\ n.disks = There(v)
  BY <1>2 DEF Volume
<1>4. volume' \in [Vols -> Volume]
  BY <1>1, <1>3 DEF IInv, WorldType
<1> QED BY <1>1, <1>2, <1>3, <1>4 DEF c

LEMMA AssembleOK ==
  ASSUME IInv, NEW p \in Procs, Assemble(p)
  PROVE  IInv'
<1> DEFINE c == call[p]
<1>1. c \in Call /\ c.vol \subseteq Vols /\ c.status \in Results
  <2>1. c \in Call
    BY CallFacts
  <2> HIDE DEF c
  <2> QED BY <2>1 DEF Call, Results
<1>2. stuck' \subseteq stuck \cup c.vol /\ (Return(p, c.status) \/ Return(p, "failed"))
  BY DEF Assemble
<1>3. UNCHANGED <<held, meta, up, bounds>>
  BY DEF Assemble
<1>4. volume' \in [Vols -> Volume]
  <2>1. CASE UNCHANGED volume
    BY <2>1 DEF IInv, WorldType
  <2>2. CASE ~UNCHANGED volume
    BY <2>2, Restarted
  <2> QED BY <2>1, <2>2
<1>5. stuck' \subseteq Vols
  BY <1>1, <1>2 DEF IInv
<1>6. CallsType' /\ CallsOK'
  <2>1. "failed" \in Results
    BY DEF Results
  <2> HIDE DEF c
  <2> QED BY <1>1, <1>2, <2>1, EndOK
<1>7. BoundsType'
  BY <1>3 DEF IInv, bounds, BoundsType
<1> QED BY <1>3, <1>4, <1>5, <1>6, <1>7, VolumesOnly

LEMMA CreateOK ==
  ASSUME IInv, NEW p \in Procs, Create(p)
  PROVE  IInv'
<1> DEFINE c == call[p]
           S == IF c.op = "GlobalSpare" THEN c.want ELSE c.disks
           next(k) == [c EXCEPT !.arr = k, !.joined = S]
<1>1. c \in Call /\ CallSafe("create", c)
  BY CallFacts DEF Create
<1>2. Clean(S) /\ S \subseteq Disks
  <2> HIDE DEF c
  <2> QED BY <1>1 DEF CallSafe, Call
<1>3. CASE Return(p, "failed") /\ UNCHANGED world
  <2>1. CallsType' /\ CallsOK'
    BY <1>3, EndOK DEF Results
  <2>2. BoundsType' /\ stuck' \subseteq Vols
    BY OwnStepOK DEF Create
  <2> QED BY <1>3, <2>1, <2>2, VolumesOnly DEF world, IInv, WorldType
<1>4. ASSUME NEW a \in Arrays, NEW k \in {a, NoArray},
             up' = up \cup {a}, held' = With(held, S, a), meta' = With(meta, S, a),
             volume' = Remnant(meta'),
             \/ c.op = "GlobalSpare" /\ Return(p, "ok")
             \/ c.op # "GlobalSpare" /\ \E l \in {"createVolume", "stopArray"} : Goto(p, l, next(k)),
             OwnStep
      PROVE  IInv'
  <2>1. a \in Container /\ k \in Container /\ NoArray \in Container
    BY <1>4 DEF Container
  <2>2. meta' \in [Disks -> Container] /\ SystemDisksUntouched'
    <3> HIDE DEF S
    <3> QED BY <1>2, <1>4, <2>1, Written
  <2>3. held' \in [Disks -> Container] /\ volume' \in [Vols -> Volume]
    <3> HIDE DEF S
    <3> QED BY <1>4, <2>1, <2>2, MapTypes DEF IInv, WorldType
  <2>4. up' \subseteq Arrays
    BY <1>4 DEF IInv, WorldType
  <2>5. CallsType' /\ CallsOK'
    <3>1. CASE Return(p, "ok")
      BY <3>1, EndOK DEF Results
    <3>2. ASSUME NEW l \in {"createVolume", "stopArray"}, Goto(p, l, next(k)) PROVE CallsType' /\ CallsOK'
      <4> DEFINE d == next(k)
      <4>1. d \in Call /\ d.op = c.op /\ d.want = c.want
        <5> HIDE DEF c, S
        <5> QED BY <1>1, <1>2, <2>1 DEF Call
      <4> HIDE DEF d, c
      <4>2. CallOK(l, d)
        BY <1>1, <4>1 DEF CallOK, CallSafe, CallOwns
      <4> QED BY <3>2, <4>1, <4>2, GoOK DEF d, Commands
    <3> QED BY <1>4, <3>1, <3>2
  <2>6. BoundsType' /\ stuck' \subseteq Vols
    BY <1>4, OwnStepOK
  <2> QED BY <2>2, <2>3, <2>4, <2>5, <2>6 DEF IInv, WorldType
<1>5. \/ Return(p, "failed") /\ UNCHANGED world
      \/ \E a \in Arrays, k \in Arrays \cup {NoArray} :
           /\ k \in {a, NoArray}
           /\ up' = up \cup {a} /\ held' = With(held, S, a) /\ meta' = With(meta, S, a)
           /\ volume' = Remnant(meta')
           /\ \/ c.op = "GlobalSpare" /\ Return(p, "ok")
              \/ c.op # "GlobalSpare" /\ \E l \in {"createVolume", "stopArray"} : Goto(p, l, next(k))
  BY DEF Create
<1>6. OwnStep
  BY DEF Create
<1> QED BY <1>3, <1>4, <1>5, <1>6

LEMMA CreateVolumeOK ==
  ASSUME IInv, NEW p \in Procs, CreateVolume(p)
  PROVE  IInv'
<1> DEFINE c == call[p]
           New(a) == [arr |-> a, disks |-> c.disks, level |-> c.level, state |-> "Busy", running |-> TRUE]
<1>1. c \in Call /\ CallSafe("createVolume", c)
  BY CallFacts DEF CreateVolume
<1>2. \/ /\ \E a \in up, v \in Vols : volume' = [volume EXCEPT ![v] = New(a)]
         /\ Return(p, "ok")
      \/ /\ UNCHANGED volume
         /\ \/ Goto(p, "createVolume", [c EXCEPT !.tries = 1]) /\ c.tries = 0
            \/ Goto(p, "stopArray", [c EXCEPT !.tries = 0, !.status = "failed"])
            \/ Return(p, "failed")
  BY DEF CreateVolume
<1>3. UNCHANGED <<held, meta, up>> /\ BoundsType' /\ stuck' \subseteq Vols
  BY OwnStepOK DEF CreateVolume
<1>4. volume' \in [Vols -> Volume]
  <2>1. c.disks \subseteq Disks /\ c.level \in Levels
    <3> HIDE DEF c
    <3> QED BY <1>1 DEF Call
  <2>2. \A a \in up : New(a) \in Volume
    BY <2>1 DEF IInv, WorldType, Volume, Container
  <2> QED BY <1>2, <2>2 DEF IInv, WorldType
<1>5. CallsType' /\ CallsOK'
  <2> DEFINE again == [c EXCEPT !.tries = 1]
             undo == [c EXCEPT !.tries = 0, !.status = "failed"]
  <2>1. 0 \in 0 .. MaxTries /\ 1 \in 0 .. MaxTries
    BY MaxTriesAssumption
  <2>2. again \in Call /\ undo \in Call /\ CallSafe("createVolume", again) /\ CallSafe("createVolume", undo)
    <3> HIDE DEF c
    <3>1. /\ again \in Call /\ again.op = c.op /\ again.want = c.want
          /\ undo \in Call /\ undo.op = c.op /\ undo.want = c.want
      BY <1>1, <2>1 DEF Call
    <3> HIDE DEF again, undo
    <3> QED BY <1>1, <3>1 DEF CallSafe
  <2>3. "createVolume" \in Quiet /\ "stopArray" \in Quiet /\ Quiet \subseteq Commands
    BY DEF Quiet, Commands
  <2>4. "ok" \in Results /\ "failed" \in Results
    BY DEF Results
  <2>5. \/ Return(p, "ok") \/ Return(p, "failed")
        \/ Goto(p, "createVolume", again) \/ Goto(p, "stopArray", undo)
    BY <1>2
  <2> HIDE DEF c, again, undo
  <2> QED BY <2>2, <2>3, <2>4, <2>5, QuietOK, GoOK, EndOK
<1> QED BY <1>3, <1>4, <1>5, VolumesOnly

LEMMA SyncsOK ==
  ASSUME IInv, NEW p \in Procs, StartSync(p) \/ Cancel(p)
  PROVE  IInv'
<1>1. /\ \/ UNCHANGED volume
         \/ \E v \in call[p].vol, state \in {"Normal", "Busy", "Verifying"} :
              volume' = [volume EXCEPT ![v].state = state]
      /\ Return(p, "ok") \/ Return(p, "failed")
      /\ UNCHANGED <<held, meta, up>>
      /\ OwnStep
  BY DEF StartSync, Cancel
<1>2. call[p].vol \subseteq Vols
  BY CallFacts DEF Call
<1>3. volume' \in [Vols -> Volume]
  BY <1>1, <1>2 DEF IInv, WorldType, Volume
<1>4. "ok" \in Results /\ "failed" \in Results
  BY DEF Results
<1> QED BY <1>1, <1>3, <1>4, EndOK, OwnStepOK, VolumesOnly

LEMMA KernelOK ==
  ASSUME IInv, Kernel
  PROVE  IInv'
<1>1. UNCHANGED <<meta, up, pc, call, result, calls, stuck>>
  BY DEF Kernel, DiskFails, SpareTaken, Settles, bounds
<1>2. CallsType' /\ CallsOK'
  BY <1>1 DEF IInv, CallsType, CallsOK
<1>3. ASSUME NEW d \in Disks, DiskFails(d)
      PROVE  IInv'
  <2>1. NoArray \in Container /\ WorldType
    BY DEF Container, IInv
  <2>2. held' \in [Disks -> Container]
    BY <1>3, <2>1, MapTypes DEF WorldType, DiskFails
  <2>3. volume' \in [Vols -> Volume]
    BY <1>3 DEF DiskFails, IInv, WorldType, Volume
  <2>4. BoundsType'
    <3>1. faults < MaxFaults /\ faults' = faults + 1 /\ calls' = calls /\ BoundsType
      BY <1>1, <1>3 DEF DiskFails, IInv
    <3> QED BY <3>1, MaxFaultsAssumption DEF BoundsType
  <2> QED BY <1>1, <1>2, <2>2, <2>3, <2>4 DEF IInv, WorldType, SystemDisksUntouched
<1>4. ASSUME NEW v \in Vols, NEW d \in Disks, SpareTaken(v, d)
      PROVE  IInv'
  <2>1. volume' \in [Vols -> Volume]
    BY <1>4 DEF SpareTaken, IInv, WorldType, Volume
  <2>2. UNCHANGED <<held, faults>>
    BY <1>4 DEF SpareTaken, bounds
  <2> QED BY <1>1, <1>2, <2>1, <2>2 DEF IInv, WorldType, SystemDisksUntouched, BoundsType
<1>5. ASSUME NEW v \in Vols, Settles(v)
      PROVE  IInv'
  <2>1. volume' \in [Vols -> Volume]
    BY <1>5 DEF Settles, IInv, WorldType, Volume
  <2>2. UNCHANGED <<held, faults>>
    BY <1>5 DEF Settles, bounds
  <2> QED BY <1>1, <1>2, <2>1, <2>2 DEF IInv, WorldType, SystemDisksUntouched, BoundsType
<1> QED BY <1>3, <1>4, <1>5 DEF Kernel

-----------------------------------------------------------------------------
(* Volumes that are down *)

Working == {"kill", "stopArray", "name", "scan", "assemble"}

(* p has stopped v, in the container it works on, and is still to kill it,  *)
(* to remove it with its container or to start it again.                    *)
WorksOn(p, v) == call[p].vol = {v} /\ call[p].arr = volume[v].arr /\ pc[p] \in Working

Runs == \A v \in Vols : Exists(v) /\ volume[v].running => volume[v].arr \in up

(* A container that is gone does not come back while one of its volumes is  *)
(* still there.                                                             *)
Remains ==
  \A v \in Vols : Exists(v) /\ volume[v].arr \notin up => \E d \in volume[v].disks : meta[d] = volume[v].arr

Explained ==
  \A v \in Vols : Exists(v) /\ ~volume[v].running /\ volume[v].arr \in up =>
    v \in stuck \/ \E p \in Procs : WorksOn(p, v)

DInv == Runs /\ Remains /\ Explained

(* What a step of p leaves of the other calls *)
OthersStay(p) ==
  \A q \in Procs \ {p} : pc'[q] = pc[q] /\ call'[q].vol = call[q].vol /\ call'[q].arr = call[q].arr

LEMMA CommandOthersStay ==
  ASSUME IInv, NEW p \in Procs, Command(p)
  PROVE  OthersStay(p)
BY DEF Command, Add, Reshape, Relevel, Unplug, Wipe, StopVolume, Kill, StopArray, WipeAll, Name, Scan,
   Assemble, Create, CreateVolume, StartSync, Cancel, Proceed, TakeBack, NextSpare, Retry, RelevelFails,
   Goto, Return, IInv, CallsType, OthersStay

(* A step that stops no volume, by a call that works on none *)
LEMMA StopsNone ==
  ASSUME DInv, stuck \subseteq stuck', NEW p \in Procs, OthersStay(p), pc[p] \notin Working,
         \A v \in Vols : Exists(v)' /\ ~volume'[v].running /\ volume'[v].arr \in up' =>
           /\ Exists(v) /\ ~volume[v].running
           /\ volume[v].arr = volume'[v].arr /\ volume[v].arr \in up
  PROVE  Explained'
<1> SUFFICES ASSUME NEW v \in Vols, Exists(v)', ~volume'[v].running, volume'[v].arr \in up'
             PROVE  v \in stuck' \/ \E q \in Procs : WorksOn(q, v)'
  BY DEF Explained
<1>1. CASE v \in stuck
  BY <1>1
<1>2. CASE v \notin stuck
  <2>1. PICK q \in Procs : WorksOn(q, v)
    BY <1>2 DEF DInv, Explained
  <2>2. q # p
    BY <2>1 DEF WorksOn
  <2>3. WorksOn(q, v)'
    BY <2>1, <2>2 DEF WorksOn, OthersStay
  <2> QED BY <2>3
<1> QED BY <1>1, <1>2

(* Volumes go with their metadata, and nothing else happens to them.        *)
LEMMA RemnantStays ==
  ASSUME IInv, DInv, NEW m, volume' = Remnant(m), meta' = m
  PROVE  /\ Remains'
         /\ \A v \in Vols : Exists(v)' => volume'[v] = volume[v] /\ Exists(v)
         /\ \A v \in Vols : Exists(v)' => \E d \in volume[v].disks : m[d] = volume[v].arr
<1>1. \A v \in Vols : Exists(v)' =>
        volume'[v] = volume[v] /\ Exists(v) /\ \E d \in volume[v].disks : m[d] = volume[v].arr
  BY DEF Remnant, Exists, NoVolume
<1> QED BY <1>1 DEF Remains

LEMMA GoesWithMetadata ==
  ASSUME IInv, DInv, NEW p \in Procs, OthersStay(p), pc[p] \notin Working, stuck \subseteq stuck',
         volume' = Remnant(meta'), up' = up
  PROVE  DInv'
<1>1. /\ Remains'
      /\ \A v \in Vols : Exists(v)' => volume'[v] = volume[v] /\ Exists(v)
  BY RemnantStays
<1>2. Runs'
  BY <1>1 DEF DInv, Runs
<1>3. Explained'
  BY <1>1, StopsNone
<1> QED BY <1>1, <1>2, <1>3 DEF DInv

(* Only volumes that run are changed, and they go on running.               *)
Goes(v) ==
  \/ volume'[v] = volume[v]
  \/ Exists(v) /\ volume[v].running /\ volume'[v].arr = volume[v].arr /\ volume'[v].running

LEMMA OnlyRunning ==
  ASSUME DInv, UNCHANGED <<meta, up>>, \A v \in Vols : Goes(v)
  PROVE  /\ Runs' /\ Remains'
         /\ \A v \in Vols : Exists(v)' /\ ~volume'[v].running /\ volume'[v].arr \in up' =>
              /\ Exists(v) /\ ~volume[v].running
              /\ volume[v].arr = volume'[v].arr /\ volume[v].arr \in up
<1>1. Runs'
  BY DEF DInv, Runs, Exists, Goes
<1>2. Remains'
  <2> SUFFICES ASSUME NEW v \in Vols, Exists(v)', volume'[v].arr \notin up'
               PROVE  \E d \in volume'[v].disks : meta'[d] = volume'[v].arr
    BY DEF Remains
  <2>1. volume'[v] = volume[v]
    BY DEF Goes, DInv, Runs
  <2> QED BY <2>1 DEF DInv, Remains, Exists
<1> QED BY <1>1, <1>2 DEF Exists, Goes

LEMMA RunningChange ==
  ASSUME DInv, UNCHANGED <<meta, up>>, \A v \in Vols : Goes(v), stuck \subseteq stuck',
         NEW p \in Procs, OthersStay(p), pc[p] \notin Working
  PROVE  DInv'
BY OnlyRunning, StopsNone DEF DInv

LEMMA GrowthExplained ==
  ASSUME IInv, DInv, NEW p \in Procs, Add(p) \/ Reshape(p) \/ Relevel(p)
  PROVE  DInv'
<1>1. OthersStay(p)
  BY CommandOthersStay DEF Command
<1>2. pc[p] \notin Working
  BY DEF Add, Reshape, Relevel, Working
<1>3. stuck' = stuck /\ up' = up
  BY DEF Add, Reshape, Relevel, OwnStep
<1>4. CASE Add(p)
  <2>1. volume' = Remnant(meta')
    BY <1>4 DEF Add
  <2> QED BY <1>1, <1>2, <1>3, <2>1, GoesWithMetadata
<1>5. CASE Reshape(p)
  <2>1. meta' = meta
    BY <1>5 DEF Reshape
  <2>2. \A v \in Vols : Goes(v)
    BY <1>5 DEF Reshape, Goes, Visible, Of, IInv, WorldType, Volume
  <2> QED BY <1>1, <1>2, <1>3, <2>1, <2>2, RunningChange
<1>6. CASE Relevel(p)
  <2>1. meta' = meta
    BY <1>6 DEF Relevel
  <2>2. \A v \in Vols : Goes(v)
    <3>1. \/ UNCHANGED volume
          \/ \E v \in Visible(call[p].arr) : \E D :
               volume' = [volume EXCEPT ![v].disks = D, ![v].level = call[p].level, ![v].state = "Busy"]
      BY <1>6 DEF Relevel
    <3>2. CASE UNCHANGED volume
      BY <3>2 DEF Goes
    <3>3. CASE ~UNCHANGED volume
      <4>1. PICK w \in Visible(call[p].arr) : \E D :
              volume' = [volume EXCEPT ![w].disks = D, ![w].level = call[p].level, ![w].state = "Busy"]
        BY <3>1, <3>3
      <4>2. w \in Vols /\ Exists(w) /\ volume[w].running
        BY DEF Visible, Of
      <4>3. PICK D : volume' = [volume EXCEPT ![w].disks = D, ![w].level = call[p].level, ![w].state = "Busy"]
        BY <4>1
      <4>4. /\ \A v \in Vols \ {w} : volume'[v] = volume[v]
            /\ volume'[w].arr = volume[w].arr /\ volume'[w].running = volume[w].running
        BY <4>2, <4>3 DEF IInv, WorldType, Volume
      <4> QED BY <4>2, <4>4 DEF Goes
    <3> QED BY <3>2, <3>3
  <2> QED BY <1>1, <1>2, <1>3, <2>1, <2>2, RunningChange
<1> QED BY <1>4, <1>5, <1>6

LEMMA RemovalExplained ==
  ASSUME IInv, DInv, NEW p \in Procs, Unplug(p) \/ Wipe(p) \/ WipeAll(p)
  PROVE  DInv'
<1>1. OthersStay(p)
  BY CommandOthersStay DEF Command
<1>2. pc[p] \notin Working
  BY DEF Unplug, Wipe, WipeAll, Working
<1>3. up' = up /\ stuck \subseteq stuck'
  BY DEF Unplug, Wipe, WipeAll, OwnStep, Retry
<1>4. CASE volume' = Remnant(meta')
  BY <1>1, <1>2, <1>3, <1>4, GoesWithMetadata
<1>5. CASE UNCHANGED <<meta, volume>>
  <2>1. \A v \in Vols : Goes(v)
    BY <1>5 DEF Goes
  <2> QED BY <1>1, <1>2, <1>3, <1>5, <2>1, RunningChange
<1> QED BY <1>4, <1>5 DEF Unplug, Wipe, WipeAll

LEMMA SyncExplained ==
  ASSUME IInv, DInv, NEW p \in Procs, StartSync(p) \/ Cancel(p)
  PROVE  DInv'
<1>1. OthersStay(p)
  BY CommandOthersStay DEF Command
<1>2. pc[p] \notin Working /\ stuck' = stuck /\ UNCHANGED <<meta, up>>
  BY DEF StartSync, Cancel, Working, OwnStep
<1>3. \A v \in Vols : Goes(v)
  <2>1. call[p].vol \subseteq Vols
    BY CallFacts DEF Call
  <2>2. \/ UNCHANGED volume
        \/ \E v \in call[p].vol : \E state : /\ Exists(v) /\ volume[v].running
                                              /\ volume' = [volume EXCEPT ![v].state = state]
    BY DEF StartSync, Cancel
  <2> QED BY <2>1, <2>2 DEF Goes, IInv, WorldType, Volume
<1> QED BY <1>1, <1>2, <1>3, RunningChange

LEMMA StopExplained ==
  ASSUME IInv, DInv, NEW p \in Procs, StopVolume(p)
  PROVE  DInv'
<1> DEFINE c == call[p]
<1>1. OthersStay(p) /\ pc[p] \notin Working /\ UNCHANGED <<meta, up>>
  BY CommandOthersStay DEF Command, StopVolume, Working
<1>2. c \in Call /\ CallSafe("stopVolume", c)
  BY CallFacts DEF StopVolume
<1>3. PICK w \in Vols : c.vol = {w}
  <2> HIDE DEF c
  <2> QED BY <1>2 DEF CallSafe
<1>4. CASE UNCHANGED <<volume, stuck>>
  <2>1. \A v \in Vols : Goes(v)
    BY <1>4 DEF Goes
  <2> QED BY <1>1, <1>4, <2>1, RunningChange
<1>5. CASE ~UNCHANGED <<volume, stuck>>
  <2>1. /\ volume[w].running
        /\ volume' = [volume EXCEPT ![w].running = FALSE]
        /\ stuck' = IF volume[w].arr = c.arr THEN stuck ELSE stuck \cup {w}
    BY <1>3, <1>5 DEF StopVolume
  <2>2. call'[p].vol = c.vol /\ call'[p].arr = c.arr /\ pc'[p] \in Working
    <3> DEFINE down == [c EXCEPT !.status = IF c.plan = <<"scan">> THEN "failed" ELSE "ok"]
    <3>1. \/ c.op = "Rename" /\ Goto(p, Head(c.plan), down)
          \/ Goto(p, "stopArray", c)
          \/ Goto(p, "kill", c)
      BY <1>3, <1>5 DEF StopVolume
    <3>2. down.vol = c.vol /\ down.arr = c.arr
      <4> HIDE DEF c
      <4> QED BY <1>2 DEF Call
    <3>3. c.op = "Rename" => Head(c.plan) \in {"name", "scan"}
      <4> HIDE DEF c
      <4> SUFFICES ASSUME c.op = "Rename" PROVE Head(c.plan) \in {"name", "scan"}
        OBVIOUS
      <4>1. c.plan = <<"name">> \/ c.plan = <<"scan">>
        BY <1>2 DEF CallSafe
      <4>2. CASE c.plan = <<"name">>
        BY <4>2
      <4>3. CASE c.plan = <<"scan">>
        BY <4>3
      <4> QED BY <4>1, <4>2, <4>3
    <3> HIDE DEF down
    <3> QED BY <3>1, <3>2, <3>3 DEF Goto, Working, IInv, CallsType
  <2>3. /\ \A v \in Vols \ {w} : volume'[v] = volume[v]
        /\ volume'[w].arr = volume[w].arr /\ volume'[w].disks = volume[w].disks /\ ~volume'[w].running
    BY <2>1 DEF IInv, WorldType, Volume
  <2>4. Runs' /\ Remains'
    BY <1>1, <2>3 DEF DInv, Runs, Remains, Exists
  <2>5. Explained'
    <3> SUFFICES ASSUME NEW v \in Vols, Exists(v)', ~volume'[v].running, volume'[v].arr \in up'
                 PROVE  v \in stuck' \/ \E q \in Procs : WorksOn(q, v)'
      BY DEF Explained
    <3>1. CASE v = w
      BY <1>3, <2>1, <2>2, <2>3, <3>1 DEF WorksOn
    <3>2. CASE v # w
      <4>1. v \in stuck \/ \E q \in Procs : WorksOn(q, v)
        BY <1>1, <2>3, <3>2 DEF DInv, Explained, Exists
      <4>2. CASE v \in stuck
        BY <2>1, <4>2
      <4>3. ASSUME NEW q \in Procs, WorksOn(q, v) PROVE WorksOn(q, v)'
        <5>1. q # p
          BY <1>1, <4>3 DEF WorksOn
        <5> QED BY <1>1, <2>3, <3>2, <4>3, <5>1 DEF WorksOn, OthersStay
      <4> QED BY <4>1, <4>2, <4>3
    <3> QED BY <3>1, <3>2
  <2> QED BY <2>4, <2>5 DEF DInv
<1> QED BY <1>4, <1>5

LEMMA KillExplained ==
  ASSUME IInv, DInv, NEW p \in Procs, Kill(p)
  PROVE  DInv'
<1>1. OthersStay(p) /\ UNCHANGED <<meta, up>>
  BY CommandOthersStay DEF Command, Kill
<1>2. \A v \in Vols : volume'[v] = volume[v] \/ (v \in call[p].vol /\ volume'[v] = NoVolume)
  BY CallFacts DEF Kill, IInv, WorldType, Call
<1>3. \A v \in Vols : Exists(v)' => volume'[v] = volume[v] /\ Exists(v)
  BY <1>2 DEF Exists, NoVolume
<1>4. Runs' /\ Remains'
  BY <1>1, <1>3 DEF DInv, Runs, Remains
<1>5. Explained'
  <2> SUFFICES ASSUME NEW v \in Vols, Exists(v)', ~volume'[v].running, volume'[v].arr \in up'
               PROVE  v \in stuck' \/ \E q \in Procs : WorksOn(q, v)'
    BY DEF Explained
  <2>1. v \in stuck \/ \E q \in Procs : WorksOn(q, v)
    BY <1>1, <1>3 DEF DInv, Explained
  <2>2. CASE v \in stuck
    BY <2>2 DEF Kill
  <2>3. ASSUME NEW q \in Procs \ {p}, WorksOn(q, v) PROVE WorksOn(q, v)'
    BY <1>1, <1>3, <2>3 DEF WorksOn, OthersStay
  <2>4. CASE WorksOn(p, v)
    <3>1. call[p].vol = {v}
      BY <2>4 DEF WorksOn
    <3>2. v \in stuck'
      BY <1>3, <3>1 DEF Kill, Exists, NoVolume, IInv, WorldType
    <3> QED BY <3>2
  <2> QED BY <2>1, <2>2, <2>3, <2>4
<1> QED BY <1>4, <1>5 DEF DInv

LEMMA StopArrayExplained ==
  ASSUME IInv, DInv, NEW p \in Procs, StopArray(p)
  PROVE  DInv'
<1> DEFINE c == call[p]
<1>1. OthersStay(p) /\ UNCHANGED meta /\ stuck \subseteq stuck'
  BY CommandOthersStay DEF Command, StopArray, Retry
<1>2. CASE /\ c.arr \in up /\ Visible(c.arr) = {}
           /\ up' = up \ {c.arr}
           /\ volume' = Remnant(meta)
  <2>1. /\ Remains'
        /\ \A v \in Vols : Exists(v)' => volume'[v] = volume[v] /\ Exists(v)
    BY <1>1, <1>2, RemnantStays
  <2>2. Runs'
    BY <1>2, <2>1 DEF DInv, Runs, Visible, Of
  <2>3. Explained'
    <3> SUFFICES ASSUME NEW v \in Vols, Exists(v)', ~volume'[v].running, volume'[v].arr \in up'
                 PROVE  v \in stuck' \/ \E q \in Procs : WorksOn(q, v)'
      BY DEF Explained
    <3>1. volume'[v] = volume[v] /\ volume[v].arr # c.arr
      BY <1>2, <2>1
    <3>2. v \in stuck \/ \E q \in Procs : WorksOn(q, v)
      BY <1>2, <2>1 DEF DInv, Explained
    <3>3. ASSUME NEW q \in Procs, WorksOn(q, v) PROVE WorksOn(q, v)'
      BY <1>1, <3>1, <3>3 DEF WorksOn, OthersStay
    <3> QED BY <1>1, <3>2, <3>3
  <2> QED BY <2>1, <2>2, <2>3 DEF DInv
<1>3. CASE Retry(p, c) /\ UNCHANGED <<up, volume>>
  <2>1. Runs' /\ Remains'
    BY <1>1, <1>3 DEF DInv, Runs, Remains, Exists
  <2>2. Explained'
    <3> SUFFICES ASSUME NEW v \in Vols, Exists(v), ~volume[v].running, volume[v].arr \in up
                 PROVE  v \in stuck' \/ \E q \in Procs : WorksOn(q, v)'
      BY <1>3 DEF Explained, Exists
    <3>1. v \in stuck \/ \E q \in Procs : WorksOn(q, v)
      BY DEF DInv, Explained
    <3>2. ASSUME NEW q \in Procs \ {p}, WorksOn(q, v) PROVE WorksOn(q, v)'
      BY <1>1, <1>3, <3>2 DEF WorksOn, OthersStay
    <3>3. CASE WorksOn(p, v)
      <4>1. CASE c.tries + 1 < MaxTries
        <5> DEFINE d == [c EXCEPT !.tries = @ + 1]
        <5>1. d.vol = c.vol /\ d.arr = c.arr
          BY CallFacts DEF Call
        <5>2. Goto(p, "stopArray", d)
          BY <1>3, <4>1 DEF Retry
        <5> HIDE DEF d
        <5>3. WorksOn(p, v)'
          BY <1>3, <3>3, <5>1, <5>2 DEF WorksOn, Goto, Working, IInv, CallsType
        <5> QED BY <5>3
      <4>2. CASE ~(c.tries + 1 < MaxTries)
        BY <1>3, <3>3, <4>2 DEF Retry, WorksOn
      <4> QED BY <4>1, <4>2
    <3> QED BY <1>1, <3>1, <3>2, <3>3
  <2> QED BY <2>1, <2>2 DEF DInv
<1> QED BY <1>2, <1>3 DEF StopArray

LEMMA RenameExplained ==
  ASSUME IInv, DInv, NEW p \in Procs, Name(p) \/ Scan(p)
  PROVE  DInv'
<1>1. OthersStay(p) /\ UNCHANGED <<meta, up, volume>> /\ stuck \subseteq stuck'
  BY CommandOthersStay DEF Command, Name, Scan, OwnStep, world
<1>2. \/ call'[p].vol = call[p].vol /\ call'[p].arr = call[p].arr /\ pc'[p] \in Working
      \/ stuck' = stuck \cup call[p].vol
  <2>1. call[p] \in Call
    BY CallFacts
  <2> QED BY <2>1 DEF Name, Scan, Goto, Working, IInv, CallsType, Call
<1>3. \A q \in Procs, v \in Vols : WorksOn(q, v) => WorksOn(q, v)' \/ v \in stuck'
  BY <1>1, <1>2 DEF WorksOn, OthersStay
<1> QED BY <1>1, <1>3 DEF DInv, Runs, Remains, Explained, Exists

LEMMA AssembleExplained ==
  ASSUME IInv, DInv, NEW p \in Procs, Assemble(p)
  PROVE  DInv'
<1> DEFINE c == call[p]
<1>1. OthersStay(p) /\ UNCHANGED <<meta, up>>
  BY CommandOthersStay DEF Command, Assemble
<1>2. /\ \A v \in Vols : \/ volume'[v] = volume[v]
                        \/ /\ Exists(v) /\ volume[v].arr \in up
                           /\ volume'[v].arr = volume[v].arr /\ volume'[v].running
      /\ stuck' = stuck \cup c.vol \/ stuck' = {v \in stuck \cup c.vol : Exists(v) /\ ~volume'[v].running}
  BY Restarted DEF Assemble
<1>3. Runs' /\ Remains'
  BY <1>1, <1>2 DEF DInv, Runs, Remains, Exists
<1>4. Explained'
  <2> SUFFICES ASSUME NEW v \in Vols, Exists(v)', ~volume'[v].running, volume'[v].arr \in up'
               PROVE  v \in stuck' \/ \E q \in Procs : WorksOn(q, v)'
    BY DEF Explained
  <2>1. volume'[v] = volume[v] /\ Exists(v)
    BY <1>2 DEF Exists
  <2>2. v \in stuck \/ \E q \in Procs : WorksOn(q, v)
    BY <1>1, <2>1 DEF DInv, Explained
  <2>3. CASE v \in stuck \cup c.vol
    BY <1>2, <2>1, <2>3
  <2>4. ASSUME NEW q \in Procs, WorksOn(q, v), q # p PROVE WorksOn(q, v)'
    BY <1>1, <2>1, <2>4 DEF WorksOn, OthersStay
  <2>5. WorksOn(p, v) => v \in c.vol
    BY DEF WorksOn
  <2> QED BY <2>2, <2>3, <2>4, <2>5
<1> QED BY <1>3, <1>4 DEF DInv

LEMMA CreationExplained ==
  ASSUME IInv, DInv, NEW p \in Procs, Create(p) \/ CreateVolume(p)
  PROVE  DInv'
<1>1. OthersStay(p)
  BY CommandOthersStay DEF Command
<1>2. pc[p] \notin Working /\ stuck' = stuck
  BY DEF Create, CreateVolume, Working, OwnStep
<1>3. CASE UNCHANGED world
  <2>1. \A v \in Vols : Goes(v)
    BY <1>3 DEF Goes, world
  <2> QED BY <1>1, <1>2, <1>3, <2>1, RunningChange DEF world
<1>4. ASSUME NEW a, a \notin up, \A d \in Disks : meta[d] # a, up' = up \cup {a}, volume' = Remnant(meta')
      PROVE  DInv'
  <2>1. /\ Remains'
        /\ \A v \in Vols : Exists(v)' => volume'[v] = volume[v] /\ Exists(v)
    BY <1>4, RemnantStays
  <2>2. Runs'
    BY <1>4, <2>1 DEF DInv, Runs
  <2>3. \A v \in Vols : volume[v].disks \subseteq Disks
    BY DEF IInv, WorldType, Volume
  <2>4. \A v \in Vols : Exists(v) => volume[v].arr # a
    BY <1>4, <2>3 DEF DInv, Remains
  <2>5. Explained'
    BY <1>1, <1>2, <1>4, <2>1, <2>4, StopsNone
  <2> QED BY <2>1, <2>2, <2>5 DEF DInv
<1>5. ASSUME NEW a \in up, NEW w \in Vols, ~Exists(w), NEW n, n.arr = a, n.running,
             volume' = [volume EXCEPT ![w] = n], UNCHANGED <<meta, up>>
      PROVE  DInv'
  <2>1. volume'[w] = n /\ \A v \in Vols \ {w} : volume'[v] = volume[v]
    BY <1>5 DEF IInv, WorldType
  <2>2. Runs' /\ Remains'
    BY <1>5, <2>1 DEF DInv, Runs, Remains, Exists
  <2>3. Explained'
    BY <1>1, <1>2, <1>5, <2>1, StopsNone DEF Exists
  <2> QED BY <2>2, <2>3 DEF DInv
<1>6. CASE Create(p)
  BY <1>3, <1>4, <1>6 DEF Create
<1>7. CASE CreateVolume(p)
  <2>1. UNCHANGED <<held, meta, up>>
    BY <1>7 DEF CreateVolume
  <2>2. CASE UNCHANGED volume
    BY <1>3, <2>1, <2>2 DEF world
  <2>3. CASE ~UNCHANGED volume
    <3>1. PICK a \in up, w \in Vols :
            /\ ~Exists(w)
            /\ volume' = [volume EXCEPT ![w] = [arr |-> a, disks |-> call[p].disks, level |-> call[p].level,
                                                state |-> "Busy", running |-> TRUE]]
      BY <1>7, <2>3 DEF CreateVolume
    <3> DEFINE n == [arr |-> a, disks |-> call[p].disks, level |-> call[p].level,
                     state |-> "Busy", running |-> TRUE]
    <3>2. n.arr = a /\ n.running
      OBVIOUS
    <3> HIDE DEF n
    <3>3. volume' = [volume EXCEPT ![w] = n]
      BY <3>1 DEF n
    <3> QED BY <1>5, <2>1, <3>1, <3>2, <3>3
  <2> QED BY <2>2, <2>3
<1> QED BY <1>6, <1>7

LEMMA CallExplained ==
  ASSUME IInv, DInv, NEW p \in Procs, CallAPI(p)
  PROVE  DInv'
<1>1. UNCHANGED <<world, stuck>>
  BY CallAPIOK DEF IInv
<1>2. \E k, c : Begin(p, k, c) /\ pc[p] = "idle"
  BY DEF CallAPI, MarkAsSpare, Rebuild, MakeSpare, UnmarkAsSpare, ClearMetadata, AddDisks, Modify, Delete,
     Rename, CancelVerify, Sync, CreateFromDisks, CreateFromArray, Chain, MayBegin
<1>3. OthersStay(p)
  <2>1. \A q \in Procs \ {p} : pc'[q] = pc[q] /\ call'[q] = [call[q] EXCEPT !.alone = FALSE]
    BY <1>2 DEF Begin, IInv, CallsType
  <2>2. \A q \in Procs : LET d == [call[q] EXCEPT !.alone = FALSE]
                         IN d.vol = call[q].vol /\ d.arr = call[q].arr
    BY CallFacts DEF Call
  <2> QED BY <2>1, <2>2 DEF OthersStay
<1>4. \A v \in Vols : Goes(v)
  BY <1>1 DEF Goes, world
<1>5. pc[p] \notin Working
  BY <1>2 DEF Working
<1> QED BY <1>1, <1>3, <1>4, <1>5, RunningChange DEF world

LEMMA KernelExplained ==
  ASSUME IInv, DInv, Kernel
  PROVE  DInv'
<1>1. UNCHANGED <<meta, up, pc, call, stuck>>
  BY DEF Kernel, DiskFails, SpareTaken, Settles, bounds
<1>2. \A v \in Vols : Goes(v)
  <2>1. ASSUME NEW d \in Disks, DiskFails(d) PROVE \A v \in Vols : Goes(v)
    <3> SUFFICES ASSUME NEW v \in Vols PROVE Goes(v)
      OBVIOUS
    <3>1. CASE d \in volume[v].disks /\ volume[v].arr = held[d]
      <4>1. Exists(v) /\ volume[v].running
        BY <2>1, <3>1 DEF DiskFails, Exists, Of
      <4> QED BY <2>1, <3>1, <4>1 DEF DiskFails, Goes, IInv, WorldType, Volume
    <3>2. CASE ~(d \in volume[v].disks /\ volume[v].arr = held[d])
      BY <2>1, <3>2 DEF DiskFails, Goes
    <3> QED BY <3>1, <3>2
  <2>2. ASSUME NEW w \in Vols, NEW d \in Disks, SpareTaken(w, d) PROVE \A v \in Vols : Goes(v)
    <3>1. Exists(w) /\ volume[w].running
      BY <2>2 DEF SpareTaken, Visible, Of
    <3>2. \A v \in Vols \ {w} : volume'[v] = volume[v]
      BY <2>2 DEF SpareTaken, IInv, WorldType
    <3>3. volume'[w].arr = volume[w].arr /\ volume'[w].running = volume[w].running
      BY <2>2 DEF SpareTaken, IInv, WorldType, Volume
    <3> QED BY <3>1, <3>2, <3>3 DEF Goes
  <2>3. ASSUME NEW w \in Vols, Settles(w) PROVE \A v \in Vols : Goes(v)
    <3>1. \A v \in Vols \ {w} : volume'[v] = volume[v]
      BY <2>3 DEF Settles, IInv, WorldType
    <3>2. volume'[w].arr = volume[w].arr /\ volume'[w].running = volume[w].running
      BY <2>3 DEF Settles, IInv, WorldType, Volume
    <3> QED BY <2>3, <3>1, <3>2 DEF Goes, Settles
  <2> QED BY <2>1, <2>2, <2>3 DEF Kernel
<1>3. \A q \in Procs, v \in Vols : volume'[v].arr = volume[v].arr => (WorksOn(q, v) => WorksOn(q, v)')
  BY <1>1 DEF WorksOn
<1>4. /\ Runs' /\ Remains'
      /\ \A v \in Vols : Exists(v)' /\ ~volume'[v].running /\ volume'[v].arr \in up' =>
           /\ Exists(v) /\ ~volume[v].running
           /\ volume[v].arr = volume'[v].arr /\ volume[v].arr \in up
  BY <1>1, <1>2, OnlyRunning
<1>5. Explained'
  <2> SUFFICES ASSUME NEW v \in Vols, Exists(v)', ~volume'[v].running, volume'[v].arr \in up'
               PROVE  v \in stuck' \/ \E q \in Procs : WorksOn(q, v)'
    BY DEF Explained
  <2>1. v \in stuck \/ \E q \in Procs : WorksOn(q, v)
    BY <1>4 DEF DInv, Explained
  <2> QED BY <1>1, <1>3, <1>4, <2>1
<1> QED BY <1>4, <1>5 DEF DInv

-----------------------------------------------------------------------------
(* The theorems *)

LEMMA Initially == Init => IInv
<1> SUFFICES ASSUME Init PROVE IInv
  OBVIOUS
<1>1. held \in [Disks -> Container] /\ meta \in [Disks -> Container]
  BY FirstAssumption DEF Init, Container
<1>2. up \subseteq Arrays
  BY FirstAssumption DEF Init
<1>3. volume \in [Vols -> Volume]
  <2>1. NoVolume \in Volume
    BY DEF NoVolume, Volume, Container, Levels
  <2>2. First \in Container /\ Built \subseteq Disks
    BY FirstAssumption, BuiltAssumption DEF Container
  <2>3. PICK V \in SUBSET Vols, level \in [Vols -> Levels] :
          volume = [v \in Vols |-> IF v \in V
                                   THEN [arr |-> First, disks |-> Built, level |-> level[v],
                                         state |-> "Normal", running |-> TRUE]
                                   ELSE NoVolume]
    BY DEF Init
  <2>4. ASSUME NEW v \in Vols
        PROVE  [arr |-> First, disks |-> Built, level |-> level[v],
                state |-> "Normal", running |-> TRUE] \in Volume
    BY <2>2 DEF Volume
  <2> QED BY <2>1, <2>3, <2>4
<1>4. CallsType
  BY NoCallType DEF Init, CallsType, Results
<1>5. CallsOK
  BY DEF Init, CallsOK, CallOK, CallSafe, CallOwns, NoCall
<1>6. BoundsType /\ stuck \subseteq Vols
  BY MaxCallsAssumption, MaxFaultsAssumption DEF Init, BoundsType
<1>7. SystemDisksUntouched
  BY SystemDisksAssumption, BuiltAssumption DEF Init, SystemDisksUntouched
<1> QED BY <1>1, <1>2, <1>3, <1>4, <1>5, <1>6, <1>7 DEF IInv, WorldType

LEMMA Step == IInv /\ [Next]_vars => IInv'
<1> SUFFICES ASSUME IInv, [Next]_vars PROVE IInv'
  OBVIOUS
<1>1. ASSUME NEW p \in Procs, CallAPI(p) PROVE IInv'
  <2>1. CallsType' /\ CallsOK' /\ BoundsType' /\ UNCHANGED <<world, stuck>>
    BY <1>1, CallAPIOK DEF IInv
  <2> QED BY <2>1 DEF IInv, WorldType, world, SystemDisksUntouched
<1>2. ASSUME NEW p \in Procs, Command(p) PROVE IInv'
  BY <1>2, AddOK, ReshapeOK, RelevelOK, UnplugOK, WipeOK, StopVolumeOK, KillOK, StopArrayOK, WipeAllOK,
     StepsOfRename, AssembleOK, CreateOK, CreateVolumeOK, SyncsOK DEF Command
<1>3. CASE Kernel
  BY <1>3, KernelOK
<1>4. CASE UNCHANGED vars
  BY <1>4 DEF vars, world, bounds, IInv, WorldType, CallsType, BoundsType, CallsOK, SystemDisksUntouched
<1> QED BY <1>1, <1>2, <1>3, <1>4 DEF Next

(* Every variable keeps its type, the chains of commands included; a        *)
(* container is stopped at most MaxTries times.                             *)
THEOREM TypeCorrect == Spec => []TypeOK
<1>1. IInv => TypeOK
  BY TypeParts DEF IInv
<1> QED BY <1>1, Initially, Step, PTL DEF Spec

(* /boot stays out of RAID, through every way a disk may come into a        *)
(* container, after every fault and beside any other calls: what a chain    *)
(* may still put in has been found free of system disks when it began.      *)
THEOREM SystemDisksStayOut == Spec => []SystemDisksUntouched
<1>1. IInv => SystemDisksUntouched
  BY DEF IInv
<1> QED BY <1>1, Initially, Step, PTL DEF Spec

(* Only the command before the wipe takes a disk out of a container to have *)
(* its metadata removed, and for a growth or a migration that disk is one   *)
(* of those the call has put in itself: no spare it found there is lost.    *)
THEOREM NoSpareIsLost == Spec => OwnDisksTakenBack
<1> DEFINE Own == \A p \in Procs : call[p].op \in {"Grow", "Modify"} =>
                    \A d \in Disks : pc[p] = "unplug" /\ pc'[p] = "wipe" /\ held[d] # held'[d] =>
                      d \in call[p].joined
<1>1. IInv /\ [Next]_vars => [Own]_vars
  <2> SUFFICES ASSUME IInv, Next, NEW p \in Procs, call[p].op \in {"Grow", "Modify"},
                      NEW d \in Disks, pc[p] = "unplug", pc'[p] = "wipe", held[d] # held'[d]
               PROVE  d \in call[p].joined
    BY DEF vars
  <2>1. call[p].todo \subseteq call[p].joined
    BY CallFacts DEF CallOwns
  <2>2. CASE Unplug(p)
    <3>1. PICK e \in call[p].todo : held' = Without(held, {e}) \/ held' = held
      BY <2>2 DEF Unplug
    <3>2. d = e
      BY <3>1 DEF Without, IInv, WorldType
    <3> QED BY <2>1, <3>1, <3>2
  <2>3. CASE \E q \in Procs : CallAPI(q)
    BY <2>3, CallAPIOK DEF IInv, world
  <2>4. ASSUME NEW q \in Procs, Command(q), q # p PROVE FALSE
    <3>1. pc'[p] = pc[p]
      BY <2>4 DEF Command, Add, Reshape, Relevel, Unplug, Wipe, StopVolume, Kill, StopArray, WipeAll, Name, Scan,
         Assemble, Create, CreateVolume, StartSync, Cancel, Proceed, TakeBack, NextSpare, Retry, RelevelFails,
         Goto, Return, IInv, CallsType
    <3> QED BY <3>1
  <2>5. CASE Command(p)
    BY <2>2, <2>5 DEF Command, Add, Reshape, Relevel, Wipe, StopVolume, Kill, StopArray, WipeAll, Name, Scan,
       Assemble, Create, CreateVolume, StartSync, Cancel
  <2>6. CASE Kernel
    BY <2>6 DEF Kernel, DiskFails, SpareTaken, Settles
  <2> QED BY <2>3, <2>4, <2>5, <2>6 DEF Next
<1>2. OwnDisksTakenBack <=> [][Own]_vars
  BY DEF OwnDisksTakenBack
<1> QED BY <1>1, <1>2, Initially, Step, PTL DEF Spec

LEMMA DownInitially == Init => DInv
<1> SUFFICES ASSUME Init PROVE DInv
  OBVIOUS
<1>1. PICK V \in SUBSET Vols, level \in [Vols -> Levels] :
        /\ \A v \in V : Fits(level[v], Cardinality(Built))
        /\ volume = [v \in Vols |-> IF v \in V
                                    THEN [arr |-> First, disks |-> Built, level |-> level[v],
                                          state |-> "Normal", running |-> TRUE]
                                    ELSE NoVolume]
  BY DEF Init
<1>2. \A v \in Vols : Exists(v) => v \in V /\ volume[v].running /\ volume[v].arr = First
  BY <1>1 DEF Exists, NoVolume
<1>3. Built = {} => V = {}
  <2> SUFFICES ASSUME Built = {}, NEW v \in V PROVE FALSE
    OBVIOUS
  <2>1. Cardinality(Built) = 0
    BY FS_EmptySet
  <2> QED BY <1>1, <2>1 DEF Fits
<1>4. \A v \in Vols : Exists(v) => volume[v].arr \in up
  BY <1>2, <1>3 DEF Init
<1> QED BY <1>2, <1>4 DEF DInv, Runs, Remains, Explained

LEMMA DownStep == IInv /\ DInv /\ [Next]_vars => DInv'
<1> SUFFICES ASSUME IInv, DInv, [Next]_vars PROVE DInv'
  OBVIOUS
<1>1. ASSUME NEW p \in Procs, Command(p) PROVE DInv'
  BY <1>1, GrowthExplained, RemovalExplained, SyncExplained, StopExplained, KillExplained, StopArrayExplained,
     RenameExplained, AssembleExplained, CreationExplained DEF Command
<1>2. CASE UNCHANGED vars
  BY <1>2 DEF vars, world, bounds, DInv, Runs, Remains, Explained, WorksOn, Exists
<1> QED BY <1>1, <1>2, CallExplained, KernelExplained DEF Next

(* A volume that is down in a container that runs has a call at work on it, *)
(* or is one of those calls have failed to start, to delete or to tell from *)
(* the volume that had the device before: a call that stops a volume always *)
(* comes back to it.                                                        *)
THEOREM DownForAReason == Spec => []DownIsExplained
<1>1. DInv => DownIsExplained
  BY DEF DInv, Explained, WorksOn, Working, DownIsExplained
<1> QED BY <1>1, Initially, Step, DownInitially, DownStep, PTL DEF Spec

-----------------------------------------------------------------------------
(* The volumes and the metadata: no volume is destroyed but by a call that  *)
(* deletes it, and what a call that ran beside no other has returned is     *)
(* true.                                                                    *)

(* The invariants *)

(* A disk that a container has names it in its metadata.                    *)
Matched == \A d \in Disks : held[d] # NoArray => meta[d] = held[d]

(* v has its disks, and its container has them all.                         *)
AllHeld(v) == volume[v].disks # {} /\ \A d \in volume[v].disks : held[d] = volume[v].arr

(* A call is removing v with its container.                                 *)
Removing(v) == \E q \in Procs : call[q].op = "Delete" /\ v \in call[q].vol /\ pc[q] \in {"stopArray", "wipeAll"}

Whole ==
  \A v \in Vols : Exists(v) /\ (volume[v].running \/ (v \notin stuck /\ ~Removing(v))) => AllHeld(v)

(* What a call is doing when it is at a command, and for which disks        *)
Growing == {"Grow", "Modify"}

KindOfOp(k, c) ==
  /\ k = "idle" => c.op = "None"
  /\ k = "add" => c.op \in Growing \/ (c.op \in {"AddSpare", "Rebuild", "GlobalSpare"} /\ c.plan = <<>>)
  /\ k = "add" => c.plan # <<"add", "reshape">>
  /\ k = "reshape" => c.op \in Growing
  /\ k \in {"add", "reshape", "relevel"} /\ c.plan = <<"relevel">> => c.op = "Modify"
  /\ k = "relevel" => c.op = "Modify"
  /\ k \in {"unplug", "wipe"} => 
       (c.op \in Growing /\ c.status = "failed") \/ c.op \in {"RemoveSpare", "ClearMetadata"}
  /\ k = "stopVolume" => c.op \in {"Delete", "Rename"} /\ c.vol \subseteq c.seen
  /\ k = "kill" => c.op = "Delete" /\ \E v \in Vols : c.vol = {v}
  /\ k \in {"stopArray", "wipeAll"} =>
       \/ c.op = "Delete" /\ c.seen \subseteq c.vol
       \/ c.op = "Create" /\ c.seen = {} /\ c.vol = {}
  /\ k \in {"name", "scan", "assemble"} => c.op = "Rename"
  /\ k = "create" => c.op = "GlobalSpare" \/ (c.op = "Create" /\ c.seen = {} /\ c.vol = {} /\ c.disks # {})
  /\ k = "createVolume" =>
       /\ c.disks # {}
       /\ c.op = "CreateFromArray" \/ (c.op = "Create" /\ c.seen = {} /\ c.vol = {})
  /\ k = "sync" => c.op \in {"Expand", "Verify"}
  /\ k = "cancel" => c.op = "CancelVerify"

KindOfDisks(k, c) ==
  /\ IF c.op \in Growing \cup {"Create"} THEN c.joined \subseteq c.disks ELSE c.joined = {}
  /\ k = "create" => c.joined = {}
  /\ k = "add" \/ (k \in {"reshape", "relevel"} /\ c.plan = <<"add", "reshape">>) =>
       c.joined = {} /\ (c.op \in Growing => c.todo \subseteq c.disks)

Kind(k, c) == KindOfOp(k, c) /\ KindOfDisks(k, c)
Kinds == \A p \in Procs : Kind(pc[p], call[p])

(* A call that is alone is made, and no other is.                           *)
Alone == \A p \in Procs : call[p].alone => pc[p] # "idle" /\ \A q \in Procs \ {p} : pc[q] = "idle"

(* What a call that is alone knows: the disks it has taken back are clean; *)
Cleaned(p) ==
  pc[p] \in {"unplug", "wipe"} /\ call[p].alone /\ ~call[p].refused =>
    \A d \in call[p].joined \ call[p].todo : meta[d] = NoArray

(* ... the disks it is to wipe are all that the volume and its container    *)
(* have;                                                                    *)
Deletes(p) ==
  call[p].alone /\ call[p].op = "Delete" =>
    /\ call[p].arr # NoArray /\ Components(call[p].arr) \subseteq call[p].disks
    /\ \A v \in call[p].vol : Exists(v) => volume[v].arr = call[p].arr /\ volume[v].disks \subseteq call[p].disks

(* ... the volume it changes runs, and has its new level unless that is     *)
(* still to come.                                                           *)
Modifies(p) ==
  call[p].alone /\ call[p].op = "Modify" /\ call[p].level # 0 /\ pc[p] \in {"add", "reshape", "relevel"} =>
    \E v \in Vols : /\ call[p].vol = {v} /\ Exists(v) /\ volume[v].running
                    /\ volume[v].level = call[p].level \/ pc[p] = "relevel" \/ call[p].plan = <<"relevel">>

(* Nothing is left of a volume that there is not.                           *)
Tidy == \A v \in Vols : ~Exists(v) => volume[v] = NoVolume

AInv == Alone /\ Tidy /\ \A p \in Procs : Cleaned(p) /\ Deletes(p) /\ Modifies(p)

-----------------------------------------------------------------------------
(* The calls begin *)

(* c begins at k with what p has found.                                     *)
Begins(k, c) ==
  /\ Kind(k, c)
  /\ k # "idle" /\ (k \in {"unplug", "wipe"} => c.joined = {})
  /\ c.op = "Delete" =>
       /\ k = "stopVolume"
       /\ \E v \in Vols : /\ c.vol = {v} /\ c.arr = volume[v].arr /\ c.disks = Components(c.arr)
                         /\ Exists(v) /\ volume[v].running
  /\ c.op = "Modify" /\ c.level # 0 =>
       \E v \in Vols : /\ c.vol = {v} /\ Exists(v) /\ volume[v].running
                       /\ volume[v].level = c.level \/ k = "relevel" \/ c.plan = <<"relevel">>

(* The growth of a call that may put in all of S                            *)
LEMMA GrowthDisks ==
  ASSUME WorldType, NEW op \in Ops, NEW a \in Container, NEW S \in SUBSET Disks
  PROVE  /\ Growth(op, a, S).cur = {} /\ ~Growth(op, a, S).refused /\ Growth(op, a, S).status = "ok"
         /\ Growth(op, a, S).arr = a
         /\ MayAdd(a, S) => Growth(op, a, S).todo \subseteq Growth(op, a, S).disks
<1>1. MayAdd(a, S) => S \ Skipped(a, S) \subseteq Spareable(S)
  BY DEF MayAdd, Usable, Spareable
<1> QED BY <1>1 DEF Growth, NoCall

LEMMA SpareCallsBegin ==
  ASSUME WorldType, NEW p \in Procs, NEW d \in Disks,
         \/ \E a \in Arrays : MarkAsSpare(p, a, d)
         \/ \E v \in Vols : Rebuild(p, v, d)
         \/ MakeSpare(p, d)
  PROVE  \E k \in Commands, c \in Call : Begins(k, c) /\ Begin(p, k, c) /\ pc[p] = "idle"
<1>1. "add" \in Commands /\ "create" \in Commands /\ {"AddSpare", "Rebuild", "GlobalSpare"} \subseteq Ops
  BY DEF Commands, Ops
<1>2. ASSUME NEW c, c.op \in {"AddSpare", "Rebuild", "GlobalSpare"}, c.joined = {}, c.plan = <<>>
      PROVE  Begins("add", c)
  BY <1>2 DEF Begins, Kind, KindOfOp, KindOfDisks, Growing
<1>3. ASSUME NEW a \in Arrays, MarkAsSpare(p, a, d)
      PROVE  \E k \in Commands, c \in Call : Begins(k, c) /\ Begin(p, k, c) /\ pc[p] = "idle"
  <2> DEFINE c == Growth("AddSpare", a, {d})
  <2>1. c \in Call /\ c.op = "AddSpare" /\ c.joined = {} /\ c.plan = <<>>
    BY <1>1, GrowthFields DEF Container
  <2>2. Begin(p, "add", c) /\ pc[p] = "idle"
    BY <1>3 DEF MarkAsSpare, MayBegin
  <2> HIDE DEF c
  <2> QED BY <1>1, <1>2, <2>1, <2>2
<1>4. ASSUME NEW v \in Vols, Rebuild(p, v, d)
      PROVE  \E k \in Commands, c \in Call : Begins(k, c) /\ Begin(p, k, c) /\ pc[p] = "idle"
  <2> DEFINE c == Growth("Rebuild", volume[v].arr, {d})
  <2>1. c \in Call /\ c.op = "Rebuild" /\ c.joined = {} /\ c.plan = <<>>
    BY <1>1, GrowthFields, WorldFacts
  <2>2. Begin(p, "add", c) /\ pc[p] = "idle"
    BY <1>4 DEF Rebuild, MayBegin
  <2> HIDE DEF c
  <2> QED BY <1>1, <1>2, <2>1, <2>2
<1>5. CASE MakeSpare(p, d)
  <2>1. pc[p] = "idle"
    BY <1>5 DEF MakeSpare, MayBegin
  <2>2. ASSUME NEW a \in up, Begin(p, "add", [Growth("GlobalSpare", a, {d}) EXCEPT !.left = up \ {a}])
        PROVE  \E k \in Commands, c \in Call : Begins(k, c) /\ Begin(p, k, c) /\ pc[p] = "idle"
    <3> DEFINE g == Growth("GlobalSpare", a, {d})
               c == [g EXCEPT !.left = up \ {a}]
    <3>1. g \in Call /\ g.op = "GlobalSpare" /\ g.joined = {} /\ g.plan = <<>>
      BY <1>1, GrowthFields, WorldFacts
    <3>2. up \ {a} \in SUBSET Arrays
      BY DEF WorldType
    <3>3. c \in Call /\ c.op = "GlobalSpare" /\ c.joined = {} /\ c.plan = <<>>
      <4> HIDE DEF g
      <4> QED BY <3>1, <3>2 DEF Call
    <3>4. Begin(p, "add", c)
      BY <2>2
    <3> HIDE DEF c
    <3> QED BY <1>1, <1>2, <2>1, <3>3, <3>4
  <2>3. CASE Begin(p, "create", Growth("GlobalSpare", NoArray, {d}))
    <3> DEFINE c == Growth("GlobalSpare", NoArray, {d})
    <3>1. c \in Call /\ c.op = "GlobalSpare" /\ c.joined = {}
      BY <1>1, GrowthFields, WorldFacts
    <3>2. Begin(p, "create", c)
      BY <2>3
    <3> HIDE DEF c
    <3>3. Begins("create", c)
      BY <3>1 DEF Begins, Kind, KindOfOp, KindOfDisks, Growing
    <3> QED BY <1>1, <2>1, <3>1, <3>2, <3>3
  <2> QED BY <1>5, <2>2, <2>3 DEF MakeSpare
<1> QED BY <1>3, <1>4, <1>5

LEMMA OtherCallsBegin ==
  ASSUME WorldType, NEW p \in Procs,
         \/ \E d \in Disks : UnmarkAsSpare(p, d) \/ ClearMetadata(p, d)
         \/ \E v \in Vols : Delete(p, v) \/ Rename(p, v) \/ CancelVerify(p, v)
         \/ \E v \in Vols, op \in {"Expand", "Verify"} : Sync(p, v, op)
         \/ \E level \in Levels, S \in SUBSET Disks : CreateFromDisks(p, level, S)
         \/ \E level \in Levels, a \in Arrays : CreateFromArray(p, level, a)
  PROVE  \E k \in Commands, c \in Call : Begins(k, c) /\ Begin(p, k, c) /\ pc[p] = "idle"
<1> DEFINE Good == \E k \in Commands, c \in Call : Begins(k, c) /\ Begin(p, k, c) /\ pc[p] = "idle"
<1>1. ASSUME NEW d \in Disks, UnmarkAsSpare(p, d) PROVE Good
  <2> DEFINE c == [NoCall EXCEPT !.op = "RemoveSpare", !.arr = held[d], !.todo = {d}, !.seen = Visible(held[d])]
  <2>1. c \in Call
    BY NoCallType, WorldFacts DEF Call, Ops
  <2>2. Begins("unplug", c)
    BY DEF Begins, Kind, KindOfOp, KindOfDisks, Growing, NoCall
  <2> QED BY <1>1, <2>1, <2>2 DEF UnmarkAsSpare, MayBegin, Commands
<1>2. ASSUME NEW d \in Disks, ClearMetadata(p, d) PROVE Good
  <2> DEFINE c == [NoCall EXCEPT !.op = "ClearMetadata", !.todo = {d}, !.cur = {d}]
  <2>1. c \in Call
    BY NoCallType DEF Call, Ops
  <2>2. Begins("wipe", c)
    BY DEF Begins, Kind, KindOfOp, KindOfDisks, Growing, NoCall
  <2> QED BY <1>2, <2>1, <2>2 DEF ClearMetadata, MayBegin, Commands
<1>3. ASSUME NEW v \in Vols, Delete(p, v) PROVE Good
  <2> DEFINE c == [NoCall EXCEPT !.op = "Delete", !.arr = volume[v].arr, !.vol = {v},
                                 !.disks = Components(volume[v].arr), !.seen = Visible(volume[v].arr)]
  <2>1. c \in Call
    BY NoCallType, WorldFacts DEF Call, Ops
  <2>2. Exists(v) /\ volume[v].running /\ v \in Visible(volume[v].arr)
    BY <1>3 DEF Delete, Visible, Of
  <2>3. /\ c.op = "Delete" /\ c.arr = volume[v].arr /\ c.vol = {v} /\ c.disks = Components(c.arr)
        /\ c.seen = Visible(volume[v].arr) /\ c.joined = {}
    BY DEF NoCall
  <2>4. Begin(p, "stopVolume", c) /\ pc[p] = "idle"
    BY <1>3 DEF Delete, MayBegin
  <2> HIDE DEF c
  <2>5. Begins("stopVolume", c)
    BY <2>2, <2>3 DEF Begins, Kind, KindOfOp, KindOfDisks, Growing
  <2> QED BY <2>1, <2>4, <2>5 DEF Commands
<1>4. ASSUME NEW v \in Vols, Rename(p, v) PROVE Good
  <2>1. PICK plan \in {<<"name">>, <<"scan">>} :
          Begin(p, "stopVolume", [NoCall EXCEPT !.op = "Rename", !.arr = volume[v].arr, !.vol = {v},
                                                !.plan = plan, !.seen = Visible(volume[v].arr)])
    BY <1>4 DEF Rename
  <2> DEFINE c == [NoCall EXCEPT !.op = "Rename", !.arr = volume[v].arr, !.vol = {v},
                                 !.plan = plan, !.seen = Visible(volume[v].arr)]
  <2>2. plan \in Seq(Commands \cup {"refuse"})
    <3>1. "name" \in Commands \cup {"refuse"} /\ "scan" \in Commands \cup {"refuse"}
      BY DEF Commands
    <3>2. <<"name">> \in Seq(Commands \cup {"refuse"})
      BY <3>1
    <3>3. <<"scan">> \in Seq(Commands \cup {"refuse"})
      BY <3>1
    <3> QED BY <3>2, <3>3
  <2>3. c \in Call
    BY <2>2, NoCallType, WorldFacts DEF Call, Ops
  <2>4. c.op = "Rename" /\ c.vol = {v} /\ c.seen = Visible(volume[v].arr) /\ c.joined = {}
    BY DEF NoCall
  <2>5. v \in Visible(volume[v].arr)
    BY <1>4 DEF Rename, Visible, Of
  <2>6. Begin(p, "stopVolume", c) /\ pc[p] = "idle"
    BY <1>4, <2>1 DEF Rename, MayBegin
  <2> HIDE DEF c
  <2>7. Begins("stopVolume", c)
    BY <2>4, <2>5 DEF Begins, Kind, KindOfOp, KindOfDisks, Growing
  <2> QED BY <2>3, <2>6, <2>7 DEF Commands
<1>5. ASSUME NEW v \in Vols, CancelVerify(p, v) PROVE Good
  <2> DEFINE c == [NoCall EXCEPT !.op = "CancelVerify", !.vol = {v}]
  <2>1. c \in Call
    BY NoCallType DEF Call, Ops
  <2>2. Begins("cancel", c)
    BY DEF Begins, Kind, KindOfOp, KindOfDisks, Growing, NoCall
  <2> QED BY <1>5, <2>1, <2>2 DEF CancelVerify, MayBegin, Commands
<1>6. ASSUME NEW v \in Vols, NEW op \in {"Expand", "Verify"}, Sync(p, v, op) PROVE Good
  <2> DEFINE c == [NoCall EXCEPT !.op = op, !.vol = {v}]
  <2>1. c \in Call
    BY NoCallType DEF Call, Ops
  <2>2. Begins("sync", c)
    BY DEF Begins, Kind, KindOfOp, KindOfDisks, Growing, NoCall
  <2> QED BY <1>6, <2>1, <2>2 DEF Sync, MayBegin, Commands
<1>7. ASSUME NEW level \in Levels, NEW S \in SUBSET Disks, CreateFromDisks(p, level, S) PROVE Good
  <2> DEFINE c == [NoCall EXCEPT !.op = "Create", !.level = level, !.disks = S]
  <2>1. c \in Call
    BY NoCallType DEF Call, Ops
  <2>2. S # {}
    BY <1>7 DEF CreateFromDisks
  <2>3. Begins("create", c)
    BY <2>2 DEF Begins, Kind, KindOfOp, KindOfDisks, Growing, NoCall
  <2> QED BY <1>7, <2>1, <2>3 DEF CreateFromDisks, MayBegin, Commands
<1>8. ASSUME NEW level \in Levels, NEW a \in Arrays, CreateFromArray(p, level, a) PROVE Good
  <2> DEFINE members == {d \in Components(a) : Usage(d) = "ArrayMember"}
             S == IF members = {} THEN Components(a) ELSE members
             c == [NoCall EXCEPT !.op = "CreateFromArray", !.arr = a, !.level = level,
                                 !.disks = S, !.seen = Visible(a)]
  <2>1. S \in SUBSET Disks /\ Visible(a) \in SUBSET Vols /\ a \in Container
    BY DEF Components, Visible, Of, Container
  <2>2. Fits(level, Cardinality(S)) /\ Begin(p, "createVolume", c) /\ pc[p] = "idle"
    BY <1>8 DEF CreateFromArray, MayBegin
  <2> HIDE DEF S
  <2>3. S # {}
    BY <2>2, FS_EmptySet DEF Fits
  <2>4. c \in Call
    BY <2>1, NoCallType DEF Call, Ops
  <2>5. Begins("createVolume", c)
    BY <2>3 DEF Begins, Kind, KindOfOp, KindOfDisks, Growing, NoCall
  <2> QED BY <2>2, <2>4, <2>5 DEF Commands
<1> QED BY <1>1, <1>2, <1>3, <1>4, <1>5, <1>6, <1>7, <1>8

LEMMA AddDisksBegins ==
  ASSUME WorldType, NEW p \in Procs, NEW a \in Arrays, NEW S \in SUBSET Disks, AddDisks(p, a, S)
  PROVE  \E k \in Commands, c \in Call : Begins(k, c) /\ Begin(p, k, c) /\ pc[p] = "idle"
<1> DEFINE c == Growth("Grow", a, S)
<1>1. "Grow" \in Ops /\ a \in Container
  BY DEF Ops, Container
<1>2. /\ c \in Call /\ c.op = "Grow" /\ c.joined = {} /\ c.todo \subseteq c.disks
  BY <1>1, GrowthFields, GrowthDisks DEF AddDisks
<1>3. pc[p] = "idle" /\ Chain(p, c, IF S \subseteq Skipped(a, S) THEN <<"reshape">> ELSE <<"add", "reshape">>)
  BY AddingCases DEF AddDisks, MayBegin
<1>4. ASSUME NEW k \in {"add", "reshape"}, NEW rest \in {<<>>, <<"reshape">>}, Begin(p, k, [c EXCEPT !.plan = rest])
      PROVE  \E j \in Commands, d \in Call : Begins(j, d) /\ Begin(p, j, d) /\ pc[p] = "idle"
  <2> DEFINE d == [c EXCEPT !.plan = rest]
  <2>1. rest \in Seq(Commands \cup {"refuse"})
    BY ChainsType DEF Chains
  <2>2. d \in Call /\ d.op = "Grow" /\ d.joined = {} /\ d.todo \subseteq d.disks /\ d.plan = rest
    <3> HIDE DEF c
    <3> QED BY <1>2, <2>1 DEF Call
  <2>3. Begin(p, k, d)
    BY <1>4
  <2> HIDE DEF d
  <2>4. rest # <<"add", "reshape">> /\ rest # <<"relevel">>
    OBVIOUS
  <2>5. Begins(k, d)
    BY <2>2, <2>4 DEF Begins, Kind, KindOfOp, KindOfDisks, Growing
  <2> QED BY <1>3, <2>2, <2>3, <2>5 DEF Commands
<1>5. CASE S \subseteq Skipped(a, S)
  <2>1. Begin(p, "reshape", [c EXCEPT !.plan = <<>>])
    BY <1>3, <1>5 DEF Chain
  <2> QED BY <1>4, <2>1
<1>6. CASE ~(S \subseteq Skipped(a, S))
  <2>1. Begin(p, "add", [c EXCEPT !.plan = <<"reshape">>])
    BY <1>3, <1>6 DEF Chain
  <2> QED BY <1>4, <2>1
<1> QED BY <1>5, <1>6

LEMMA ModifyBegins ==
  ASSUME WorldType, NEW p \in Procs,
         NEW v \in Vols, NEW level \in Levels, NEW S \in SUBSET Disks, Modify(p, v, level, S)
  PROVE  \E k \in Commands, c \in Call : Begins(k, c) /\ Begin(p, k, c) /\ pc[p] = "idle"
<1> DEFINE a == volume[v].arr
           g == Growth("Modify", a, S)
           c == [g EXCEPT !.vol = {v}, !.level = level]
           Plans == CASE level = 0 -> ToRaid0(v, S) [] level = 10 -> ToRaid10(v, S) [] OTHER -> ToRaid5(v, S)
           Good == \E k \in Commands, d \in Call : Begins(k, d) /\ Begin(p, k, d) /\ pc[p] = "idle"
<1>1. "Modify" \in Ops /\ a \in Container
  BY DEF Ops, WorldType, Volume
<1>2. g \in Call /\ g.op = "Modify" /\ g.joined = {} /\ (MayAdd(a, S) => g.todo \subseteq g.disks)
  BY <1>1, GrowthFields, GrowthDisks
<1>3. /\ c \in Call /\ c.op = "Modify" /\ c.joined = {} /\ (MayAdd(a, S) => c.todo \subseteq c.disks)
      /\ c.vol = {v} /\ c.level = level
  <2> HIDE DEF g
  <2> QED BY <1>2 DEF Call
<1>4. Exists(v) /\ volume[v].running /\ <<volume[v].level, level>> \in MigrSupport /\ pc[p] = "idle"
  BY DEF Modify, MayBegin
<1>5. PICK plan \in Plans : Begin(p, Head(plan), [c EXCEPT !.plan = Tail(plan)])
  BY DEF Modify, Chain
<1>6. /\ GrowPlan(a, S) \in {<<>>, <<"refuse">>, <<"reshape">>, <<"add", "reshape">>}
      /\ GrowPlan(a, S) = <<"add", "reshape">> => MayAdd(a, S)
  BY GrowPlanCases
<1>7. <<"reshape">> # <<"add", "reshape">> /\ <<>> # <<"add", "reshape">> /\ <<"relevel">> # <<"add", "reshape">>
  OBVIOUS
<1>8. ASSUME NEW k \in {"add", "reshape", "relevel"}, NEW rest \in Chains,
             Begin(p, k, [c EXCEPT !.plan = rest]),
             k = "add" \/ rest = <<"add", "reshape">> => MayAdd(a, S),
             k = "add" => rest # <<"add", "reshape">>,
             level # 0 => volume[v].level = level \/ k = "relevel" \/ rest = <<"relevel">>
      PROVE  Good
  <2> DEFINE d == [c EXCEPT !.plan = rest]
  <2>1. rest \in Seq(Commands \cup {"refuse"})
    BY ChainsType
  <2>2. /\ d \in Call /\ d.op = "Modify" /\ d.joined = {} /\ (MayAdd(a, S) => d.todo \subseteq d.disks)
        /\ d.vol = {v} /\ d.level = level /\ d.plan = rest
    <3> HIDE DEF c
    <3> QED BY <1>3, <2>1 DEF Call
  <2>3. Begin(p, k, d)
    BY <1>8
  <2> HIDE DEF d
  <2>4. Kind(k, d)
    BY <1>8, <2>2 DEF Kind, KindOfOp, KindOfDisks, Growing
  <2>5. Begins(k, d)
    BY <1>4, <1>8, <2>2, <2>4 DEF Begins
  <2> QED BY <1>4, <2>2, <2>3, <2>5 DEF Commands
<1>9. ASSUME plan = GrowPlan(a, S), plan \in GrowOnly(a, S), level = 0 \/ volume[v].level = level PROVE Good
  <2>1. MayAdd(a, S) /\ S # {} /\ ~Busy(a)
    BY <1>9 DEF GrowOnly
  <2>2. plan = IF S \subseteq Skipped(a, S) THEN <<"reshape">> ELSE <<"add", "reshape">>
    BY <1>9, <2>1, AddingCases DEF GrowPlan
  <2>3. CASE plan = <<"reshape">>
    <3>1. Begin(p, "reshape", [c EXCEPT !.plan = <<>>])
      BY <1>5, <2>3
    <3> HIDE DEF c
    <3> QED BY <1>7, <1>8, <1>9, <2>1, <3>1 DEF Chains
  <2>4. CASE plan = <<"add", "reshape">>
    <3>1. Begin(p, "add", [c EXCEPT !.plan = <<"reshape">>])
      BY <1>5, <2>4
    <3> HIDE DEF c
    <3> QED BY <1>8, <1>9, <2>1, <3>1 DEF Chains
  <2> QED BY <2>2, <2>3, <2>4
<1>10. CASE level = 0
  <2>1. plan \in ToRaid0(v, S)
    BY <1>10
  <2>2. CASE plan \in GrowOnly(a, S)
    BY <1>9, <1>10, <2>2 DEF GrowOnly
  <2>3. CASE plan = <<"relevel">> \o GrowPlan(a, S)
    <3>1. GrowPlan(a, S) \in Seq(Commands \cup {"refuse"}) /\ "relevel" \in Commands \cup {"refuse"}
      BY <1>6, ChainsType DEF Chains, Commands
    <3>2. Head(plan) = "relevel" /\ Tail(plan) = GrowPlan(a, S)
      BY <2>3, <3>1, Prepend
    <3>3. Begin(p, "relevel", [c EXCEPT !.plan = GrowPlan(a, S)])
      BY <1>5, <3>2
    <3>4. GrowPlan(a, S) \in Chains
      BY <1>6 DEF Chains
    <3> HIDE DEF c
    <3> QED BY <1>6, <1>8, <1>10, <3>3, <3>4
  <2> QED BY <2>1, <2>2, <2>3 DEF ToRaid0
<1>11. CASE level # 0
  <2>1. plan \in ToRaid10(v, S) \/ (plan \in ToRaid5(v, S) /\ level # 10)
    BY <1>11
  <2>2. CASE MayAdd(a, S) /\ plan = Adding(a, S, <<"relevel">>)
    <3>1. plan = IF S \subseteq Skipped(a, S) THEN <<"relevel">> ELSE <<"add", "relevel">>
      BY <2>2, AddingCases
    <3>2. CASE plan = <<"relevel">>
      <4>1. Begin(p, "relevel", [c EXCEPT !.plan = <<>>])
        BY <1>5, <3>2
      <4> HIDE DEF c
      <4> QED BY <1>7, <1>8, <2>2, <4>1 DEF Chains
    <3>3. CASE plan = <<"add", "relevel">>
      <4>1. Begin(p, "add", [c EXCEPT !.plan = <<"relevel">>])
        BY <1>5, <3>3
      <4> HIDE DEF c
      <4> QED BY <1>8, <2>2, <4>1 DEF Chains
    <3> QED BY <3>1, <3>2, <3>3
  <2>3. CASE plan \in GrowOnly(a, S) /\ volume[v].level = 5 /\ level # 10
    <3>1. level = 5
      BY <1>4, <1>11, <2>3 DEF MigrSupport
    <3> QED BY <1>9, <2>3, <3>1 DEF GrowOnly
  <2> QED BY <2>1, <2>2, <2>3 DEF ToRaid10, ToRaid5
<1> QED BY <1>10, <1>11

(* Every call that is made begins as it should.                             *)
LEMMA CallsBegin ==
  ASSUME WorldType, NEW p \in Procs, CallAPI(p)
  PROVE  \E k \in Commands, c \in Call : Begins(k, c) /\ Begin(p, k, c) /\ pc[p] = "idle"
BY SpareCallsBegin, OtherCallsBegin, AddDisksBegins, ModifyBegins DEF CallAPI

-----------------------------------------------------------------------------
(* What the calls are doing *)

(* What a command of p leaves of the other calls *)
LEMMA OthersKeep ==
  ASSUME IInv, NEW p \in Procs, Command(p)
  PROVE  \A q \in Procs \ {p} : pc'[q] = pc[q] /\ call'[q] = call[q]
BY DEF Command, Add, Reshape, Relevel, Unplug, Wipe, StopVolume, Kill, StopArray, WipeAll, Name, Scan,
   Assemble, Create, CreateVolume, StartSync, Cancel, Proceed, TakeBack, NextSpare, Retry, RelevelFails,
   Goto, Return, IInv, CallsType

LEMMA Went ==
  ASSUME IInv, NEW p \in Procs, NEW k, NEW c, Goto(p, k, c)
  PROVE  pc'[p] = k /\ call'[p] = c /\ (Kind(k, c) => Kind(pc'[p], call'[p]))
BY DEF Goto, IInv, CallsType

LEMMA Left ==
  ASSUME IInv, NEW p \in Procs, NEW status, Return(p, status)
  PROVE  pc'[p] = "idle" /\ call'[p] = NoCall /\ result'[p] = status /\ Kind(pc'[p], call'[p])
<1>1. pc'[p] = "idle" /\ call'[p] = NoCall /\ result'[p] = status
  BY DEF Return, IInv, CallsType
<1>2. Kind("idle", NoCall)
  BY DEF Kind, KindOfOp, KindOfDisks, NoCall, Growing
<1> QED BY <1>1, <1>2

(* The chain goes on, with the disks that have been put in.                 *)
LEMMA ProceedKind ==
  ASSUME IInv, NEW p \in Procs, NEW c \in Call, Proceed(p, c), c.plan \in Chains,
         c.plan = <<>> \/ c.op \in Growing, c.plan = <<"relevel">> => c.op = "Modify",
         IF c.op \in Growing \cup {"Create"} THEN c.joined \subseteq c.disks ELSE c.plan = <<>>,
         c.plan = <<"add", "reshape">> => c.joined = {} /\ c.todo \subseteq c.disks
  PROVE  Kind(pc'[p], call'[p])
<1> DEFINE d == [c EXCEPT !.plan = Tail(c.plan)]
<1>0. d.plan = Tail(c.plan) /\ d.op = c.op /\ d.disks = c.disks /\ d.todo = c.todo /\ d.joined = c.joined
  BY DEF Call
<1>1. CASE c.plan = <<>>
  BY <1>1, Left DEF Proceed
<1>2. CASE c.plan = <<"refuse">>
  BY <1>2, Left DEF Proceed
<1>3. ASSUME NEW k \in {"reshape", "relevel"}, c.plan = <<k>> PROVE Kind(pc'[p], call'[p])
  <2>1. Head(c.plan) = k /\ d.plan = <<>> /\ c.plan # <<>> /\ k # "refuse" /\ <<>> # <<"add", "reshape">>
        /\ <<>> # <<"relevel">>
    BY <1>0, <1>3
  <2>2. k = "relevel" => c.op = "Modify"
    BY <1>3
  <2>3. Kind(k, d)
    BY <1>0, <2>1, <2>2 DEF Kind, KindOfOp, KindOfDisks, Growing
  <2>4. Goto(p, k, d)
    BY <2>1 DEF Proceed
  <2> QED BY <2>3, <2>4, Went
<1>4. CASE c.plan = <<"add", "reshape">>
  <2>1. Head(c.plan) = "add" /\ d.plan = <<"reshape">>
    BY <1>0, <1>4
  <2>2. <<"reshape">> # <<"add", "reshape">> /\ <<"reshape">> # <<"relevel">> /\ <<>> # <<"add", "reshape">>
    OBVIOUS
  <2>3. Kind("add", d)
    BY <1>0, <1>4, <2>1, <2>2 DEF Kind, KindOfOp, KindOfDisks, Growing
  <2>4. Goto(p, "add", d)
    BY <1>4, <2>1 DEF Proceed
  <2> QED BY <2>3, <2>4, Went
<1> QED BY <1>1, <1>2, <1>3, <1>4 DEF Chains

LEMMA GrowthKinds ==
  ASSUME IInv, Kinds, NEW p \in Procs, Add(p) \/ Reshape(p) \/ Relevel(p)
  PROVE  Kind(pc'[p], call'[p])
<1> DEFINE c == call[p]
<1>1. c \in Call /\ Kind(pc[p], c) /\ CallSafe(pc[p], c)
  BY CallFacts DEF Kinds
<1>2. ASSUME TakeBack(p, c), c.op \in Growing, c.joined \subseteq c.disks PROVE Kind(pc'[p], call'[p])
  <2> DEFINE d == [c EXCEPT !.todo = c.disks, !.status = "failed"]
  <2>1. c.disks # {} => Goto(p, "unplug", d)
    BY <1>2 DEF TakeBack
  <2>2. d.op = c.op /\ d.joined = c.joined /\ d.disks = c.disks /\ d.status = "failed"
    BY <1>1 DEF Call
  <2> HIDE DEF d
  <2>3. Kind("unplug", d)
    BY <1>2, <2>2 DEF Kind, KindOfOp, KindOfDisks, Growing
  <2> QED BY <1>2, <2>1, <2>3, Left, Went DEF TakeBack
<1>3. CASE Add(p)
  <2>1. pc[p] = "add"
    BY <1>3 DEF Add
  <2>2. PICK T \in SUBSET c.todo :
          IF T = c.todo THEN Proceed(p, [c EXCEPT !.joined = T])
          ELSE IF c.op # "GlobalSpare" THEN Return(p, "failed")
          ELSE IF c.left = {} THEN Goto(p, "create", c)
          ELSE \E a \in c.left : Goto(p, "add", [c EXCEPT !.arr = a, !.left = @ \ {a}])
    BY <1>3 DEF Add
  <2>3. CASE T = c.todo
    <3> DEFINE d == [c EXCEPT !.joined = T]
    <3>1. T \in SUBSET Disks
      BY <1>1, <2>3 DEF Call
    <3>2. d \in Call /\ d.joined = T /\ d.op = c.op /\ d.plan = c.plan /\ d.disks = c.disks /\ d.todo = c.todo
      BY <1>1, <3>1 DEF Call
    <3>3. Proceed(p, d)
      BY <2>2, <2>3
    <3>4. /\ c.plan \in Chains /\ (c.plan = <<>> \/ c.op \in Growing) /\ (c.plan = <<"relevel">> => c.op = "Modify")
          /\ c.plan # <<"add", "reshape">>
          /\ IF c.op \in Growing \cup {"Create"} THEN c.todo \subseteq c.disks ELSE c.plan = <<>>
      BY <1>1, <2>1 DEF Kind, KindOfOp, KindOfDisks, CallSafe, Growing
    <3> HIDE DEF d
    <3> QED BY <2>3, <3>2, <3>3, <3>4, ProceedKind
  <2>4. CASE T # c.todo /\ c.op # "GlobalSpare"
    BY <2>2, <2>4, Left
  <2>5. CASE T # c.todo /\ c.op = "GlobalSpare" /\ c.left = {}
    <3>1. Goto(p, "create", c) /\ Kind("create", c)
      BY <1>1, <2>1, <2>2, <2>5 DEF Kind, KindOfOp, KindOfDisks, Growing
    <3> QED BY <3>1, Went
  <2>6. CASE T # c.todo /\ c.op = "GlobalSpare" /\ c.left # {}
    <3>1. PICK a \in c.left : Goto(p, "add", [c EXCEPT !.arr = a, !.left = @ \ {a}])
      BY <2>2, <2>6
    <3> DEFINE d == [c EXCEPT !.arr = a, !.left = @ \ {a}]
    <3>2. d.op = c.op /\ d.plan = c.plan /\ d.disks = c.disks /\ d.todo = c.todo /\ d.joined = c.joined
      BY <1>1 DEF Call
    <3>3. Goto(p, "add", d)
      BY <3>1
    <3> HIDE DEF d
    <3>4. Kind("add", d)
      BY <1>1, <2>1, <2>6, <3>2 DEF Kind, KindOfOp, KindOfDisks, Growing
    <3> QED BY <3>3, <3>4, Went
  <2> QED BY <2>3, <2>4, <2>5, <2>6
<1>4. ASSUME pc[p] \in {"reshape", "relevel"}, Proceed(p, c) PROVE Kind(pc'[p], call'[p])
  <2>1. /\ c.plan \in Chains /\ c.op \in Growing /\ (c.plan = <<"relevel">> => c.op = "Modify")
        /\ c.joined \subseteq c.disks /\ (c.plan = <<"add", "reshape">> => c.joined = {} /\ c.todo \subseteq c.disks)
    BY <1>1, <1>4 DEF Kind, KindOfOp, KindOfDisks, CallSafe, Growing
  <2> HIDE DEF c
  <2> QED BY <1>1, <1>4, <2>1, ProceedKind
<1>5. pc[p] \in {"reshape", "relevel"} => c.op \in Growing /\ c.joined \subseteq c.disks
  BY <1>1 DEF Kind, KindOfOp, KindOfDisks, Growing
<1>6. CASE Reshape(p)
  BY <1>2, <1>4, <1>5, <1>6 DEF Reshape
<1>7. CASE Relevel(p)
  <2>1. pc[p] = "relevel" /\ (Proceed(p, c) \/ RelevelFails(p, c))
    BY <1>7 DEF Relevel
  <2>2. RelevelFails(p, c) => Return(p, "ok") \/ TakeBack(p, c)
    BY DEF RelevelFails
  <2> QED BY <1>2, <1>4, <1>5, <2>1, <2>2, Left
<1> QED BY <1>3, <1>6, <1>7

LEMMA RetryKind ==
  ASSUME IInv, NEW p \in Procs, NEW c \in Call, Retry(p, c), Kind("stopArray", c)
  PROVE  Kind(pc'[p], call'[p])
<1> DEFINE d == [c EXCEPT !.tries = @ + 1]
<1>1. d.op = c.op /\ d.joined = c.joined /\ d.disks = c.disks /\ d.vol = c.vol /\ d.seen = c.seen
  BY DEF Call
<1>2. Goto(p, "stopArray", d) \/ Return(p, "stuck")
  BY DEF Retry
<1> HIDE DEF d
<1>3. Kind("stopArray", d)
  BY <1>1 DEF Kind, KindOfOp, KindOfDisks, Growing
<1> QED BY <1>2, <1>3, Went, Left

LEMMA RemovalKinds ==
  ASSUME IInv, Kinds, NEW p \in Procs, Unplug(p) \/ Wipe(p) \/ StopArray(p) \/ WipeAll(p)
  PROVE  Kind(pc'[p], call'[p])
<1> DEFINE c == call[p]
<1>1. c \in Call /\ Kind(pc[p], c)
  BY CallFacts DEF Kinds
<1>2. ASSUME pc[p] \in {"unplug", "wipe"}, NEW d, d.op = c.op, d.joined = c.joined, d.disks = c.disks,
             d.status \in {c.status, "failed"}, NextSpare(p, d) \/ Goto(p, "wipe", d)
      PROVE  Kind(pc'[p], call'[p])
  <2>1. Kind("unplug", d) /\ Kind("wipe", d)
    BY <1>1, <1>2 DEF Kind, KindOfOp, KindOfDisks, Growing
  <2> QED BY <1>2, <2>1, Left, Went DEF NextSpare
<1>3. CASE Unplug(p)
  <2>1. PICK d \in c.todo : \/ Goto(p, "wipe", [c EXCEPT !.cur = {d}])
                            \/ NextSpare(p, [c EXCEPT !.todo = @ \ {d}, !.status = "failed", !.refused = TRUE])
    BY <1>3 DEF Unplug
  <2> DEFINE c1 == [c EXCEPT !.cur = {d}]
             c2 == [c EXCEPT !.todo = @ \ {d}, !.status = "failed", !.refused = TRUE]
  <2>2. /\ c1.op = c.op /\ c1.joined = c.joined /\ c1.disks = c.disks /\ c1.status = c.status
        /\ c2.op = c.op /\ c2.joined = c.joined /\ c2.disks = c.disks /\ c2.status = "failed"
    BY <1>1 DEF Call
  <2>3. Goto(p, "wipe", c1) \/ NextSpare(p, c2)
    BY <2>1
  <2>4. pc[p] = "unplug"
    BY <1>3 DEF Unplug
  <2> HIDE DEF c1, c2
  <2> QED BY <1>2, <2>2, <2>3, <2>4
<1>4. CASE Wipe(p)
  <2> DEFINE c1 == [c EXCEPT !.todo = @ \ c.cur, !.cur = {}]
             c2 == [c1 EXCEPT !.status = "failed", !.refused = TRUE]
  <2>1. c1 \in Call /\ c1.op = c.op /\ c1.joined = c.joined /\ c1.disks = c.disks /\ c1.status = c.status
    BY <1>1 DEF Call
  <2>2. NextSpare(p, c1) \/ NextSpare(p, c2)
    BY <1>4 DEF Wipe
  <2>3. pc[p] = "wipe"
    BY <1>4 DEF Wipe
  <2> HIDE DEF c1
  <2>4. c2.op = c.op /\ c2.joined = c.joined /\ c2.disks = c.disks /\ c2.status = "failed"
    BY <2>1 DEF Call
  <2> HIDE DEF c2
  <2> QED BY <1>2, <2>1, <2>2, <2>3, <2>4
<1>5. pc[p] \in {"stopArray", "wipeAll"} => Kind("stopArray", c) /\ Kind("wipeAll", c)
  BY <1>1 DEF Kind, KindOfOp, KindOfDisks, Growing
<1>6. CASE StopArray(p)
  <2>1. pc[p] = "stopArray" /\ (Goto(p, "wipeAll", c) \/ Retry(p, c))
    BY <1>6 DEF StopArray
  <2> HIDE DEF c
  <2> QED BY <1>1, <1>5, <2>1, Went, RetryKind
<1>7. CASE WipeAll(p)
  <2>1. pc[p] = "wipeAll" /\ (Retry(p, c) \/ \E s : Return(p, s))
    BY <1>7 DEF WipeAll
  <2> HIDE DEF c
  <2> QED BY <1>1, <1>5, <2>1, Left, RetryKind
<1> QED BY <1>3, <1>4, <1>6, <1>7

LEMMA VolumeKinds ==
  ASSUME IInv, Kinds, NEW p \in Procs, StopVolume(p) \/ Kill(p) \/ Name(p) \/ Scan(p) \/ Assemble(p)
  PROVE  Kind(pc'[p], call'[p])
<1> DEFINE c == call[p]
<1>1. c \in Call /\ Kind(pc[p], c) /\ CallSafe(pc[p], c)
  BY CallFacts DEF Kinds
<1>2. ASSUME NEW k \in {"name", "scan", "assemble"}, NEW s, c.op = "Rename", c.joined = {},
             Goto(p, k, [c EXCEPT !.status = s])
      PROVE  Kind(pc'[p], call'[p])
  <2> DEFINE d == [c EXCEPT !.status = s]
  <2>1. d.op = "Rename" /\ d.joined = {}
    BY <1>1, <1>2 DEF Call
  <2>2. Goto(p, k, d)
    BY <1>2
  <2> HIDE DEF d
  <2>3. Kind(k, d)
    BY <2>1 DEF Kind, KindOfOp, KindOfDisks, Growing
  <2> QED BY <2>2, <2>3, Went
<1>3. ASSUME NEW k \in {"name", "scan", "assemble"}, c.op = "Rename", c.joined = {}, Goto(p, k, c)
      PROVE  Kind(pc'[p], call'[p])
  <2>1. Kind(k, c)
    BY <1>3 DEF Kind, KindOfOp, KindOfDisks, Growing
  <2> QED BY <1>3, <2>1, Went
<1>4. c.op = "Rename" => c.joined = {}
  BY <1>1 DEF Kind, KindOfDisks, Growing
<1>5. CASE StopVolume(p)
  <2>1. pc[p] = "stopVolume"
    BY <1>5 DEF StopVolume
  <2>2. c.op \in {"Delete", "Rename"}
    BY <1>1, <2>1 DEF Kind, KindOfOp
  <2>3. CASE c.op = "Rename"
    <3>1. Head(c.plan) \in {"name", "scan"}
      <4>1. c.plan = <<"name">> \/ c.plan = <<"scan">>
        BY <1>1, <2>1, <2>3 DEF CallSafe
      <4> QED BY <4>1
    <3>2. \E s : Goto(p, Head(c.plan), [c EXCEPT !.status = s]) \/ Goto(p, "assemble", [c EXCEPT !.status = s])
      BY <1>5, <2>3 DEF StopVolume
    <3> HIDE DEF c
    <3> QED BY <1>2, <1>4, <2>3, <3>1, <3>2
  <2>4. CASE c.op = "Delete"
    <3>1. PICK v \in Vols : c.vol = {v}
      BY <1>1, <2>1 DEF CallSafe
    <3>2. c.joined = {} /\ c.vol \subseteq c.seen
      BY <1>1, <2>1, <2>4 DEF Kind, KindOfOp, KindOfDisks, Growing
    <3>3. CASE Goto(p, "stopArray", c) /\ LastVolume(c)
      <4>1. IsFiniteSet(c.seen)
        BY <1>1, FiniteAssumption, FS_Subset DEF Call
      <4>2. c.seen \subseteq c.vol
        BY <3>1, <3>2, <3>3, <4>1, FS_Singleton DEF LastVolume
      <4>3. Kind("stopArray", c)
        BY <2>4, <3>2, <4>2 DEF Kind, KindOfOp, KindOfDisks, Growing
      <4> QED BY <3>3, <4>3, Went
    <3>4. CASE Goto(p, "kill", c)
      <4>1. Kind("kill", c)
        BY <2>4, <3>1, <3>2 DEF Kind, KindOfOp, KindOfDisks, Growing
      <4> QED BY <3>4, <4>1, Went
    <3>5. CASE Return(p, "failed")
      BY <3>5, Left
    <3> QED BY <1>5, <2>4, <3>3, <3>4, <3>5 DEF StopVolume
  <2> QED BY <2>2, <2>3, <2>4
<1>6. CASE Kill(p)
  <2>1. Return(p, "ok") \/ Return(p, "failed")
    BY <1>6 DEF Kill
  <2> QED BY <2>1, Left
<1>7. CASE Name(p) \/ Scan(p)
  <2>1. c.op = "Rename"
    BY <1>1, <1>7 DEF Name, Scan, Kind, KindOfOp
  <2>2. \/ Goto(p, "scan", c)
        \/ \E k \in {"scan", "assemble"} : \E s : Goto(p, k, [c EXCEPT !.status = s])
        \/ Return(p, "thrown")
    BY <1>7 DEF Name, Scan
  <2> HIDE DEF c
  <2> QED BY <1>2, <1>3, <1>4, <2>1, <2>2, Left
<1>8. CASE Assemble(p)
  <2>1. \E s : Return(p, s)
    BY <1>8 DEF Assemble
  <2> QED BY <2>1, Left
<1> QED BY <1>5, <1>6, <1>7, <1>8

LEMMA OtherKinds ==
  ASSUME IInv, Kinds, NEW p \in Procs, Create(p) \/ CreateVolume(p) \/ StartSync(p) \/ Cancel(p)
  PROVE  Kind(pc'[p], call'[p])
<1> DEFINE c == call[p]
<1>1. c \in Call /\ Kind(pc[p], c)
  BY CallFacts DEF Kinds
<1>2. CASE Create(p)
  <2>1. pc[p] = "create"
    BY <1>2 DEF Create
  <2>2. CASE \E s : Return(p, s)
    BY <2>2, Left
  <2>3. CASE ~\E s : Return(p, s)
    <3> DEFINE k == IF Fits(c.level, Cardinality(c.disks)) THEN "createVolume" ELSE "stopArray"
    <3>1. c.op # "GlobalSpare"
      BY <1>2, <2>3, Zenon DEF Create
    <3>2. \E x : Goto(p, k, [c EXCEPT !.arr = x, !.joined = c.disks])
      BY <1>2, <2>3, <3>1, Zenon DEF Create
    <3>7. PICK a : Goto(p, k, [c EXCEPT !.arr = a, !.joined = c.disks])
      BY <3>2
    <3>8. k \in {"createVolume", "stopArray"}
      OBVIOUS
    <3> DEFINE d == [c EXCEPT !.arr = a, !.joined = c.disks]
    <3>3. d.op = c.op /\ d.disks = c.disks /\ d.joined = c.disks /\ d.vol = c.vol /\ d.seen = c.seen
      BY <1>1 DEF Call
    <3>4. c.op = "Create" /\ c.seen = {} /\ c.vol = {} /\ c.disks # {}
      BY <1>1, <2>1, <3>1 DEF Kind, KindOfOp
    <3>5. Goto(p, k, d)
      BY <3>7
    <3> HIDE DEF d, c, k
    <3>6. Kind(k, d)
      BY <3>3, <3>4, <3>8 DEF Kind, KindOfOp, KindOfDisks, Growing
    <3> QED BY <3>5, <3>6, Went
  <2> QED BY <2>2, <2>3
<1>3. CASE CreateVolume(p)
  <2>1. pc[p] = "createVolume"
    BY <1>3 DEF CreateVolume
  <2> DEFINE c1 == [c EXCEPT !.tries = 1]
             c2 == [c EXCEPT !.tries = 0, !.status = "failed"]
  <2>2. \/ \E s : Return(p, s)
        \/ Goto(p, "createVolume", c1)
        \/ c.op = "Create" /\ Goto(p, "stopArray", c2)
    BY <1>3 DEF CreateVolume
  <2>3. /\ c1.op = c.op /\ c1.disks = c.disks /\ c1.joined = c.joined /\ c1.vol = c.vol /\ c1.seen = c.seen
        /\ c2.op = c.op /\ c2.disks = c.disks /\ c2.joined = c.joined /\ c2.vol = c.vol /\ c2.seen = c.seen
    BY <1>1 DEF Call
  <2> HIDE DEF c1, c2
  <2>4. Kind("createVolume", c1)
    BY <1>1, <2>1, <2>3 DEF Kind, KindOfOp, KindOfDisks, Growing
  <2>5. c.op = "Create" => Kind("stopArray", c2)
    BY <1>1, <2>1, <2>3 DEF Kind, KindOfOp, KindOfDisks, Growing
  <2> QED BY <2>2, <2>4, <2>5, Went, Left
<1>4. CASE StartSync(p) \/ Cancel(p)
  <2>1. \E s : Return(p, s)
    BY <1>4 DEF StartSync, Cancel
  <2> QED BY <2>1, Left
<1> QED BY <1>2, <1>3, <1>4

(* Every call keeps to its kind.                                            *)
LEMMA KindsStep == IInv /\ Kinds /\ [Next]_vars => Kinds'
<1> SUFFICES ASSUME IInv, Kinds, [Next]_vars PROVE Kinds'
  OBVIOUS
<1>1. ASSUME NEW p \in Procs, Command(p) PROVE Kinds'
  <2>1. \A q \in Procs \ {p} : Kind(pc'[q], call'[q])
    BY <1>1, OthersKeep DEF Kinds
  <2>2. Kind(pc'[p], call'[p])
    BY <1>1, GrowthKinds, RemovalKinds, VolumeKinds, OtherKinds DEF Command
  <2> QED BY <2>1, <2>2 DEF Kinds
<1>2. ASSUME NEW p \in Procs, CallAPI(p) PROVE Kinds'
  <2>1. PICK k \in Commands, c \in Call : Begins(k, c) /\ Begin(p, k, c) /\ pc[p] = "idle"
    BY <1>2, CallsBegin DEF IInv
  <2>2. ASSUME NEW j, NEW e \in Call, Kind(j, e), NEW b \in BOOLEAN
        PROVE  Kind(j, [e EXCEPT !.alone = b])
    <3> DEFINE d == [e EXCEPT !.alone = b]
    <3>1. /\ d.op = e.op /\ d.vol = e.vol /\ d.disks = e.disks /\ d.joined = e.joined /\ d.seen = e.seen
          /\ d.plan = e.plan /\ d.todo = e.todo /\ d.status = e.status
      BY DEF Call
    <3> HIDE DEF d
    <3>2. KindOfOp(j, d)
      BY <2>2, <3>1 DEF Kind, KindOfOp, Growing
    <3>3. KindOfDisks(j, d)
      BY <2>2, <3>1 DEF Kind, KindOfDisks, Growing
    <3> QED BY <3>2, <3>3 DEF Kind, d
  <2>3. Kind(k, c) /\ k # "idle"
    BY <2>1 DEF Begins
  <2>4. Kind(pc'[p], call'[p])
    <3> DEFINE b == \A r \in Procs : pc[r] = "idle"
    <3>1. pc'[p] = k /\ call'[p] = [c EXCEPT !.alone = b]
      BY <2>1 DEF Begin, IInv, CallsType
    <3> HIDE DEF b
    <3>2. Kind(k, [c EXCEPT !.alone = b])
      BY <2>2, <2>3 DEF b
    <3> QED BY <3>1, <3>2
  <2>5. ASSUME NEW q \in Procs \ {p} PROVE Kind(pc'[q], call'[q])
    <3>1. pc'[q] = pc[q] /\ call'[q] = [call[q] EXCEPT !.alone = FALSE]
      BY <2>1 DEF Begin, IInv, CallsType
    <3>2. call[q] \in Call /\ Kind(pc[q], call[q])
      BY CallFacts DEF Kinds
    <3> QED BY <2>2, <3>1, <3>2
  <2> QED BY <2>4, <2>5 DEF Kinds
<1>3. CASE Kernel
  <2>1. UNCHANGED <<pc, call>>
    BY <1>3 DEF Kernel, DiskFails, SpareTaken, Settles
  <2> QED BY <2>1 DEF Kinds
<1>4. CASE UNCHANGED vars
  BY <1>4 DEF vars, Kinds
<1> QED BY <1>1, <1>2, <1>3, <1>4 DEF Next

-----------------------------------------------------------------------------
(* No volume is destroyed but by a call that deletes it *)

VInv == Matched /\ Whole /\ Kinds

(* A volume that has all its disks is not touched where metadata is taken   *)
(* from, or written to, disks that no container has.                        *)
LEMMA FreeDisks ==
  ASSUME Matched, NEW v, v \in Vols, volume[v].disks \subseteq Disks, Exists(v), AllHeld(v),
         NEW m, \A d \in Disks : held[d] # NoArray => m[d] = meta[d]
  PROVE  Remnant(m)[v] = volume[v]
<1>1. PICK d \in volume[v].disks : held[d] = volume[v].arr
  BY DEF AllHeld
<1>2. m[d] = volume[v].arr
  BY <1>1 DEF Exists, Matched
<1> QED BY <1>2 DEF Remnant

(* What a step does to a volume, as far as its disks go                     *)
Keeps(v) ==
  Exists(v)' =>
    \/ AllHeld(v)'
    \/ ~volume'[v].running /\ (v \in stuck' \/ Removing(v)')
    \/ /\ ~volume'[v].running /\ Exists(v) /\ ~AllHeld(v)
       /\ v \in stuck => v \in stuck'
       /\ Removing(v) => Removing(v)' \/ v \in stuck'

LEMMA KeptWhole ==
  ASSUME Whole, \A v \in Vols : Keeps(v)
  PROVE  Whole'
BY DEF Whole, Keeps

(* Where no container loses a disk, the volumes that stay as they are, or   *)
(* that have all their disks afterwards, stay whole.                        *)
LEMMA Undisturbed ==
  ASSUME IInv, VInv, NEW v \in Vols,
         Exists(v)' => (Exists(v) /\ volume'[v] = volume[v]) \/ AllHeld(v)',
         \A d \in Disks : held[d] # NoArray => held'[d] = held[d],
         v \in stuck => v \in stuck', Removing(v) => Removing(v)' \/ v \in stuck'
  PROVE  Keeps(v)
<1> SUFFICES ASSUME Exists(v)', ~AllHeld(v)', Exists(v), volume'[v] = volume[v]
             PROVE  ~volume'[v].running /\ ~AllHeld(v)
  BY DEF Keeps
<1>1. volume[v].disks \subseteq Disks
  BY WorldFacts DEF IInv
<1>2. ~AllHeld(v)
  <2> SUFFICES ASSUME AllHeld(v) PROVE FALSE
    OBVIOUS
  <2>1. \A d \in volume[v].disks : held'[d] = volume[v].arr
    BY <1>1 DEF AllHeld, Exists
  <2> QED BY <2>1 DEF AllHeld
<1> QED BY <1>2 DEF VInv, Whole

LEMMA RemovingStays ==
  ASSUME IInv, NEW p \in Procs, Command(p), pc[p] \notin {"stopArray", "wipeAll"}
  PROVE  \A v \in Vols : Removing(v) => Removing(v)'
BY OthersKeep DEF Removing

(* What a step destroys was doomed.                                         *)
SparesTheRest == \A v \in Vols : Exists(v) /\ volume'[v] = NoVolume => Doomed(v)

LEMMA NotDoomed ==
  ASSUME VInv, NEW v \in Vols, Exists(v), ~Doomed(v)
  PROVE  AllHeld(v)
BY DEF VInv, Whole, Doomed, Removing

(* Metadata comes and goes on disks that no container has.                  *)
LEMMA OnFreeDisks ==
  ASSUME IInv, VInv, volume' = Remnant(meta'),
         \A d \in Disks : held[d] # NoArray => held'[d] = held[d] /\ meta'[d] = meta[d],
         \A v \in Vols : v \in stuck => v \in stuck',
         \A v \in Vols : Removing(v) => Removing(v)' \/ v \in stuck' \/ ~Exists(v)'
  PROVE  Whole' /\ SparesTheRest
<1>1. SparesTheRest
  <2> SUFFICES ASSUME NEW v \in Vols, Exists(v), ~Doomed(v) PROVE volume'[v] # NoVolume
    BY DEF SparesTheRest
  <2>1. AllHeld(v) /\ volume[v].disks \subseteq Disks
    BY NotDoomed, WorldFacts DEF IInv
  <2>2. volume'[v] = volume[v]
    BY <2>1, FreeDisks DEF VInv
  <2> QED BY <2>2 DEF Exists, NoVolume
<1>2. ASSUME NEW v \in Vols PROVE Keeps(v)
  <2>1. Exists(v)' => Exists(v) /\ volume'[v] = volume[v]
    BY DEF Remnant, Exists, NoVolume
  <2>2. CASE Exists(v)'
    BY <2>1, <2>2, Undisturbed
  <2> QED BY <2>2 DEF Keeps
<1> QED BY <1>1, <1>2, KeptWhole DEF VInv

(* Volumes change, their disks stay where they are.                         *)
LEMMA OnVolumes ==
  ASSUME IInv, VInv, UNCHANGED <<held, meta>>,
         \A v \in Vols : volume'[v] = volume[v] \/ (AllHeld(v)' /\ (Exists(v) => Exists(v)')),
         \A v \in Vols : v \in stuck /\ Exists(v)' /\ ~volume'[v].running => v \in stuck',
         \A v \in Vols : Removing(v) => Removing(v)' \/ v \in stuck'
  PROVE  Matched' /\ Whole' /\ SparesTheRest
<1>1. Matched'
  BY DEF VInv, Matched
<1>2. SparesTheRest
  BY DEF SparesTheRest, Exists, NoVolume
<1>3. ASSUME NEW v \in Vols PROVE Keeps(v)
  <2>1. CASE AllHeld(v)'
    BY <2>1 DEF Keeps
  <2>2. CASE ~AllHeld(v)'
    <3>1. volume'[v] = volume[v] /\ ~AllHeld(v)
      BY <2>2 DEF AllHeld
    <3>2. Exists(v)' => Exists(v) /\ ~volume'[v].running
      BY <3>1 DEF VInv, Whole, Exists
    <3> QED BY <3>1, <3>2 DEF Keeps
  <2> QED BY <2>1, <2>2
<1> QED BY <1>1, <1>2, <1>3, KeptWhole DEF VInv

LEMMA AddKeeps ==
  ASSUME IInv, VInv, NEW p \in Procs, Add(p)
  PROVE  Matched' /\ Whole' /\ SparesTheRest
<1>1. PICK T \in SUBSET {d \in call[p].todo : held[d] = NoArray /\ call[p].arr \in up} :
        /\ held' = With(held, T, call[p].arr)
        /\ meta' = With(meta, T, call[p].arr)
        /\ volume' = Remnant(meta')
  BY DEF Add
<1>2. stuck' = stuck /\ pc[p] = "add"
  BY DEF Add, OwnStep
<1>3. \A d \in Disks : held[d] # NoArray => held'[d] = held[d] /\ meta'[d] = meta[d]
  BY <1>1 DEF With
<1>4. Matched'
  BY <1>1 DEF With, VInv, Matched
<1>5. \A v \in Vols : Removing(v) => Removing(v)'
  BY <1>2, RemovingStays DEF Command
<1> QED BY <1>1, <1>2, <1>3, <1>4, <1>5, OnFreeDisks

LEMMA WipeKeeps ==
  ASSUME IInv, VInv, NEW p \in Procs, Wipe(p)
  PROVE  Matched' /\ Whole' /\ SparesTheRest
<1>1. held' = held /\ stuck' = stuck /\ pc[p] = "wipe"
  BY DEF Wipe, OwnStep
<1>2. \A v \in Vols : Removing(v) => Removing(v)'
  BY <1>1, RemovingStays DEF Command
<1>3. CASE UNCHANGED <<meta, volume>>
  BY <1>1, <1>2, <1>3, OnVolumes
<1>4. CASE ~UNCHANGED <<meta, volume>>
  <2>1. /\ \A d \in call[p].cur : held[d] = NoArray
        /\ meta' = Without(meta, call[p].cur) /\ volume' = Remnant(meta')
    BY <1>4 DEF Wipe
  <2>2. \A d \in Disks : held[d] # NoArray => meta'[d] = meta[d]
    BY <2>1 DEF Without
  <2>3. Matched'
    BY <1>1, <2>2 DEF VInv, Matched
  <2> QED BY <1>1, <1>2, <2>1, <2>2, <2>3, OnFreeDisks
<1> QED BY <1>3, <1>4

LEMMA CreateKeeps ==
  ASSUME IInv, VInv, NEW p \in Procs, Create(p)
  PROVE  Matched' /\ Whole' /\ SparesTheRest
<1>1. stuck' = stuck /\ pc[p] = "create"
  BY DEF Create, OwnStep
<1>2. \A v \in Vols : Removing(v) => Removing(v)'
  BY <1>1, RemovingStays DEF Command
<1>3. CASE UNCHANGED world
  BY <1>1, <1>2, <1>3, OnVolumes DEF world
<1>4. CASE ~UNCHANGED world
  <2>1. \E S, a : /\ \A d \in S : held[d] = NoArray
                  /\ held' = With(held, S, a) /\ meta' = With(meta, S, a) /\ volume' = Remnant(meta')
    BY <1>4 DEF Create
  <2>2. PICK S, a : /\ \A d \in S : held[d] = NoArray
                    /\ held' = With(held, S, a) /\ meta' = With(meta, S, a) /\ volume' = Remnant(meta')
    BY <2>1
  <2>3. \A d \in Disks : held[d] # NoArray => held'[d] = held[d] /\ meta'[d] = meta[d]
    BY <2>2 DEF With
  <2>4. Matched'
    BY <2>2 DEF With, VInv, Matched
  <2> QED BY <1>1, <1>2, <2>2, <2>3, <2>4, OnFreeDisks
<1> QED BY <1>3, <1>4

LEMMA WipeAllKeeps ==
  ASSUME IInv, VInv, NEW p \in Procs, WipeAll(p)
  PROVE  Matched' /\ Whole' /\ SparesTheRest
<1> DEFINE c == call[p]
<1>1. /\ held' = held /\ pc[p] = "wipeAll" /\ c \in Call
      /\ \A q \in Procs \ {p} : pc'[q] = pc[q] /\ call'[q] = call[q]
  BY CallFacts, OthersKeep DEF WipeAll, Command
<1>2. PICK T \in SUBSET {d \in c.disks : held[d] = NoArray} :
        /\ meta' = Without(meta, T)
        /\ volume' = Remnant(meta')
        /\ \/ Retry(p, c)
           \/ stuck' = stuck \cup {v \in c.vol : volume'[v] # NoVolume}
  BY DEF WipeAll
<1>3. \A d \in Disks : held[d] # NoArray => meta'[d] = meta[d]
  BY <1>2 DEF Without
<1>4. Matched'
  BY <1>1, <1>3 DEF VInv, Matched
<1>5. stuck \subseteq stuck'
  BY <1>2 DEF Retry
<1>6. ASSUME NEW v \in Vols, Removing(v) PROVE Removing(v)' \/ v \in stuck' \/ ~Exists(v)'
  <2>1. PICK q \in Procs : call[q].op = "Delete" /\ v \in call[q].vol /\ pc[q] \in {"stopArray", "wipeAll"}
    BY <1>6 DEF Removing
  <2>2. CASE q # p
    BY <1>1, <2>1, <2>2 DEF Removing
  <2>3. CASE q = p /\ Retry(p, c)
    <3> DEFINE d == [c EXCEPT !.tries = @ + 1]
    <3>1. Goto(p, "stopArray", d) \/ stuck' = stuck \cup c.vol
      BY <2>3 DEF Retry
    <3>2. d.op = c.op /\ d.vol = c.vol
      BY <1>1 DEF Call
    <3> HIDE DEF d
    <3> QED BY <2>1, <2>3, <3>1, <3>2, Went DEF Removing
  <2>4. CASE q = p /\ stuck' = stuck \cup {w \in c.vol : volume'[w] # NoVolume}
    BY <2>1, <2>4 DEF Exists, NoVolume
  <2> QED BY <1>2, <2>2, <2>3, <2>4
<1> QED BY <1>1, <1>2, <1>3, <1>4, <1>5, <1>6, OnFreeDisks

LEMMA StopArrayKeeps ==
  ASSUME IInv, VInv, NEW p \in Procs, StopArray(p)
  PROVE  Matched' /\ Whole' /\ SparesTheRest
<1> DEFINE c == call[p]
<1>1. /\ meta' = meta /\ pc[p] = "stopArray" /\ c \in Call
      /\ \A q \in Procs \ {p} : pc'[q] = pc[q] /\ call'[q] = call[q]
  BY CallFacts, OthersKeep DEF StopArray, Command
<1>2. CASE Retry(p, c) /\ UNCHANGED <<held, volume>>
  <2>1. stuck \subseteq stuck'
    BY <1>2 DEF Retry
  <2>2. ASSUME NEW v \in Vols, Removing(v) PROVE Removing(v)' \/ v \in stuck'
    <3>1. PICK q \in Procs : call[q].op = "Delete" /\ v \in call[q].vol /\ pc[q] \in {"stopArray", "wipeAll"}
      BY <2>2 DEF Removing
    <3>2. CASE q # p
      BY <1>1, <3>1, <3>2 DEF Removing
    <3>3. CASE q = p
      <4> DEFINE d == [c EXCEPT !.tries = @ + 1]
      <4>1. Goto(p, "stopArray", d) \/ stuck' = stuck \cup c.vol
        BY <1>2 DEF Retry
      <4>2. d.op = c.op /\ d.vol = c.vol
        BY <1>1 DEF Call
      <4> HIDE DEF d
      <4> QED BY <3>1, <3>3, <4>1, <4>2, Went DEF Removing
    <3> QED BY <3>2, <3>3
  <2> QED BY <1>1, <1>2, <2>1, <2>2, OnVolumes
<1>3. CASE ~(Retry(p, c) /\ UNCHANGED <<held, volume>>)
  <2>1. /\ Visible(c.arr) = {} /\ held' = Without(held, Components(c.arr)) /\ volume' = Remnant(meta)
        /\ stuck' = stuck \cup (Of(c.arr) \ c.seen)
        /\ Goto(p, "wipeAll", c)
    BY <1>3 DEF StopArray
  <2>2. pc'[p] = "wipeAll" /\ call'[p] = c
    BY <2>1, Went
  <2>3. (c.op = "Delete" /\ c.seen \subseteq c.vol) \/ c.seen = {}
    BY <1>1 DEF VInv, Kinds, Kind, KindOfOp
  <2>4. Matched'
    BY <1>1, <2>1 DEF Without, VInv, Matched
  <2>5. SparesTheRest
    <3> SUFFICES ASSUME NEW v \in Vols, Exists(v), ~Doomed(v) PROVE volume'[v] # NoVolume
      BY DEF SparesTheRest
    <3>1. AllHeld(v) /\ volume[v].disks \subseteq Disks
      BY NotDoomed, WorldFacts DEF IInv
    <3>2. volume'[v] = volume[v]
      BY <2>1, <3>1, FreeDisks DEF VInv
    <3> QED BY <3>2 DEF Exists, NoVolume
  <2>6. ASSUME NEW v \in Vols, Exists(v)' PROVE Keeps(v)
    <3>1. Exists(v) /\ volume'[v] = volume[v] /\ volume[v].disks \subseteq Disks
      BY <2>1, <2>6, WorldFacts DEF Remnant, Exists, NoVolume, IInv
    <3>2. Removing(v) => Removing(v)'
      BY <1>1, <2>2 DEF Removing
    <3>3. CASE volume[v].arr # c.arr
      <4>1. AllHeld(v) => AllHeld(v)'
        BY <2>1, <3>1, <3>3 DEF AllHeld, Without, Components
      <4>2. ~AllHeld(v) => ~volume[v].running
        BY <3>1 DEF VInv, Whole
      <4> QED BY <2>1, <3>1, <3>2, <4>1, <4>2 DEF Keeps
    <3>4. CASE volume[v].arr = c.arr
      <4>1. v \in Of(c.arr) /\ ~volume[v].running
        BY <2>1, <3>1, <3>4 DEF Visible, Of
      <4>2. CASE v \in c.seen
        BY <2>2, <2>3, <3>1, <4>1, <4>2 DEF Removing, Keeps
      <4>3. CASE v \notin c.seen
        BY <2>1, <3>1, <4>1, <4>3 DEF Keeps
      <4> QED BY <4>2, <4>3
    <3> QED BY <3>3, <3>4
  <2>7. \A v \in Vols : Keeps(v)
    BY <2>6 DEF Keeps
  <2> QED BY <2>4, <2>5, <2>7, KeptWhole DEF VInv
<1> QED BY <1>2, <1>3

LEMMA UnplugKeeps ==
  ASSUME IInv, VInv, NEW p \in Procs, Unplug(p)
  PROVE  Matched' /\ Whole' /\ SparesTheRest
<1> DEFINE c == call[p]
<1>1. UNCHANGED <<meta, volume>> /\ pc[p] = "unplug"
  BY DEF Unplug
<1>2. \A v \in Vols : Removing(v) => Removing(v)'
  BY <1>1, RemovingStays DEF Command
<1>3. CASE UNCHANGED <<held, stuck>>
  BY <1>1, <1>2, <1>3, OnVolumes
<1>4. CASE ~UNCHANGED <<held, stuck>>
  <2>1. PICK d \in c.todo :
          /\ held[d] = c.arr /\ \A v \in Visible(c.arr) : d \notin volume[v].disks
          /\ held' = Without(held, {d})
          /\ stuck' = stuck \cup {v \in Of(c.arr) : d \in volume[v].disks}
    BY <1>4 DEF Unplug
  <2>2. Matched'
    BY <1>1, <2>1 DEF Without, VInv, Matched
  <2>3. SparesTheRest
    BY <1>1 DEF SparesTheRest, Exists, NoVolume
  <2>4. ASSUME NEW v \in Vols, Exists(v)' PROVE Keeps(v)
    <3>1. Exists(v) /\ volume'[v] = volume[v] /\ volume[v].disks \subseteq Disks
      BY <1>1, <2>4, WorldFacts DEF Exists, IInv
    <3>2. CASE volume[v].arr = c.arr /\ d \in volume[v].disks
      <4>1. v \in Of(c.arr) /\ ~volume[v].running
        BY <2>1, <3>1, <3>2 DEF Visible, Of
      <4> QED BY <2>1, <3>1, <3>2, <4>1 DEF Keeps
    <3>3. CASE ~(volume[v].arr = c.arr /\ d \in volume[v].disks)
      <4>1. AllHeld(v) => AllHeld(v)'
        BY <2>1, <3>1, <3>3 DEF AllHeld, Without
      <4>2. ~AllHeld(v) => ~volume[v].running
        BY <3>1 DEF VInv, Whole
      <4> QED BY <1>2, <2>1, <3>1, <4>1, <4>2 DEF Keeps
    <3> QED BY <3>2, <3>3
  <2>5. \A v \in Vols : Keeps(v)
    BY <2>4 DEF Keeps
  <2> QED BY <2>2, <2>3, <2>5, KeptWhole DEF VInv
<1> QED BY <1>3, <1>4

LEMMA GrowthKeeps ==
  ASSUME IInv, VInv, NEW p \in Procs, Reshape(p) \/ Relevel(p)
  PROVE  Matched' /\ Whole' /\ SparesTheRest
<1> DEFINE c == call[p]
<1>1. UNCHANGED <<held, meta, stuck>> /\ pc[p] \in {"reshape", "relevel"} /\ c.vol \subseteq Vols
  BY CallFacts DEF Reshape, Relevel, OwnStep, Call
<1>2. \A v \in Vols : Removing(v) => Removing(v)'
  BY <1>1, RemovingStays DEF Command
<1>3. \A v \in Visible(c.arr) : v \in Vols /\ Exists(v) /\ AllHeld(v) /\ volume[v].arr = c.arr
  BY DEF Visible, Of, VInv, Whole
<1>4. \A T \in SUBSET Spares(c.arr) : \A d \in T : held[d] = c.arr
  BY DEF Spares, Components
<1>5. \A v \in Vols : volume'[v] = volume[v] \/ (AllHeld(v)' /\ (Exists(v) => Exists(v)'))
  <2>1. CASE UNCHANGED volume
    BY <2>1
  <2>2. CASE Reshape(p) /\ ~UNCHANGED volume
    <3>1. PICK T \in SUBSET Spares(c.arr) :
            volume' = [v \in Vols |-> IF v \in Visible(c.arr)
                                      THEN [volume[v] EXCEPT !.disks = @ \cup T, !.state = "Busy"] ELSE volume[v]]
      BY <2>2 DEF Reshape
    <3>2. ASSUME NEW v \in Visible(c.arr) PROVE AllHeld(v)' /\ Exists(v)'
      <4>1. volume'[v].arr = volume[v].arr /\ volume'[v].disks = volume[v].disks \cup T
        BY <1>3, <3>1 DEF IInv, WorldType, Volume
      <4> QED BY <1>1, <1>3, <1>4, <4>1 DEF AllHeld, Exists
    <3> QED BY <3>1, <3>2
  <2>3. CASE Relevel(p) /\ ~UNCHANGED volume
    <3>1. PICK v \in c.vol :
            /\ v \in Visible(c.arr)
            /\ \E D \in (IF c.level = 0 THEN {T \in SUBSET volume[v].disks : 2 * Cardinality(T) = Cardinality(volume[v].disks)}
                         ELSE {volume[v].disks \cup T :
                                 T \in {U \in SUBSET Spares(c.arr) : Cardinality(U) = Cardinality(c.want)}}) :
                 volume' = [volume EXCEPT ![v].disks = D, ![v].level = c.level, ![v].state = "Busy"]
      BY <2>3 DEF Relevel
    <3>2. PICK D : /\ \/ D \subseteq volume[v].disks /\ 2 * Cardinality(D) = Cardinality(volume[v].disks)
                      \/ \E T \in SUBSET Spares(c.arr) : D = volume[v].disks \cup T
                   /\ volume' = [volume EXCEPT ![v].disks = D, ![v].level = c.level, ![v].state = "Busy"]
      BY <3>1
    <3>3. /\ \A w \in Vols \ {v} : volume'[w] = volume[w]
          /\ volume'[v].arr = volume[v].arr /\ volume'[v].disks = D
      BY <1>1, <3>1, <3>2 DEF IInv, WorldType, Volume
    <3>4. AllHeld(v) /\ volume[v].arr = c.arr /\ volume[v].disks \subseteq Disks
      BY <1>1, <1>3, <3>1, WorldFacts DEF IInv
    <3>5. D # {}
      <4>1. IsFiniteSet(volume[v].disks) /\ volume[v].disks # {}
        BY <3>4, FiniteAssumption, FS_Subset DEF AllHeld
      <4>2. Cardinality(volume[v].disks) # 0
        BY <4>1, FS_EmptySet
      <4>3. Cardinality({}) = 0
        BY FS_EmptySet
      <4> QED BY <3>2, <4>1, <4>2, <4>3
    <3>6. \A d \in D : held[d] = c.arr
      BY <1>4, <3>2, <3>4 DEF AllHeld
    <3>7. AllHeld(v)' /\ Exists(v)'
      BY <1>1, <1>3, <3>1, <3>3, <3>4, <3>5, <3>6 DEF AllHeld, Exists
    <3> QED BY <3>3, <3>7
  <2> QED BY <2>1, <2>2, <2>3
<1> QED BY <1>1, <1>2, <1>5, OnVolumes

LEMMA StopVolumeKeeps ==
  ASSUME IInv, VInv, NEW p \in Procs, StopVolume(p)
  PROVE  Matched' /\ Whole' /\ SparesTheRest
<1>1. UNCHANGED <<held, meta>> /\ pc[p] = "stopVolume" /\ stuck \subseteq stuck' /\ call[p].vol \subseteq Vols
  BY CallFacts DEF StopVolume, Call
<1>2. \A v \in Vols : Removing(v) => Removing(v)'
  BY <1>1, RemovingStays DEF Command
<1>3. CASE UNCHANGED volume
  BY <1>1, <1>2, <1>3, OnVolumes
<1>4. CASE ~UNCHANGED volume
  <2>1. PICK v \in call[p].vol : volume[v].running /\ volume' = [volume EXCEPT ![v].running = FALSE]
    BY <1>4 DEF StopVolume
  <2>2. v \in Vols /\ \A w \in Vols \ {v} : volume'[w] = volume[w]
    BY <1>1, <2>1 DEF IInv, WorldType
  <2>3. volume'[v].arr = volume[v].arr /\ volume'[v].disks = volume[v].disks
    BY <2>1, <2>2 DEF IInv, WorldType, Volume
  <2>4. CASE Exists(v)
    <3>1. AllHeld(v)' /\ Exists(v)'
      BY <1>1, <2>1, <2>2, <2>3, <2>4 DEF VInv, Whole, AllHeld, Exists
    <3> QED BY <1>1, <1>2, <2>2, <3>1, OnVolumes
  <2>5. CASE ~Exists(v)
    <3>1. ~Exists(v)'
      BY <2>3, <2>5 DEF Exists
    <3>2. \A w \in Vols : Keeps(w)
      <4>1. ASSUME NEW w \in Vols, w # v, Exists(w)' PROVE Keeps(w)
        BY <1>1, <1>2, <2>2, <4>1, Undisturbed DEF Exists
      <4> QED BY <3>1, <4>1 DEF Keeps
    <3>3. SparesTheRest
      BY <2>2, <2>5 DEF SparesTheRest, Exists, NoVolume
    <3> QED BY <1>1, <3>2, <3>3, KeptWhole DEF VInv, Matched
  <2> QED BY <2>4, <2>5
<1> QED BY <1>3, <1>4

LEMMA KillKeeps ==
  ASSUME IInv, VInv, NEW p \in Procs, Kill(p)
  PROVE  Matched' /\ Whole' /\ SparesTheRest
<1>1. UNCHANGED <<held, meta>> /\ pc[p] = "kill" /\ stuck \subseteq stuck' /\ call[p].vol \subseteq Vols
  BY CallFacts DEF Kill, Call
<1>2. \A v \in Vols : Removing(v) => Removing(v)'
  BY <1>1, RemovingStays DEF Command
<1>3. CASE UNCHANGED volume
  BY <1>1, <1>2, <1>3, OnVolumes
<1>4. CASE ~UNCHANGED volume
  <2>1. PICK v \in call[p].vol : volume' = [volume EXCEPT ![v] = NoVolume]
    BY <1>4 DEF Kill
  <2>2. v \in Vols /\ volume'[v] = NoVolume /\ \A w \in Vols \ {v} : volume'[w] = volume[w]
    BY <1>1, <2>1 DEF IInv, WorldType
  <2>3. Doomed(v)
    BY <1>1, <2>1 DEF VInv, Kinds, Kind, KindOfOp, Doomed
  <2>4. SparesTheRest
    BY <2>2, <2>3 DEF SparesTheRest, Exists, NoVolume
  <2>5. \A w \in Vols : Keeps(w)
    <3>1. ASSUME NEW w \in Vols, w # v, Exists(w)' PROVE Keeps(w)
      BY <1>1, <1>2, <2>2, <3>1, Undisturbed DEF Exists
    <3>2. ~Exists(v)'
      BY <2>2 DEF Exists, NoVolume
    <3> QED BY <3>1, <3>2 DEF Keeps
  <2> QED BY <1>1, <2>4, <2>5, KeptWhole DEF VInv, Matched
<1> QED BY <1>3, <1>4

LEMMA AssembleKeeps ==
  ASSUME IInv, VInv, NEW p \in Procs, Assemble(p)
  PROVE  Matched' /\ Whole' /\ SparesTheRest
<1>1. UNCHANGED <<held, meta>> /\ pc[p] = "assemble"
  BY DEF Assemble
<1>2. \A v \in Vols : Removing(v) => Removing(v)'
  BY <1>1, RemovingStays DEF Command
<1>3. CASE UNCHANGED volume
  <2>1. \A v \in Vols : v \in stuck /\ Exists(v)' /\ ~volume'[v].running => v \in stuck'
    BY <1>3 DEF Assemble, Exists
  <2> QED BY <1>1, <1>2, <1>3, <2>1, OnVolumes
<1>4. CASE ~UNCHANGED volume
  <2>1. /\ stuck' = {v \in stuck \cup call[p].vol : Exists(v) /\ ~volume'[v].running}
        /\ \A v \in Vols : \/ volume'[v] = volume[v]
                           \/ /\ Exists(v) /\ volume'[v].arr = volume[v].arr
                              /\ volume'[v].disks = There(v) /\ There(v) # {}
    BY <1>4, Restarted
  <2>2. \A v \in Vols : volume'[v] = volume[v] \/ (AllHeld(v)' /\ (Exists(v) => Exists(v)'))
    BY <1>1, <2>1 DEF AllHeld, There, Exists
  <2>3. \A v \in Vols : v \in stuck /\ Exists(v)' /\ ~volume'[v].running => v \in stuck'
    BY <2>1 DEF Exists
  <2> QED BY <1>1, <1>2, <2>2, <2>3, OnVolumes
<1> QED BY <1>3, <1>4

LEMMA CreateVolumeKeeps ==
  ASSUME IInv, VInv, NEW p \in Procs, CreateVolume(p)
  PROVE  Matched' /\ Whole' /\ SparesTheRest
<1>1. UNCHANGED <<held, meta, stuck>> /\ pc[p] = "createVolume"
  BY DEF CreateVolume, OwnStep
<1>2. \A v \in Vols : Removing(v) => Removing(v)'
  BY <1>1, RemovingStays DEF Command
<1>3. CASE UNCHANGED volume
  BY <1>1, <1>2, <1>3, OnVolumes
<1>4. CASE ~UNCHANGED volume
  <2>1. PICK a \in up, v \in Vols :
          /\ ~Exists(v) /\ \A d \in call[p].disks : held[d] = a
          /\ volume' = [volume EXCEPT ![v] = [arr |-> a, disks |-> call[p].disks, level |-> call[p].level,
                                              state |-> "Busy", running |-> TRUE]]
    BY <1>4 DEF CreateVolume
  <2>2. /\ \A w \in Vols \ {v} : volume'[w] = volume[w]
        /\ volume'[v].arr = a /\ volume'[v].disks = call[p].disks
    BY <2>1 DEF IInv, WorldType
  <2>3. call[p].disks # {}
    BY <1>1 DEF VInv, Kinds, Kind, KindOfOp
  <2>4. AllHeld(v)'
    BY <1>1, <2>1, <2>2, <2>3 DEF AllHeld
  <2> QED BY <1>1, <1>2, <2>1, <2>2, <2>4, OnVolumes
<1> QED BY <1>3, <1>4

LEMMA SyncKeeps ==
  ASSUME IInv, VInv, NEW p \in Procs, StartSync(p) \/ Cancel(p)
  PROVE  Matched' /\ Whole' /\ SparesTheRest
<1>1. UNCHANGED <<held, meta, stuck>> /\ pc[p] \in {"sync", "cancel"} /\ call[p].vol \subseteq Vols
  BY CallFacts DEF StartSync, Cancel, OwnStep, Call
<1>2. \A v \in Vols : Removing(v) => Removing(v)'
  BY <1>1, RemovingStays DEF Command
<1>3. CASE UNCHANGED volume
  BY <1>1, <1>2, <1>3, OnVolumes
<1>4. CASE ~UNCHANGED volume
  <2>1. PICK v, s : /\ v \in call[p].vol /\ Exists(v) /\ volume[v].running
                    /\ volume' = [volume EXCEPT ![v].state = s]
    BY <1>4 DEF StartSync, Cancel
  <2>2. v \in Vols /\ \A w \in Vols \ {v} : volume'[w] = volume[w]
    BY <1>1, <2>1 DEF IInv, WorldType
  <2>3. volume'[v].arr = volume[v].arr /\ volume'[v].disks = volume[v].disks
    BY <2>1, <2>2 DEF IInv, WorldType, Volume
  <2>4. AllHeld(v)' /\ Exists(v)'
    BY <1>1, <2>1, <2>2, <2>3 DEF VInv, Whole, AllHeld, Exists
  <2> QED BY <1>1, <1>2, <2>2, <2>4, OnVolumes
<1> QED BY <1>3, <1>4

LEMMA KernelKeeps ==
  ASSUME IInv, VInv, Kernel
  PROVE  Matched' /\ Whole' /\ SparesTheRest
<1>1. UNCHANGED <<meta, pc, call, stuck>>
  BY DEF Kernel, DiskFails, SpareTaken, Settles
<1>2. \A v \in Vols : Removing(v) => Removing(v)'
  BY <1>1 DEF Removing
<1>3. ASSUME NEW d \in Disks, DiskFails(d) PROVE Matched' /\ Whole' /\ SparesTheRest
  <2>1. /\ held[d] # NoArray
        /\ \A v \in Of(held[d]) : volume[v].running /\ Cardinality(volume[v].disks) > 1
        /\ volume' = [v \in Vols |-> IF d \in volume[v].disks /\ volume[v].arr = held[d]
                                     THEN [volume[v] EXCEPT !.disks = @ \ {d}, !.state = "Degraded"]
                                     ELSE volume[v]]
        /\ held' = Without(held, {d})
    BY <1>3 DEF DiskFails
  <2>2. \A v \in Vols : /\ volume[v] \in Volume /\ volume'[v].arr = volume[v].arr
                        /\ volume'[v].running = volume[v].running
    BY <2>1 DEF IInv, WorldType, Volume
  <2>3. Matched'
    BY <1>1, <2>1 DEF Without, VInv, Matched
  <2>4. SparesTheRest
    BY <2>2 DEF SparesTheRest, Exists, NoVolume
  <2>5. ASSUME NEW v \in Vols, Exists(v)' PROVE Keeps(v)
    <3>1. Exists(v) /\ volume[v].disks \subseteq Disks
      BY <2>2, <2>5, WorldFacts DEF Exists, IInv
    <3>2. CASE volume[v].arr = held[d]
      <4>1. v \in Of(held[d]) /\ AllHeld(v)
        BY <2>1, <3>1, <3>2 DEF Of, VInv, Whole
      <4>2. volume[v].disks # {d}
        <5>1. Cardinality({d}) = 1
          BY FS_Singleton
        <5>2. Cardinality(volume[v].disks) > 1
          BY <2>1, <4>1
        <5> QED BY <5>1, <5>2
      <4>3. volume'[v].disks = volume[v].disks \ {d}
        <5>1. CASE d \in volume[v].disks
          BY <2>1, <2>2, <3>2, <5>1 DEF Volume
        <5>2. CASE d \notin volume[v].disks
          <6>1. volume'[v] = volume[v]
            BY <2>1, <5>2
          <6> QED BY <5>2, <6>1
        <5> QED BY <5>1, <5>2
      <4>4. AllHeld(v)'
        BY <2>1, <2>2, <3>1, <4>1, <4>2, <4>3 DEF AllHeld, Without
      <4> QED BY <4>4 DEF Keeps
    <3>3. CASE volume[v].arr # held[d]
      <4>1. volume'[v] = volume[v]
        BY <2>1, <3>3
      <4>2. AllHeld(v) => AllHeld(v)'
        BY <2>1, <3>1, <3>3, <4>1 DEF AllHeld, Without
      <4>3. ~AllHeld(v) => ~volume[v].running
        BY <3>1 DEF VInv, Whole
      <4> QED BY <1>1, <1>2, <3>1, <4>1, <4>2, <4>3 DEF Keeps
    <3> QED BY <3>2, <3>3
  <2>6. \A v \in Vols : Keeps(v)
    BY <2>5 DEF Keeps
  <2> QED BY <2>3, <2>4, <2>6, KeptWhole DEF VInv
<1>4. ASSUME NEW v \in Vols, Exists(v), volume[v].running, held' = held, NEW T, \A d \in T : held[d] = volume[v].arr,
             NEW s, volume' = [volume EXCEPT ![v].disks = @ \cup T, ![v].state = s]
      PROVE  Matched' /\ Whole' /\ SparesTheRest
  <2>1. \A w \in Vols \ {v} : volume'[w] = volume[w]
    BY <1>4 DEF IInv, WorldType
  <2>2. volume'[v].arr = volume[v].arr /\ volume'[v].disks = volume[v].disks \cup T
    BY <1>4 DEF IInv, WorldType, Volume
  <2>3. AllHeld(v)' /\ Exists(v)'
    BY <1>4, <2>2 DEF VInv, Whole, AllHeld, Exists
  <2> QED BY <1>1, <1>2, <1>4, <2>1, <2>3, OnVolumes
<1>5. ASSUME NEW v \in Vols, NEW d \in Disks, SpareTaken(v, d) PROVE Matched' /\ Whole' /\ SparesTheRest
  <2>1. Exists(v) /\ volume[v].running /\ held[d] = volume[v].arr /\ held' = held
    BY <1>5 DEF SpareTaken, Visible, Of, Spares, Components
  <2>2. volume' = [volume EXCEPT ![v].disks = @ \cup {d}, ![v].state = "Busy"]
    BY <1>5 DEF SpareTaken
  <2> QED BY <1>4, <2>1, <2>2
<1>6. ASSUME NEW v \in Vols, Settles(v) PROVE Matched' /\ Whole' /\ SparesTheRest
  <2>1. Exists(v) /\ volume[v].running /\ held' = held /\ volume' = [volume EXCEPT ![v].state = "Normal"]
    BY <1>6 DEF Settles
  <2>2. \A w \in Vols \ {v} : volume'[w] = volume[w]
    BY <2>1 DEF IInv, WorldType
  <2>3. volume'[v].arr = volume[v].arr /\ volume'[v].disks = volume[v].disks
    BY <2>1 DEF IInv, WorldType, Volume
  <2>4. AllHeld(v)' /\ Exists(v)'
    BY <2>1, <2>3 DEF VInv, Whole, AllHeld, Exists
  <2> QED BY <1>1, <1>2, <2>1, <2>2, <2>4, OnVolumes
<1> QED BY <1>3, <1>5, <1>6 DEF Kernel

LEMMA CallKeeps ==
  ASSUME IInv, VInv, NEW p \in Procs, CallAPI(p)
  PROVE  Matched' /\ Whole' /\ SparesTheRest
<1>1. UNCHANGED <<world, stuck>>
  BY CallAPIOK DEF IInv
<1>2. PICK k \in Commands, c \in Call : Begins(k, c) /\ Begin(p, k, c) /\ pc[p] = "idle"
  BY CallsBegin DEF IInv
<1>3. \A q \in Procs \ {p} : /\ pc'[q] = pc[q]
                             /\ call'[q].op = call[q].op /\ call'[q].vol = call[q].vol
  <2> SUFFICES ASSUME NEW q \in Procs \ {p}
               PROVE  pc'[q] = pc[q] /\ call'[q].op = call[q].op /\ call'[q].vol = call[q].vol
    OBVIOUS
  <2>1. pc'[q] = pc[q] /\ call'[q] = [call[q] EXCEPT !.alone = FALSE]
    BY <1>2 DEF Begin, IInv, CallsType
  <2>2. call[q] \in Call
    BY CallFacts
  <2> QED BY <2>1, <2>2 DEF Call
<1>4. \A v \in Vols : Removing(v) => Removing(v)'
  BY <1>2, <1>3 DEF Removing
<1> QED BY <1>1, <1>4, OnVolumes DEF world

LEMMA RenameKeeps ==
  ASSUME IInv, VInv, NEW p \in Procs, Name(p) \/ Scan(p)
  PROVE  Matched' /\ Whole' /\ SparesTheRest
<1>1. UNCHANGED world /\ stuck \subseteq stuck' /\ pc[p] \in {"name", "scan"}
  BY DEF Name, Scan, OwnStep
<1>2. \A v \in Vols : Removing(v) => Removing(v)'
  BY <1>1, RemovingStays DEF Command
<1> QED BY <1>1, <1>2, OnVolumes DEF world

LEMMA VolumesInitially == Init => VInv
<1> SUFFICES ASSUME Init PROVE VInv
  OBVIOUS
<1>1. PICK V \in SUBSET Vols, level \in [Vols -> Levels] :
        /\ \A v \in V : Fits(level[v], Cardinality(Built))
        /\ volume = [v \in Vols |-> IF v \in V
                                    THEN [arr |-> First, disks |-> Built, level |-> level[v],
                                          state |-> "Normal", running |-> TRUE]
                                    ELSE NoVolume]
  BY DEF Init
<1>2. V # {} => Built # {}
  BY <1>1, FS_EmptySet DEF Fits
<1>3. Matched
  BY DEF Init, Matched
<1>4. Whole
  <2> SUFFICES ASSUME NEW v \in Vols, Exists(v) PROVE AllHeld(v)
    BY DEF Whole
  <2>1. v \in V /\ volume[v].arr = First /\ volume[v].disks = Built
    BY <1>1 DEF Exists, NoVolume
  <2> QED BY <1>2, <2>1, BuiltAssumption DEF Init, AllHeld
<1>5. Kinds
  BY DEF Init, Kinds, Kind, KindOfOp, KindOfDisks, NoCall, Growing
<1> QED BY <1>3, <1>4, <1>5 DEF VInv

LEMMA CommandKeeps ==
  ASSUME IInv, VInv, NEW p \in Procs, Command(p)
  PROVE  Matched' /\ Whole' /\ SparesTheRest
BY AddKeeps, GrowthKeeps, UnplugKeeps, WipeKeeps, StopVolumeKeeps, KillKeeps, StopArrayKeeps, WipeAllKeeps,
   RenameKeeps, AssembleKeeps, CreateKeeps, CreateVolumeKeeps, SyncKeeps DEF Command

LEMMA VolumesStep == IInv /\ VInv /\ [Next]_vars => VInv' /\ SparesTheRest
<1> SUFFICES ASSUME IInv, VInv, [Next]_vars PROVE Matched' /\ Whole' /\ SparesTheRest
  BY KindsStep DEF VInv
<1>1. CASE UNCHANGED vars
  <2>1. \A v \in Vols : Removing(v) => Removing(v)'
    BY <1>1 DEF vars, Removing
  <2> QED BY <1>1, <2>1, OnVolumes DEF vars, world
<1> QED BY <1>1, CallKeeps, CommandKeeps, KernelKeeps DEF Next

(* Whatever calls of other processes, faults of disks and the kernel do     *)
(* between the commands of a call, no command destroys a volume but by a    *)
(* call that deletes it; a volume a call has failed with, or has taken a    *)
(* disk from while it was stopped, is excepted.  The reason is that the     *)
(* container of a volume that runs, or that nobody works on, has all its    *)
(* disks, and mdadm writes and clears metadata of no disk in a container.   *)
THEOREM VolumesSurvive == Spec => VisibleVolumesSurvive
<1> DEFINE Survive == \A p \in Procs : \A v \in call[p].seen : Destroys(p, v) => Doomed(v)
<1>1. IInv /\ SparesTheRest => Survive
  <2> SUFFICES ASSUME IInv, SparesTheRest, NEW p \in Procs, NEW v \in call[p].seen, Destroys(p, v)
               PROVE  Doomed(v)
    OBVIOUS
  <2>1. v \in Vols
    BY CallFacts DEF Call
  <2> QED BY <2>1 DEF SparesTheRest, Destroys
<1>2. VisibleVolumesSurvive <=> [][Survive]_vars
  BY DEF VisibleVolumesSurvive
<1>3. IInv /\ VInv /\ [Next]_vars => VInv' /\ [Survive]_vars
  BY <1>1, VolumesStep
<1> QED BY <1>2, <1>3, Initially, Step, VolumesInitially, PTL DEF Spec

-----------------------------------------------------------------------------
(* What a call keeps from command to command *)

Same(c, d) ==
  /\ d.op = c.op /\ d.vol = c.vol /\ d.level = c.level /\ d.alone = c.alone /\ d.disks = c.disks
  /\ c.op \in {"Delete", "Modify"} => d.arr = c.arr

Carries(p) ==
  \/ pc'[p] = "idle" /\ call'[p] = NoCall
  \/ pc'[p] # "idle" /\ Same(call[p], call'[p])

LEMMA WentSame ==
  ASSUME IInv, NEW p \in Procs, NEW k, k # "idle", NEW c, Goto(p, k, c), Same(call[p], c)
  PROVE  Carries(p)
BY Went DEF Carries

LEMMA LeftSame ==
  ASSUME IInv, NEW p \in Procs, NEW s, Return(p, s)
  PROVE  Carries(p)
BY Left DEF Carries

LEMMA ProceedSame ==
  ASSUME IInv, NEW p \in Procs, NEW c \in Call, Proceed(p, c), c.plan \in Chains, Same(call[p], c)
  PROVE  Carries(p)
<1> DEFINE d == [c EXCEPT !.plan = Tail(c.plan)]
<1>1. Same(call[p], d)
  BY DEF Same, Call
<1>2. c.plan # <<>> => Head(c.plan) # "idle"
  <2>1. c.plan \in {<<>>, <<"refuse">>, <<"reshape">>, <<"relevel">>, <<"add", "reshape">>}
    BY DEF Chains
  <2> QED BY <2>1
<1>3. (\E s : Return(p, s)) \/ (c.plan # <<>> /\ Goto(p, Head(c.plan), d))
  BY DEF Proceed
<1> HIDE DEF d
<1> QED BY <1>1, <1>2, <1>3, WentSame, LeftSame

LEMMA GrowthCarries ==
  ASSUME IInv, VInv, NEW p \in Procs, Add(p) \/ Reshape(p) \/ Relevel(p)
  PROVE  Carries(p)
<1> DEFINE c == call[p]
<1>1. c \in Call /\ CallSafe(pc[p], c) /\ Same(c, c)
  BY CallFacts DEF Same
<1>2. pc[p] \in {"add", "reshape", "relevel"} /\ c.plan \in Chains
  BY <1>1 DEF Add, Reshape, Relevel, CallSafe
<1>3. CASE Add(p)
  <2>1. PICK T \in SUBSET Disks :
          \/ Proceed(p, [c EXCEPT !.joined = T])
          \/ Return(p, "failed")
          \/ Goto(p, "create", c)
          \/ c.op = "GlobalSpare" /\ \E a \in c.left : Goto(p, "add", [c EXCEPT !.arr = a, !.left = @ \ {a}])
    <3>1. \E T \in SUBSET c.todo :
          \/ Proceed(p, [c EXCEPT !.joined = T])
          \/ Return(p, "failed")
          \/ Goto(p, "create", c)
          \/ c.op = "GlobalSpare" /\ \E a \in c.left : Goto(p, "add", [c EXCEPT !.arr = a, !.left = @ \ {a}])
      BY <1>3 DEF Add
    <3>2. c.todo \subseteq Disks
      BY <1>1 DEF Call
    <3> QED BY <3>1, <3>2
  <2> DEFINE d == [c EXCEPT !.joined = T]
  <2>2. d \in Call /\ Same(c, d) /\ d.plan \in Chains
    BY <1>1, <1>2 DEF Call, Same
  <2>3. ASSUME NEW a, c.op = "GlobalSpare" PROVE Same(c, [c EXCEPT !.arr = a, !.left = @ \ {a}])
    BY <1>1, <2>3 DEF Call, Same
  <2>4. CASE Proceed(p, d)
    <3> HIDE DEF d
    <3> QED BY <2>2, <2>4, ProceedSame
  <2>5. CASE Return(p, "failed") \/ Goto(p, "create", c)
    BY <1>1, <2>5, WentSame, LeftSame
  <2>6. ASSUME c.op = "GlobalSpare", NEW a \in c.left, Goto(p, "add", [c EXCEPT !.arr = a, !.left = @ \ {a}])
        PROVE  Carries(p)
    BY <2>3, <2>6, WentSame
  <2> QED BY <2>1, <2>4, <2>5, <2>6
<1>4. ASSUME TakeBack(p, c) PROVE Carries(p)
  <2> DEFINE d == [c EXCEPT !.todo = c.disks, !.status = "failed"]
  <2>1. Same(call[p], d)
    BY <1>1 DEF Same, Call
  <2>2. Return(p, "failed") \/ Goto(p, "unplug", d)
    BY <1>4 DEF TakeBack
  <2> HIDE DEF d
  <2> QED BY <2>1, <2>2, WentSame, LeftSame
<1>5. CASE Reshape(p) \/ Relevel(p)
  <2>1. Proceed(p, c) \/ Return(p, "ok") \/ TakeBack(p, c)
    BY <1>5 DEF Reshape, Relevel, RelevelFails
  <2> QED BY <1>1, <1>2, <1>4, <2>1, ProceedSame, LeftSame
<1> QED BY <1>3, <1>5

LEMMA RemovalCarries ==
  ASSUME IInv, VInv, NEW p \in Procs, Unplug(p) \/ Wipe(p) \/ StopArray(p) \/ WipeAll(p)
  PROVE  Carries(p)
<1> DEFINE c == call[p]
<1>1. c \in Call /\ Same(c, c)
  BY CallFacts DEF Same
<1>2. ASSUME NEW d, Same(c, d), NextSpare(p, d) PROVE Carries(p)
  BY <1>2, WentSame, LeftSame DEF NextSpare
<1>3. CASE Unplug(p)
  <2>1. PICK d \in c.todo : \/ Goto(p, "wipe", [c EXCEPT !.cur = {d}])
                            \/ NextSpare(p, [c EXCEPT !.todo = @ \ {d}, !.status = "failed", !.refused = TRUE])
    BY <1>3 DEF Unplug
  <2> DEFINE c1 == [c EXCEPT !.cur = {d}]
             c2 == [c EXCEPT !.todo = @ \ {d}, !.status = "failed", !.refused = TRUE]
  <2>2. Same(call[p], c1) /\ Same(c, c2)
    BY <1>1 DEF Call, Same
  <2>3. Goto(p, "wipe", c1) \/ NextSpare(p, c2)
    BY <2>1
  <2> HIDE DEF c1, c2
  <2> QED BY <1>2, <2>2, <2>3, WentSame
<1>4. CASE Wipe(p)
  <2> DEFINE c1 == [c EXCEPT !.todo = @ \ c.cur, !.cur = {}]
             c2 == [c1 EXCEPT !.status = "failed", !.refused = TRUE]
  <2>1. c1 \in Call /\ Same(c, c1)
    BY <1>1 DEF Call, Same
  <2>2. NextSpare(p, c1) \/ NextSpare(p, c2)
    BY <1>4 DEF Wipe
  <2> HIDE DEF c1
  <2>3. Same(c, c2)
    BY <1>1, <2>1 DEF Call, Same
  <2> HIDE DEF c2
  <2> QED BY <1>2, <2>1, <2>2, <2>3
<1>5. CASE StopArray(p) \/ WipeAll(p)
  <2> DEFINE d == [c EXCEPT !.tries = @ + 1]
  <2>1. Same(call[p], d)
    BY <1>1 DEF Call, Same
  <2>2. Goto(p, "stopArray", d) \/ Goto(p, "wipeAll", c) \/ \E s : Return(p, s)
    BY <1>5 DEF StopArray, WipeAll, Retry
  <2> HIDE DEF d
  <2> QED BY <1>1, <2>1, <2>2, WentSame, LeftSame
<1> QED BY <1>3, <1>4, <1>5

LEMMA OtherCarries ==
  ASSUME IInv, VInv, NEW p \in Procs,
         \/ StopVolume(p) \/ Kill(p) \/ Name(p) \/ Scan(p) \/ Assemble(p)
         \/ Create(p) \/ CreateVolume(p) \/ StartSync(p) \/ Cancel(p)
  PROVE  Carries(p)
<1> DEFINE c == call[p]
<1>1. c \in Call /\ Same(c, c) /\ CallSafe(pc[p], c) /\ Kind(pc[p], c)
  BY CallFacts DEF Same, VInv, Kinds
<1>2. ASSUME NEW s PROVE Same(c, [c EXCEPT !.status = s])
  BY <1>1 DEF Call, Same
<1>3. CASE StopVolume(p)
  <2>1. pc[p] = "stopVolume"
    BY <1>3 DEF StopVolume
  <2>2. c.op = "Rename" => Head(c.plan) # "idle"
    <3>1. c.op = "Rename" => c.plan = <<"name">> \/ c.plan = <<"scan">>
      BY <1>1, <2>1 DEF CallSafe
    <3> QED BY <3>1
  <2>3. \/ c.op = "Rename" /\ \E s : Goto(p, Head(c.plan), [c EXCEPT !.status = s])
        \/ \E s : Goto(p, "assemble", [c EXCEPT !.status = s])
        \/ Goto(p, "stopArray", c)
        \/ Goto(p, "kill", c)
        \/ Return(p, "failed")
    BY <1>3 DEF StopVolume
  <2> HIDE DEF c
  <2>4. \A s : Same(call[p], [c EXCEPT !.status = s])
    BY <1>2 DEF c
  <2>5. Same(call[p], c)
    BY <1>1 DEF c
  <2> QED BY <2>2, <2>3, <2>4, <2>5, WentSame, LeftSame
<1>4. CASE Kill(p) \/ Assemble(p) \/ StartSync(p) \/ Cancel(p)
  <2>1. \E s : Return(p, s)
    BY <1>4 DEF Kill, Assemble, StartSync, Cancel
  <2> QED BY <2>1, LeftSame
<1>5. CASE Name(p) \/ Scan(p)
  <2>1. \/ Goto(p, "scan", c)
        \/ \E k \in {"scan", "assemble"} : \E s : Goto(p, k, [c EXCEPT !.status = s])
        \/ Return(p, "thrown")
    BY <1>5 DEF Name, Scan
  <2> HIDE DEF c
  <2>2. \A s : Same(call[p], [c EXCEPT !.status = s])
    BY <1>2 DEF c
  <2>3. Same(call[p], c)
    BY <1>1 DEF c
  <2> QED BY <2>1, <2>2, <2>3, WentSame, LeftSame
<1>6. CASE Create(p)
  <2>1. \/ \E s : Return(p, s)
        \/ c.op # "GlobalSpare" /\ \E k \in {"createVolume", "stopArray"} : \E a : Goto(p, k, [c EXCEPT !.arr = a, !.joined = c.disks])
    BY <1>6 DEF Create
  <2>2. c.op \in {"Create", "GlobalSpare"}
    BY <1>1, <1>6 DEF Create, Kind, KindOfOp
  <2>3. ASSUME NEW a PROVE Same(c, [c EXCEPT !.arr = a, !.joined = c.disks])
    BY <1>1, <2>2 DEF Call, Same
  <2> HIDE DEF c
  <2>4. \A a : Same(call[p], [c EXCEPT !.arr = a, !.joined = c.disks])
    BY <2>3 DEF c
  <2> QED BY <2>1, <2>4, WentSame, LeftSame
<1>7. CASE CreateVolume(p)
  <2> DEFINE c1 == [c EXCEPT !.tries = 1]
             c2 == [c EXCEPT !.tries = 0, !.status = "failed"]
  <2>1. (\E s : Return(p, s)) \/ Goto(p, "createVolume", c1) \/ Goto(p, "stopArray", c2)
    BY <1>7 DEF CreateVolume
  <2>2. Same(call[p], c1) /\ Same(call[p], c2)
    BY <1>1 DEF Call, Same
  <2> HIDE DEF c1, c2
  <2> QED BY <2>1, <2>2, WentSame, LeftSame
<1> QED BY <1>3, <1>4, <1>5, <1>6, <1>7

LEMMA CommandCarries ==
  ASSUME IInv, VInv, NEW p \in Procs, Command(p)
  PROVE  Carries(p) /\ pc[p] # "idle"
<1>1. Carries(p)
  BY GrowthCarries, RemovalCarries, OtherCarries DEF Command
<1>2. pc[p] # "idle"
  BY DEF Command, Add, Reshape, Relevel, Unplug, Wipe, StopVolume, Kill, StopArray, WipeAll, Name, Scan,
     Assemble, Create, CreateVolume, StartSync, Cancel
<1> QED BY <1>1, <1>2

-----------------------------------------------------------------------------
(* What a call that is alone knows *)

LEMMA AloneStep == IInv /\ VInv /\ Alone /\ [Next]_vars => Alone'
<1> SUFFICES ASSUME IInv, VInv, Alone, [Next]_vars PROVE Alone'
  OBVIOUS
<1>1. ASSUME NEW p \in Procs, Command(p) PROVE Alone'
  <2>1. /\ Carries(p) /\ pc[p] # "idle"
        /\ \A q \in Procs \ {p} : pc'[q] = pc[q] /\ call'[q] = call[q]
    BY <1>1, CommandCarries, OthersKeep
  <2>2. call'[p].alone => pc'[p] # "idle" /\ call[p].alone
    <3>1. ~NoCall.alone
      BY DEF NoCall
    <3>2. CASE pc'[p] = "idle" /\ call'[p] = NoCall
      BY <3>1, <3>2
    <3>3. CASE pc'[p] # "idle" /\ Same(call[p], call'[p])
      BY <3>3 DEF Same
    <3> QED BY <2>1, <3>2, <3>3 DEF Carries
  <2> QED BY <2>1, <2>2 DEF Alone
<1>2. ASSUME NEW p \in Procs, CallAPI(p) PROVE Alone'
  <2>1. PICK k \in Commands, c \in Call : Begins(k, c) /\ Begin(p, k, c) /\ pc[p] = "idle"
    BY <1>2, CallsBegin DEF IInv
  <2> DEFINE b == \A r \in Procs : pc[r] = "idle"
  <2>2. pc'[p] = k /\ k # "idle" /\ call'[p] = [c EXCEPT !.alone = b]
    BY <2>1 DEF Begin, Begins, IInv, CallsType
  <2>3. \A q \in Procs \ {p} : pc'[q] = pc[q] /\ call'[q] = [call[q] EXCEPT !.alone = FALSE]
    BY <2>1 DEF Begin, IInv, CallsType
  <2>4. ASSUME NEW d \in Call, NEW x \in BOOLEAN PROVE [d EXCEPT !.alone = x].alone = x
    BY DEF Call
  <2>5. ASSUME NEW q \in Procs \ {p} PROVE ~call'[q].alone
    <3>1. call[q] \in Call
      BY CallFacts
    <3>2. [call[q] EXCEPT !.alone = FALSE].alone = FALSE
      BY <3>1, <2>4
    <3> QED BY <2>3, <3>2
  <2>6. call'[p].alone = b
    BY <2>2, <2>4
  <2> QED BY <2>2, <2>3, <2>5, <2>6 DEF Alone
<1>3. CASE Kernel
  <2>1. UNCHANGED <<pc, call>>
    BY <1>3 DEF Kernel, DiskFails, SpareTaken, Settles
  <2> QED BY <2>1 DEF Alone
<1>4. CASE UNCHANGED vars
  BY <1>4 DEF vars, Alone
<1> QED BY <1>1, <1>2, <1>3, <1>4 DEF Next

(* When p runs a command, no other call is alone.                           *)
LEMMA OthersNotAlone ==
  ASSUME IInv, VInv, Alone, NEW p \in Procs, Command(p), NEW q \in Procs, q # p
  PROVE  Cleaned(q)' /\ Deletes(q)' /\ Modifies(q)'
<1>1. pc[p] # "idle" /\ call'[q] = call[q]
  BY CommandCarries, OthersKeep
<1>2. ~call'[q].alone
  BY <1>1 DEF Alone
<1> QED BY <1>2 DEF Cleaned, Deletes, Modifies

LEMMA CleanedStep ==
  ASSUME IInv, VInv, NEW p \in Procs, Cleaned(p), Command(p)
  PROVE  Cleaned(p)'
<1> DEFINE c == call[p]
<1>1. c \in Call /\ Kind(pc[p], c)
  BY CallFacts DEF VInv, Kinds
<1>2. ASSUME TakeBack(p, c), c.joined \subseteq c.disks PROVE Cleaned(p)'
  <2> DEFINE d == [c EXCEPT !.todo = c.disks, !.status = "failed"]
  <2>1. d.joined = c.joined /\ d.todo = c.disks
    BY <1>1 DEF Call
  <2>2. Return(p, "failed") \/ Goto(p, "unplug", d)
    BY <1>2 DEF TakeBack
  <2> HIDE DEF d
  <2> QED BY <1>2, <2>1, <2>2, Left, Went DEF Cleaned
<1>3. CASE Add(p)
  <2>1. pc'[p] \notin {"unplug", "wipe"}
    <3>1. CallSafe("add", c) /\ pc[p] = "add"
      BY <1>3, CallFacts DEF Add
    <3>2. c.plan \in {<<>>, <<"refuse">>, <<"reshape">>, <<"relevel">>, <<"add", "reshape">>}
      BY <3>1 DEF CallSafe, Chains
    <3>3. c.plan # <<>> => Head(c.plan) \notin {"unplug", "wipe"}
      BY <3>2
    <3>4. \A T : [c EXCEPT !.joined = T].plan = c.plan
      BY <1>1 DEF Call
    <3>5. \/ \E T : Proceed(p, [c EXCEPT !.joined = T])
          \/ \E s : Return(p, s)
          \/ \E k \in {"add", "create"} : \E d : Goto(p, k, d)
      BY <1>3 DEF Add
    <3>6. ASSUME NEW T, Proceed(p, [c EXCEPT !.joined = T])
          PROVE  (\E s : Return(p, s)) \/ (c.plan # <<>> /\ \E d : Goto(p, Head(c.plan), d))
      BY <3>4, <3>6 DEF Proceed
    <3> HIDE DEF c
    <3> QED BY <3>3, <3>5, <3>6, Left, Went
  <2> QED BY <2>1 DEF Cleaned
<1>4. CASE Reshape(p) \/ Relevel(p)
  <2>1. c.joined \subseteq c.disks
    BY <1>1, <1>4 DEF Reshape, Relevel, Kind, KindOfOp, KindOfDisks, Growing
  <2>2. TakeBack(p, c) \/ Proceed(p, c) \/ Return(p, "ok")
    BY <1>4 DEF Reshape, Relevel, RelevelFails
  <2>3. CASE ~TakeBack(p, c)
    <3>1. CallSafe(pc[p], c) /\ pc[p] \in {"reshape", "relevel"}
      BY <1>4, CallFacts DEF Reshape, Relevel
    <3>2. c.plan \in {<<>>, <<"refuse">>, <<"reshape">>, <<"relevel">>, <<"add", "reshape">>}
      BY <3>1 DEF CallSafe, Chains
    <3>3. c.plan # <<>> => Head(c.plan) \notin {"unplug", "wipe"}
      BY <3>2
    <3>4. (\E s : Return(p, s)) \/ (c.plan # <<>> /\ \E d : Goto(p, Head(c.plan), d))
      BY <2>2, <2>3 DEF Proceed
    <3> HIDE DEF c
    <3>5. pc'[p] \notin {"unplug", "wipe"}
      BY <3>3, <3>4, Left, Went
    <3> QED BY <3>5 DEF Cleaned
  <2> QED BY <1>2, <2>1, <2>3
<1>5. CASE Unplug(p)
  <2>1. PICK d \in c.todo : \/ Goto(p, "wipe", [c EXCEPT !.cur = {d}])
                            \/ NextSpare(p, [c EXCEPT !.todo = @ \ {d}, !.status = "failed", !.refused = TRUE])
    BY <1>5 DEF Unplug
  <2> DEFINE c1 == [c EXCEPT !.cur = {d}]
             c2 == [c EXCEPT !.todo = @ \ {d}, !.status = "failed", !.refused = TRUE]
  <2>2. /\ c1.todo = c.todo /\ c1.joined = c.joined /\ c1.refused = c.refused /\ c1.alone = c.alone
        /\ c2.refused
    BY <1>1 DEF Call
  <2>3. meta' = meta /\ pc[p] = "unplug"
    BY <1>5 DEF Unplug
  <2>4. Goto(p, "wipe", c1) \/ Goto(p, "unplug", c2) \/ \E s : Return(p, s)
    BY <2>1 DEF NextSpare
  <2> HIDE DEF c1, c2
  <2> QED BY <2>2, <2>3, <2>4, Went, Left DEF Cleaned
<1>6. CASE Wipe(p)
  <2> DEFINE c1 == [c EXCEPT !.todo = @ \ c.cur, !.cur = {}]
             c2 == [c1 EXCEPT !.status = "failed", !.refused = TRUE]
  <2>1. /\ c1 \in Call /\ c1.todo = c.todo \ c.cur /\ c1.joined = c.joined
        /\ c1.refused = c.refused /\ c1.alone = c.alone
    BY <1>1 DEF Call
  <2>2. pc[p] = "wipe" /\ ((meta' = Without(meta, c.cur) /\ NextSpare(p, c1)) \/ NextSpare(p, c2))
    BY <1>6 DEF Wipe
  <2> HIDE DEF c1
  <2>3. c2.refused
    BY <2>1 DEF Call
  <2> HIDE DEF c2
  <2>4. CASE \E s : Return(p, s)
    BY <2>4, Left DEF Cleaned
  <2>5. CASE Goto(p, "unplug", c2)
    BY <2>3, <2>5, Went DEF Cleaned
  <2>6. CASE meta' = Without(meta, c.cur) /\ Goto(p, "unplug", c1)
    <3>1. call'[p] = c1
      BY <2>6, Went
    <3>2. c.joined \subseteq Disks
      BY <1>1 DEF Call
    <3>3. \A d \in c.joined \ (c.todo \ c.cur) : c.alone /\ ~c.refused => meta'[d] = NoArray
      BY <2>2, <2>6, <3>2 DEF Cleaned, Without
    <3> QED BY <2>1, <3>1, <3>3 DEF Cleaned
  <2> QED BY <2>2, <2>4, <2>5, <2>6 DEF NextSpare
<1>7. CASE Create(p) \/ CreateVolume(p) \/ StopArray(p) \/ WipeAll(p) \/ Kill(p) \/ Name(p) \/ Scan(p)
        \/ Assemble(p) \/ StartSync(p) \/ Cancel(p)
  <2>1. \/ \E s : Return(p, s)
        \/ \E k \in {"stopArray", "wipeAll", "createVolume", "scan", "assemble"} : \E d : Goto(p, k, d)
    BY <1>7 DEF Create, CreateVolume, StopArray, WipeAll, Kill, Name, Scan, Assemble, StartSync, Cancel, Retry
  <2>2. pc'[p] \notin {"unplug", "wipe"}
    BY <2>1, Left, Went
  <2> QED BY <2>2 DEF Cleaned
<1>8. CASE StopVolume(p)
  <2>1. c.op = "Rename" => c.plan = <<"name">> \/ c.plan = <<"scan">>
    BY <1>8, CallFacts DEF StopVolume, CallSafe
  <2>2. c.op = "Rename" => Head(c.plan) \in {"name", "scan"}
    BY <2>1
  <2>3. \/ \E s : Return(p, s)
        \/ \E k \in {"assemble", "stopArray", "kill"} : \E d : Goto(p, k, d)
        \/ c.op = "Rename" /\ \E d : Goto(p, Head(c.plan), d)
    BY <1>8 DEF StopVolume
  <2> HIDE DEF c
  <2>4. pc'[p] \notin {"unplug", "wipe"}
    BY <2>2, <2>3, Left, Went
  <2> QED BY <2>4 DEF Cleaned
<1> QED BY <1>3, <1>4, <1>5, <1>6, <1>7, <1>8 DEF Command

LEMMA TidyStep == IInv /\ VInv /\ Tidy /\ [Next]_vars => Tidy'
<1> SUFFICES ASSUME IInv, VInv, Tidy, [Next]_vars PROVE Tidy'
  OBVIOUS
<1>1. SUFFICES ASSUME NEW v \in Vols PROVE volume'[v] = volume[v] \/ volume'[v] = NoVolume \/ Exists(v)'
  BY DEF Tidy, Exists
<1>2. ASSUME NEW m, volume' = Remnant(m)
      PROVE  volume'[v] = volume[v] \/ volume'[v] = NoVolume
  BY <1>2 DEF Remnant
<1>3. ASSUME NEW p \in Procs, Add(p) \/ Wipe(p) \/ StopArray(p) \/ WipeAll(p) \/ Create(p)
      PROVE  volume'[v] = volume[v] \/ volume'[v] = NoVolume
  <2>1. volume' = volume \/ \E m : volume' = Remnant(m)
    BY <1>3 DEF Add, Wipe, StopArray, WipeAll, Create, world
  <2> QED BY <1>2, <2>1
<1>4. ASSUME NEW p \in Procs, Unplug(p) \/ Name(p) \/ Scan(p) \/ CallAPI(p)
      PROVE  volume' = volume
  <2>1. CASE CallAPI(p)
    BY <2>1, CallAPIOK DEF IInv, world
  <2> QED BY <1>4, <2>1 DEF Unplug, Name, Scan, world
<1>5. ASSUME NEW p \in Procs, Reshape(p)
      PROVE  volume'[v] = volume[v] \/ Exists(v)'
  <2>1. CASE ~UNCHANGED volume
    <3>1. PICK T : volume' = [w \in Vols |-> IF w \in Visible(call[p].arr)
                                             THEN [volume[w] EXCEPT !.disks = @ \cup T, !.state = "Busy"]
                                             ELSE volume[w]]
      BY <1>5, <2>1 DEF Reshape
    <3>2. v \in Visible(call[p].arr) => Exists(v) /\ volume'[v].arr = volume[v].arr
      BY <3>1 DEF Visible, Of, IInv, WorldType, Volume
    <3> QED BY <3>1, <3>2 DEF Exists
  <2> QED BY <2>1
<1>6. ASSUME NEW p \in Procs, Relevel(p) \/ StartSync(p) \/ Cancel(p)
      PROVE  volume'[v] = volume[v] \/ Exists(v)'
  <2>1. call[p].vol \subseteq Vols
    BY CallFacts DEF Call
  <2>2. CASE Relevel(p) /\ ~UNCHANGED volume
    <3>1. PICK w, D : /\ w \in call[p].vol /\ w \in Visible(call[p].arr)
                      /\ volume' = [volume EXCEPT ![w].disks = D, ![w].level = call[p].level, ![w].state = "Busy"]
      BY <2>2 DEF Relevel
    <3>2. Exists(w) /\ volume'[w].arr = volume[w].arr /\ \A x \in Vols \ {w} : volume'[x] = volume[x]
      BY <2>1, <3>1 DEF Visible, Of, IInv, WorldType, Volume
    <3> QED BY <3>2 DEF Exists
  <2>3. CASE (StartSync(p) \/ Cancel(p)) /\ ~UNCHANGED volume
    <3>1. PICK w, s : w \in call[p].vol /\ Exists(w) /\ volume' = [volume EXCEPT ![w].state = s]
      BY <2>3 DEF StartSync, Cancel
    <3>2. volume'[w].arr = volume[w].arr /\ \A x \in Vols \ {w} : volume'[x] = volume[x]
      BY <2>1, <3>1 DEF IInv, WorldType, Volume
    <3> QED BY <3>1, <3>2 DEF Exists
  <2> QED BY <1>6, <2>2, <2>3
<1>7. ASSUME NEW p \in Procs, StopVolume(p) PROVE volume'[v] = volume[v] \/ Exists(v)'
  <2>1. CASE ~UNCHANGED volume
    <3>1. PICK w \in call[p].vol : volume[w].running /\ volume' = [volume EXCEPT ![w].running = FALSE]
      BY <1>7, <2>1 DEF StopVolume
    <3>2. w \in Vols
      BY CallFacts DEF Call
    <3>3. Exists(w)
      BY <3>1, <3>2 DEF Tidy, NoVolume
    <3>4. volume'[w].arr = volume[w].arr /\ \A x \in Vols \ {w} : volume'[x] = volume[x]
      BY <3>1, <3>2 DEF IInv, WorldType, Volume
    <3> QED BY <3>3, <3>4 DEF Exists
  <2> QED BY <2>1
<1>8. ASSUME NEW p \in Procs, Kill(p) PROVE volume'[v] = volume[v] \/ volume'[v] = NoVolume
  BY <1>8 DEF Kill, IInv, WorldType
<1>9. ASSUME NEW p \in Procs, Assemble(p) PROVE volume'[v] = volume[v] \/ Exists(v)'
  <2>1. CASE ~UNCHANGED volume
    BY <1>9, <2>1, Restarted DEF Exists
  <2> QED BY <2>1
<1>10. ASSUME NEW p \in Procs, CreateVolume(p) PROVE volume'[v] = volume[v] \/ Exists(v)'
  <2>1. CASE ~UNCHANGED volume
    <3>1. PICK a \in up, w \in Vols :
            volume' = [volume EXCEPT ![w] = [arr |-> a, disks |-> call[p].disks, level |-> call[p].level,
                                             state |-> "Busy", running |-> TRUE]]
      BY <1>10, <2>1 DEF CreateVolume
    <3>2. volume'[w].arr = a /\ \A x \in Vols \ {w} : volume'[x] = volume[x]
      BY <3>1 DEF IInv, WorldType
    <3>3. a # NoArray
      BY NoArrayAssumption DEF IInv, WorldType
    <3> QED BY <3>2, <3>3 DEF Exists
  <2> QED BY <2>1
<1>11. CASE Kernel
  <2>1. ASSUME NEW d \in Disks, DiskFails(d) PROVE volume'[v] = volume[v] \/ Exists(v)'
    <3>1. /\ held[d] # NoArray
          /\ volume' = [w \in Vols |-> IF d \in volume[w].disks /\ volume[w].arr = held[d]
                                       THEN [volume[w] EXCEPT !.disks = @ \ {d}, !.state = "Degraded"]
                                       ELSE volume[w]]
      BY <2>1 DEF DiskFails
    <3>2. volume'[v].arr = volume[v].arr
      BY <3>1 DEF IInv, WorldType, Volume
    <3> QED BY <3>1, <3>2 DEF Exists
  <2>2. ASSUME NEW w \in Vols, NEW d \in Disks, SpareTaken(w, d) PROVE volume'[v] = volume[v] \/ Exists(v)'
    <3>1. Exists(w) /\ volume' = [volume EXCEPT ![w].disks = @ \cup {d}, ![w].state = "Busy"]
      BY <2>2 DEF SpareTaken, Visible, Of
    <3>2. volume'[w].arr = volume[w].arr /\ \A x \in Vols \ {w} : volume'[x] = volume[x]
      BY <3>1 DEF IInv, WorldType, Volume
    <3> QED BY <3>1, <3>2 DEF Exists
  <2>3. ASSUME NEW w \in Vols, Settles(w) PROVE volume'[v] = volume[v] \/ Exists(v)'
    <3>1. Exists(w) /\ volume' = [volume EXCEPT ![w].state = "Normal"]
      BY <2>3 DEF Settles
    <3>2. volume'[w].arr = volume[w].arr /\ \A x \in Vols \ {w} : volume'[x] = volume[x]
      BY <3>1 DEF IInv, WorldType, Volume
    <3> QED BY <3>1, <3>2 DEF Exists
  <2> QED BY <1>11, <2>1, <2>2, <2>3 DEF Kernel
<1>12. ASSUME NEW p \in Procs, Command(p)
       PROVE  volume'[v] = volume[v] \/ volume'[v] = NoVolume \/ Exists(v)'
  BY <1>3, <1>4, <1>5, <1>6, <1>7, <1>8, <1>9, <1>10, <1>12 DEF Command
<1>13. CASE UNCHANGED vars
  BY <1>13 DEF vars, world
<1> QED BY <1>4, <1>11, <1>12, <1>13 DEF Next

LEMMA DeletesStep ==
  ASSUME IInv, VInv, NEW p \in Procs, Deletes(p), Command(p)
  PROVE  Deletes(p)'
<1> SUFFICES ASSUME call'[p].alone, call'[p].op = "Delete"
             PROVE  /\ call'[p].arr # NoArray /\ Components(call[p].arr)' \subseteq call'[p].disks
                    /\ \A v \in call'[p].vol : Exists(v)' =>
                         volume'[v].arr = call'[p].arr /\ volume'[v].disks \subseteq call'[p].disks
                    /\ call'[p].arr = call[p].arr
  BY DEF Deletes, Components
<1> DEFINE c == call[p]
<1>1. Same(c, call'[p])
  <2>1. NoCall.op # "Delete"
    BY DEF NoCall
  <2> QED BY <2>1, CommandCarries DEF Carries
<1>2. /\ c.alone /\ c.op = "Delete" /\ c.arr # NoArray /\ Components(c.arr) \subseteq c.disks
      /\ call'[p].arr = c.arr /\ call'[p].vol = c.vol /\ call'[p].disks = c.disks
      /\ \A v \in c.vol : Exists(v) => volume[v].arr = c.arr /\ volume[v].disks \subseteq c.disks
  BY <1>1 DEF Same, Deletes
<1>3. Kind(pc[p], c) /\ c.vol \subseteq Vols
  BY CallFacts DEF VInv, Kinds, Call
<1>4. StopVolume(p) \/ Kill(p) \/ StopArray(p) \/ WipeAll(p)
  <2>1. pc[p] \in {"stopVolume", "kill", "stopArray", "wipeAll"}
    <3>1. pc[p] \in Commands
      BY CommandCarries DEF IInv, CallsType
    <3> QED BY <1>2, <1>3, <3>1 DEF Kind, KindOfOp, Growing, Commands
  <2> QED BY <2>1 DEF Command, Add, Reshape, Relevel, Unplug, Wipe, Name, Scan, Assemble, Create, CreateVolume,
       StartSync, Cancel
<1>5. \A d \in Disks : held'[d] = held[d] \/ held'[d] = NoArray
  BY <1>4 DEF StopVolume, Kill, StopArray, WipeAll, Without
<1>6. \A v \in Vols : \/ volume'[v] = NoVolume
                      \/ volume'[v].arr = volume[v].arr /\ volume'[v].disks = volume[v].disks
  <2>1. CASE StopVolume(p) /\ ~UNCHANGED volume
    <3>1. PICK w \in c.vol : volume' = [volume EXCEPT ![w].running = FALSE]
      BY <2>1 DEF StopVolume
    <3>2. \A x \in Vols \ {w} : volume'[x] = volume[x]
      BY <3>1 DEF IInv, WorldType
    <3>3. volume'[w].arr = volume[w].arr /\ volume'[w].disks = volume[w].disks
      BY <1>3, <3>1 DEF IInv, WorldType, Volume
    <3> QED BY <3>2, <3>3
  <2>2. CASE Kill(p)
    BY <1>3, <2>2 DEF Kill, IInv, WorldType
  <2>3. CASE StopArray(p) \/ WipeAll(p)
    <3>1. volume' = volume \/ \E m : volume' = Remnant(m)
      BY <2>3 DEF StopArray, WipeAll
    <3> QED BY <3>1 DEF Remnant
  <2> QED BY <1>4, <2>1, <2>2, <2>3
<1>7. Components(c.arr)' \subseteq c.disks
  BY <1>2, <1>5 DEF Components
<1>8. \A v \in c.vol : Exists(v)' => volume'[v].arr = c.arr /\ volume'[v].disks \subseteq c.disks
  BY <1>2, <1>3, <1>6 DEF Exists, NoVolume
<1> QED BY <1>2, <1>7, <1>8

(* The volume a growth or a migration works on goes on running, and has the *)
(* level asked for when mdadm has changed it.                               *)
LEMMA GrowthLevel ==
  ASSUME IInv, VInv, NEW p \in Procs, Add(p) \/ Reshape(p) \/ Relevel(p),
         NEW v \in Vols, call[p].vol = {v}, Exists(v), volume[v].running
  PROVE  /\ Exists(v)' /\ volume'[v].running
         /\ Add(p) \/ Reshape(p) => volume'[v].level = volume[v].level
         /\ Relevel(p) => RelevelFails(p, call[p]) \/ volume'[v].level = call[p].level
<1>1. CASE Add(p)
  <2>1. PICK T \in SUBSET {d \in call[p].todo : held[d] = NoArray /\ call[p].arr \in up} :
          meta' = With(meta, T, call[p].arr) /\ volume' = Remnant(meta')
    BY <1>1 DEF Add
  <2>2. \A d \in Disks : held[d] # NoArray => meta'[d] = meta[d]
    BY <2>1 DEF With
  <2>3. AllHeld(v) /\ volume[v].disks \subseteq Disks
    BY WorldFacts DEF VInv, Whole, IInv
  <2>4. volume'[v] = volume[v]
    BY <2>1, <2>2, <2>3, FreeDisks DEF VInv
  <2>5. pc[p] = "add"
    BY <1>1 DEF Add
  <2> QED BY <2>4, <2>5 DEF Exists, Relevel
<1>2. CASE Reshape(p)
  <2>1. pc[p] = "reshape"
    BY <1>2 DEF Reshape
  <2>2. volume'[v].arr = volume[v].arr /\ volume'[v].running = volume[v].running /\ volume'[v].level = volume[v].level
    <3>1. CASE ~UNCHANGED volume
      <4>1. PICK T : volume' = [w \in Vols |-> IF w \in Visible(call[p].arr)
                                               THEN [volume[w] EXCEPT !.disks = @ \cup T, !.state = "Busy"]
                                               ELSE volume[w]]
        BY <1>2, <3>1 DEF Reshape
      <4> QED BY <4>1 DEF IInv, WorldType, Volume
    <3> QED BY <3>1
  <2> QED BY <2>1, <2>2 DEF Exists, Relevel
<1>3. CASE Relevel(p)
  <2>1. pc[p] = "relevel"
    BY <1>3 DEF Relevel
  <2>2. CASE RelevelFails(p, call[p]) /\ UNCHANGED volume
    BY <2>1, <2>2 DEF Exists, Add, Reshape
  <2>3. CASE ~(RelevelFails(p, call[p]) /\ UNCHANGED volume)
    <3>1. PICK D : volume' = [volume EXCEPT ![v].disks = D, ![v].level = call[p].level, ![v].state = "Busy"]
      BY <1>3, <2>3 DEF Relevel
    <3>2. /\ volume'[v].arr = volume[v].arr /\ volume'[v].running = volume[v].running
          /\ volume'[v].level = call[p].level
      <4>1. volume[v] \in Volume /\ volume'[v] = [volume[v] EXCEPT !.disks = D, !.level = call[p].level, !.state = "Busy"]
        BY <3>1 DEF IInv, WorldType
      <4> QED BY <4>1 DEF Volume
    <3> QED BY <2>1, <3>2 DEF Exists, Add, Reshape
  <2> QED BY <2>2, <2>3
<1> QED BY <1>1, <1>2, <1>3

(* A migration that goes on goes on with its chain.                         *)
LEMMA ChainGoesOn ==
  ASSUME IInv, VInv, NEW p \in Procs, Command(p), call[p].op = "Modify", pc'[p] \in {"add", "reshape", "relevel"}
  PROVE  /\ Add(p) \/ Reshape(p) \/ Relevel(p)
         /\ ~TakeBack(p, call[p]) /\ (\A s : ~Return(p, s))
         /\ call[p].plan = <<"relevel">> => pc'[p] = "relevel"
<1> DEFINE c == call[p]
<1>1. c \in Call /\ Kind(pc[p], c) /\ pc[p] \in Commands
  BY CallFacts, CommandCarries DEF VInv, Kinds, IInv, CallsType
<1>2. pc[p] \in {"add", "reshape", "relevel", "unplug", "wipe"}
  BY <1>1 DEF Kind, KindOfOp, Growing, Commands
<1>3. \A s : ~Return(p, s)
  BY Left
<1>4. ~TakeBack(p, c)
  BY <1>3, Went DEF TakeBack
<1>5. ~Unplug(p) /\ ~Wipe(p)
  <2>1. \A d : ~Goto(p, "wipe", d) /\ ~NextSpare(p, d)
    BY <1>3, Went DEF NextSpare
  <2> QED BY <2>1 DEF Unplug, Wipe
<1>6. Add(p) \/ Reshape(p) \/ Relevel(p)
  BY <1>2, <1>5 DEF Command, StopVolume, Kill, StopArray, WipeAll, Name, Scan, Assemble, Create, CreateVolume,
     StartSync, Cancel
<1>7. c.plan = <<"relevel">> => pc'[p] = "relevel"
  <2> SUFFICES ASSUME c.plan = <<"relevel">> PROVE pc'[p] = "relevel"
    OBVIOUS
  <2>1. c.plan # <<>> /\ Head(c.plan) = "relevel"
    OBVIOUS
  <2>2. \E d : Proceed(p, d) /\ d.plan = c.plan
    <3>1. CASE Add(p)
      <4>1. \E T : Proceed(p, [c EXCEPT !.joined = T])
        BY <1>3, <3>1 DEF Add
      <4>2. \A T : [c EXCEPT !.joined = T].plan = c.plan
        BY <1>1 DEF Call
      <4> QED BY <4>1, <4>2
    <3>2. CASE Reshape(p) \/ Relevel(p)
      <4>1. Proceed(p, c)
        BY <1>3, <1>4, <3>2 DEF Reshape, Relevel, RelevelFails
      <4> QED BY <4>1
    <3> QED BY <1>6, <3>1, <3>2
  <2>3. \E d : Goto(p, "relevel", d)
    BY <1>3, <2>1, <2>2 DEF Proceed
  <2> QED BY <2>3, Went
<1> QED BY <1>3, <1>4, <1>6, <1>7

LEMMA ModifiesStep ==
  ASSUME IInv, VInv, NEW p \in Procs, Modifies(p), Command(p)
  PROVE  Modifies(p)'
<1> SUFFICES ASSUME call'[p].alone, call'[p].op = "Modify", call'[p].level # 0, pc'[p] \in {"add", "reshape", "relevel"}
             PROVE  \E v \in Vols : /\ call'[p].vol = {v} /\ Exists(v)' /\ volume'[v].running
                                    /\ volume'[v].level = call'[p].level \/ pc'[p] = "relevel"
  BY DEF Modifies
<1> DEFINE c == call[p]
<1>1. /\ c.alone /\ c.op = "Modify" /\ c.level # 0
      /\ call'[p].vol = c.vol /\ call'[p].level = c.level
  <2>1. Same(c, call'[p])
    BY CommandCarries DEF Carries
  <2> QED BY <2>1 DEF Same
<1>2. /\ Add(p) \/ Reshape(p) \/ Relevel(p)
      /\ ~TakeBack(p, c) /\ (\A s : ~Return(p, s))
      /\ c.plan = <<"relevel">> => pc'[p] = "relevel"
  BY <1>1, ChainGoesOn
<1>3. pc[p] \in {"add", "reshape", "relevel"} /\ (pc[p] = "relevel" => Relevel(p))
  BY <1>2 DEF Add, Reshape, Relevel
<1>4. PICK v \in Vols : /\ c.vol = {v} /\ Exists(v) /\ volume[v].running
                        /\ volume[v].level = c.level \/ pc[p] = "relevel" \/ c.plan = <<"relevel">>
  BY <1>1, <1>3 DEF Modifies
<1>5. Exists(v)' /\ volume'[v].running
  BY <1>2, <1>4, GrowthLevel
<1>6. volume'[v].level = c.level \/ pc'[p] = "relevel"
  <2>1. CASE Relevel(p)
    <3>1. ~RelevelFails(p, c)
      BY <1>1, <1>2 DEF RelevelFails
    <3> QED BY <1>4, <2>1, <3>1, GrowthLevel
  <2>2. CASE ~Relevel(p)
    BY <1>2, <1>3, <1>4, <2>2, GrowthLevel
  <2> QED BY <2>1, <2>2
<1> QED BY <1>1, <1>4, <1>5, <1>6

LEMMA KnownInitially == Init => AInv
<1> SUFFICES ASSUME Init PROVE AInv
  OBVIOUS
<1>1. \A p \in Procs : call[p] = NoCall
  BY DEF Init
<1>2. \A p \in Procs : ~call[p].alone
  BY <1>1 DEF NoCall
<1>3. Tidy
  <2>1. PICK V \in SUBSET Vols, level \in [Vols -> Levels] :
          volume = [v \in Vols |-> IF v \in V
                                   THEN [arr |-> First, disks |-> Built, level |-> level[v],
                                         state |-> "Normal", running |-> TRUE]
                                   ELSE NoVolume]
    BY DEF Init
  <2>2. First # NoArray
    BY FirstAssumption, NoArrayAssumption
  <2> QED BY <2>1, <2>2 DEF Tidy, Exists
<1> QED BY <1>2, <1>3 DEF AInv, Alone, Cleaned, Deletes, Modifies

(* A call that begins has put in nothing, and what it has found is true.    *)
LEMMA CallKnows ==
  ASSUME IInv, VInv, NEW p \in Procs, CallAPI(p), NEW q \in Procs
  PROVE  Cleaned(q)' /\ Deletes(q)' /\ Modifies(q)'
<1>1. PICK k \in Commands, c \in Call : Begins(k, c) /\ Begin(p, k, c) /\ pc[p] = "idle"
  BY CallsBegin DEF IInv
<1>2. UNCHANGED <<held, meta, up, volume>>
  BY <1>1 DEF Begin, world
<1>3. CASE q # p
  <2>1. call'[q] = [call[q] EXCEPT !.alone = FALSE] /\ call[q] \in Call
    BY <1>1, <1>3, CallFacts DEF Begin, IInv, CallsType
  <2>2. ~call'[q].alone
    BY <2>1 DEF Call
  <2> QED BY <2>2 DEF Cleaned, Deletes, Modifies
<1>4. CASE q = p
  <2> DEFINE b == \A r \in Procs : pc[r] = "idle"
             d == call'[p]
  <2>1. pc'[p] = k /\ d = [c EXCEPT !.alone = b]
    BY <1>1 DEF Begin, IInv, CallsType
  <2>2. /\ d.op = c.op /\ d.arr = c.arr /\ d.vol = c.vol /\ d.level = c.level /\ d.plan = c.plan
        /\ d.disks = c.disks /\ d.joined = c.joined
    BY <2>1 DEF Call
  <2> HIDE DEF d
  <2>3. Cleaned(p)'
    BY <1>1, <2>1, <2>2 DEF Cleaned, Begins, d
  <2>4. Deletes(p)'
    <3> SUFFICES ASSUME c.op = "Delete"
                 PROVE  /\ c.arr # NoArray /\ {x \in Disks : held'[x] = c.arr} \subseteq c.disks
                        /\ \A v \in c.vol : Exists(v)' => volume'[v].arr = c.arr /\ volume'[v].disks \subseteq c.disks
      BY <2>2 DEF Deletes, Components, d
    <3>1. PICK v \in Vols : /\ c.vol = {v} /\ c.arr = volume[v].arr /\ c.disks = Components(c.arr)
                            /\ Exists(v) /\ volume[v].running
      BY <1>1 DEF Begins
    <3>2. AllHeld(v) /\ volume[v].disks \subseteq Disks
      BY <3>1, WorldFacts DEF VInv, Whole, IInv
    <3>3. volume[v].disks \subseteq c.disks
      BY <3>1, <3>2 DEF AllHeld, Components
    <3> QED BY <1>2, <3>1, <3>3 DEF Exists, Components
  <2>5. Modifies(p)'
    <3> SUFFICES ASSUME c.op = "Modify", c.level # 0
                 PROVE  \E v \in Vols : /\ c.vol = {v} /\ Exists(v)' /\ volume'[v].running
                                        /\ volume'[v].level = c.level \/ k = "relevel" \/ c.plan = <<"relevel">>
      BY <2>1, <2>2 DEF Modifies, d
    <3> QED BY <1>1, <1>2 DEF Begins, Exists
  <2> QED BY <1>4, <2>3, <2>4, <2>5
<1> QED BY <1>3, <1>4

(* What the kernel does takes nothing from what a call that is alone knows. *)
LEMMA KernelKnows ==
  ASSUME IInv, VInv, Kernel, NEW p \in Procs, Cleaned(p), Deletes(p), Modifies(p)
  PROVE  Cleaned(p)' /\ Deletes(p)' /\ Modifies(p)'
<1>1. UNCHANGED <<meta, pc, call, up>>
  BY DEF Kernel, DiskFails, SpareTaken, Settles
<1>2. \A d \in Disks : held'[d] = held[d] \/ held'[d] = NoArray
  BY DEF Kernel, DiskFails, SpareTaken, Settles, Without
<1>3. \A v \in Vols : /\ volume'[v].arr = volume[v].arr /\ volume'[v].level = volume[v].level
                      /\ volume'[v].running = volume[v].running
                      /\ volume'[v].disks \subseteq volume[v].disks \cup Components(volume[v].arr)
  <2>1. ASSUME NEW d \in Disks, DiskFails(d), NEW v \in Vols
        PROVE  /\ volume'[v].arr = volume[v].arr /\ volume'[v].level = volume[v].level
               /\ volume'[v].running = volume[v].running /\ volume'[v].disks \subseteq volume[v].disks
    <3>1. volume[v] \in Volume
      BY DEF IInv, WorldType
    <3>2. volume'[v] = volume[v] \/ volume'[v] = [volume[v] EXCEPT !.disks = @ \ {d}, !.state = "Degraded"]
      BY <2>1 DEF DiskFails
    <3> QED BY <3>1, <3>2 DEF Volume
  <2>2. ASSUME NEW w \in Vols, NEW T, NEW s, T \subseteq Components(volume[w].arr),
               volume' = [volume EXCEPT ![w].disks = @ \cup T, ![w].state = s], NEW v \in Vols
        PROVE  /\ volume'[v].arr = volume[v].arr /\ volume'[v].level = volume[v].level
               /\ volume'[v].running = volume[v].running
               /\ volume'[v].disks \subseteq volume[v].disks \cup Components(volume[v].arr)
    <3>1. volume[v] \in Volume
      BY DEF IInv, WorldType
    <3>2. volume'[v] = IF v = w THEN [volume[v] EXCEPT !.disks = @ \cup T, !.state = s] ELSE volume[v]
      BY <2>2 DEF IInv, WorldType
    <3>3. CASE v = w
      <4>1. volume'[v] = [volume[v] EXCEPT !.disks = @ \cup T, !.state = s]
        BY <3>2, <3>3
      <4>2. /\ volume'[v].arr = volume[v].arr /\ volume'[v].level = volume[v].level
            /\ volume'[v].running = volume[v].running /\ volume'[v].disks = volume[v].disks \cup T
        BY <3>1, <4>1 DEF Volume
      <4> QED BY <2>2, <3>3, <4>2
    <3>4. CASE v # w
      <4>1. volume'[v] = volume[v]
        BY <3>2, <3>4
      <4> QED BY <4>1
    <3> QED BY <3>3, <3>4
  <2>3. ASSUME NEW w \in Vols, NEW d \in Disks, SpareTaken(w, d)
        PROVE  \E T, s : /\ T \subseteq Components(volume[w].arr)
                         /\ volume' = [volume EXCEPT ![w].disks = @ \cup T, ![w].state = s]
    <3>1. {d} \subseteq Components(volume[w].arr)
      BY <2>3 DEF SpareTaken, Spares
    <3>2. volume' = [volume EXCEPT ![w].disks = @ \cup {d}, ![w].state = "Busy"]
      BY <2>3 DEF SpareTaken
    <3> QED BY <3>1, <3>2
  <2>5. ASSUME NEW w \in Vols, NEW d \in Disks, SpareTaken(w, d), NEW v \in Vols
        PROVE  /\ volume'[v].arr = volume[v].arr /\ volume'[v].level = volume[v].level
               /\ volume'[v].running = volume[v].running
               /\ volume'[v].disks \subseteq volume[v].disks \cup Components(volume[v].arr)
    BY <2>2, <2>3, <2>5
  <2>4. ASSUME NEW w \in Vols, Settles(w), NEW v \in Vols
        PROVE  /\ volume'[v].arr = volume[v].arr /\ volume'[v].level = volume[v].level
               /\ volume'[v].running = volume[v].running /\ volume'[v].disks = volume[v].disks
    <3>1. volume[v] \in Volume
      BY DEF IInv, WorldType
    <3>2. volume'[v] = IF v = w THEN [volume[v] EXCEPT !.state = "Normal"] ELSE volume[v]
      BY <2>4 DEF Settles, IInv, WorldType
    <3> QED BY <3>1, <3>2 DEF Volume
  <2> QED BY <2>1, <2>4, <2>5 DEF Kernel
<1>4. Cleaned(p)'
  BY <1>1 DEF Cleaned
<1>5. Deletes(p)'
  <2> SUFFICES ASSUME call[p].alone, call[p].op = "Delete"
               PROVE  /\ call[p].arr # NoArray /\ {d \in Disks : held'[d] = call[p].arr} \subseteq call[p].disks
                      /\ \A v \in call[p].vol : Exists(v)' =>
                           volume'[v].arr = call[p].arr /\ volume'[v].disks \subseteq call[p].disks
    BY <1>1 DEF Deletes, Components
  <2>1. /\ call[p].arr # NoArray /\ Components(call[p].arr) \subseteq call[p].disks
        /\ \A v \in call[p].vol : Exists(v) => volume[v].arr = call[p].arr /\ volume[v].disks \subseteq call[p].disks
    BY DEF Deletes
  <2>2. {d \in Disks : held'[d] = call[p].arr} \subseteq call[p].disks
    BY <1>2, <2>1 DEF Components
  <2>3. call[p].vol \subseteq Vols
    BY CallFacts DEF Call
  <2>4. ASSUME NEW v \in call[p].vol, Exists(v)'
        PROVE  volume'[v].arr = call[p].arr /\ volume'[v].disks \subseteq call[p].disks
    <3>1. Exists(v)
      BY <1>3, <2>3, <2>4 DEF Exists
    <3>2. volume[v].arr = call[p].arr /\ volume[v].disks \subseteq call[p].disks
      BY <2>1, <3>1
    <3> QED BY <1>3, <2>1, <2>3, <3>2
  <2> QED BY <2>1, <2>2, <2>4
<1>6. Modifies(p)'
  BY <1>1, <1>3 DEF Modifies, Exists
<1> QED BY <1>4, <1>5, <1>6

LEMMA AloneKnows == IInv /\ VInv /\ AInv /\ [Next]_vars => AInv'
<1> SUFFICES ASSUME IInv, VInv, AInv, [Next]_vars
             PROVE  \A q \in Procs : Cleaned(q)' /\ Deletes(q)' /\ Modifies(q)'
  BY AloneStep, TidyStep DEF AInv
<1> TAKE q \in Procs
<1>1. ASSUME NEW p \in Procs, Command(p) PROVE Cleaned(q)' /\ Deletes(q)' /\ Modifies(q)'
  BY <1>1, OthersNotAlone, CleanedStep, DeletesStep, ModifiesStep DEF AInv
<1>2. ASSUME NEW p \in Procs, CallAPI(p) PROVE Cleaned(q)' /\ Deletes(q)' /\ Modifies(q)'
  BY <1>2, CallKnows
<1>3. CASE Kernel
  BY <1>3, KernelKnows DEF AInv
<1>4. CASE UNCHANGED vars
  BY <1>4 DEF vars, world, AInv, Cleaned, Deletes, Modifies, Components, Exists
<1> QED BY <1>1, <1>2, <1>3, <1>4 DEF Next

-----------------------------------------------------------------------------
(* What a call that was alone has returned *)

(* Only a command of p ends the call of p.                                  *)
LEMMA EndsItself ==
  ASSUME IInv, VInv, [Next]_vars, NEW p \in Procs, pc[p] # "idle", pc'[p] = "idle"
  PROVE  Command(p)
<1>1. ASSUME NEW q \in Procs, CallAPI(q) PROVE FALSE
  <2>1. PICK k \in Commands, c \in Call : Begins(k, c) /\ Begin(q, k, c) /\ pc[q] = "idle"
    BY <1>1, CallsBegin DEF IInv
  <2> QED BY <2>1 DEF Begin, IInv, CallsType
<1>2. ASSUME NEW q \in Procs, Command(q), q # p PROVE FALSE
  BY <1>2, OthersKeep
<1>3. ~Kernel
  BY DEF Kernel, DiskFails, SpareTaken, Settles
<1>4. ~UNCHANGED vars
  BY DEF vars
<1> QED BY <1>1, <1>2, <1>3, <1>4 DEF Next

LEMMA DeleteCommands ==
  ASSUME IInv, VInv, NEW p \in Procs, Command(p), call[p].op = "Delete"
  PROVE  StopVolume(p) \/ Kill(p) \/ StopArray(p) \/ WipeAll(p)
<1>1. Kind(pc[p], call[p]) /\ pc[p] \in Commands
  BY CommandCarries DEF VInv, Kinds, IInv, CallsType
<1>2. pc[p] \in {"stopVolume", "kill", "stopArray", "wipeAll"}
  BY <1>1 DEF Kind, KindOfOp, Growing, Commands
<1> QED BY <1>2 DEF Command, Add, Reshape, Relevel, Unplug, Wipe, Name, Scan, Assemble, Create, CreateVolume,
        StartSync, Cancel

LEMMA DeletionEnds ==
  ASSUME IInv, VInv, AInv, NEW p \in Procs, Command(p), Returns(p, "ok"), call[p].op = "Delete", call[p].alone
  PROVE  \A v \in call[p].vol : volume'[v] = NoVolume
<1> DEFINE c == call[p]
<1>1. c \in Call /\ c.vol \subseteq Vols /\ Kind(pc[p], c)
  BY CallFacts DEF Call, VInv, Kinds
<1>2. ASSUME NEW s, Return(p, s) PROVE s = "ok"
  BY <1>2, Left DEF Returns
<1>3. ASSUME NEW k, NEW d, Goto(p, k, d) PROVE k = "idle"
  BY <1>3, Went DEF Returns
<1>4. ~Retry(p, c)
  BY <1>2, <1>3 DEF Retry
<1>5. CASE StopVolume(p)
  <2>1. Return(p, "failed") \/ (\E k \in {"stopArray", "kill"} : Goto(p, k, c))
    BY <1>5 DEF StopVolume
  <2> QED BY <1>2, <1>3, <2>1
<1>6. CASE Kill(p)
  <2>1. ~Return(p, "failed")
    BY <1>2
  <2>2. PICK w \in c.vol : volume' = [volume EXCEPT ![w] = NoVolume]
    BY <1>6, <2>1 DEF Kill
  <2>3. c.vol = {w}
    BY <1>1, <1>6, <2>2 DEF Kill, Kind, KindOfOp
  <2> QED BY <1>1, <2>2, <2>3 DEF IInv, WorldType
<1>7. CASE StopArray(p)
  BY <1>3, <1>4, <1>7 DEF StopArray
<1>8. CASE WipeAll(p)
  <2>1. meta' = Without(meta, c.disks) /\ volume' = Remnant(meta')
    BY <1>4, <1>8 DEF WipeAll
  <2>2. ASSUME NEW v \in c.vol PROVE volume'[v] = NoVolume
    <3>1. CASE Exists(v)
      <4>1. volume[v].disks \subseteq c.disks /\ volume[v].disks \subseteq Disks /\ v \in Vols
        BY <1>1, <3>1, WorldFacts DEF AInv, Deletes, IInv
      <4>2. \A d \in volume[v].disks : meta'[d] # volume[v].arr
        BY <2>1, <3>1, <4>1 DEF Without, Exists
      <4> QED BY <2>1, <4>1, <4>2 DEF Remnant
    <3>2. CASE ~Exists(v)
      BY <1>1, <2>1, <3>2 DEF Remnant, AInv, Tidy
    <3> QED BY <3>1, <3>2
  <2> QED BY <2>2
<1> QED BY <1>5, <1>6, <1>7, <1>8, DeleteCommands

(* SsiVolumeDelete that has returned SSI_StatusOk and ran beside no other   *)
(* call has deleted the volume: the disks it wipes are those of its         *)
(* picture, and the kernel takes only from these what it adds to a volume.  *)
THEOREM DeletionIsDone == Spec => DeletedIsGone
<1> DEFINE Gone == \A p \in Procs : Returns(p, "ok") /\ call[p].op = "Delete" /\ call[p].alone =>
                     \A v \in call[p].vol : volume'[v] = NoVolume
<1>1. IInv /\ VInv /\ AInv /\ [Next]_vars => Gone
  BY EndsItself, DeletionEnds DEF Returns
<1>2. DeletedIsGone <=> [][Gone]_vars
  BY DEF DeletedIsGone
<1>3. IInv /\ VInv /\ AInv /\ [Next]_vars => VInv' /\ AInv' /\ [Gone]_vars
  BY <1>1, VolumesStep, AloneKnows
<1> QED BY <1>2, <1>3, Initially, Step, VolumesInitially, KnownInitially, PTL DEF Spec

LEMMA GrowthCommands ==
  ASSUME IInv, VInv, NEW p \in Procs, Command(p), call[p].op \in Growing
  PROVE  Add(p) \/ Reshape(p) \/ Relevel(p) \/ ((Unplug(p) \/ Wipe(p)) /\ call[p].status = "failed")
<1>1. Kind(pc[p], call[p]) /\ pc[p] \in Commands
  BY CommandCarries DEF VInv, Kinds, IInv, CallsType
<1>2. \/ pc[p] \in {"add", "reshape", "relevel"}
      \/ pc[p] \in {"unplug", "wipe"} /\ call[p].status = "failed"
  BY <1>1 DEF Kind, KindOfOp, Growing, Commands
<1>3. Add(p) \/ Reshape(p) \/ Relevel(p) \/ Unplug(p) \/ Wipe(p)
  BY <1>2 DEF Command, StopVolume, Kill, StopArray, WipeAll, Name, Scan, Assemble, Create, CreateVolume,
     StartSync, Cancel
<1>4. Unplug(p) \/ Wipe(p) => pc[p] \in {"unplug", "wipe"}
  BY DEF Unplug, Wipe
<1> QED BY <1>2, <1>3, <1>4

(* A growth that takes its disks back ends with a failure, and with "stuck" *)
(* unless the last of them has been wiped.                                  *)
LEMMA TakingBackEnds ==
  ASSUME IInv, NEW p \in Procs, Unplug(p) \/ Wipe(p), call[p].status = "failed",
         NEW s, Returns(p, s)
  PROVE  /\ s # "ok"
         /\ s = "failed" => /\ Wipe(p) /\ meta' = Without(meta, call[p].cur)
                            /\ call[p].todo \subseteq call[p].cur /\ ~call[p].refused
<1> DEFINE c == call[p]
<1>1. c \in Call
  BY CallFacts
<1>2. ASSUME NEW d, NextSpare(p, d), d.status = "failed"
      PROVE  d.todo = {} /\ s = (IF d.refused THEN "stuck" ELSE "failed")
  BY <1>2, Left, Went DEF NextSpare, Status, Returns
<1>3. CASE Unplug(p)
  <2>1. \A d : ~Goto(p, "wipe", d)
    BY Went DEF Returns
  <2>2. PICK d \in c.todo : NextSpare(p, [c EXCEPT !.todo = @ \ {d}, !.status = "failed", !.refused = TRUE])
    BY <1>3, <2>1 DEF Unplug
  <2> DEFINE c2 == [c EXCEPT !.todo = @ \ {d}, !.status = "failed", !.refused = TRUE]
  <2>3. c2.status = "failed" /\ c2.refused = TRUE
    BY <1>1 DEF Call
  <2>4. NextSpare(p, c2)
    BY <2>2
  <2> HIDE DEF c2
  <2> QED BY <1>2, <2>3, <2>4
<1>4. CASE Wipe(p)
  <2> DEFINE c1 == [c EXCEPT !.todo = @ \ c.cur, !.cur = {}]
             c2 == [c1 EXCEPT !.status = "failed", !.refused = TRUE]
  <2>1. c1 \in Call /\ c1.todo = c.todo \ c.cur /\ c1.refused = c.refused /\ c1.status = "failed"
    BY <1>1 DEF Call
  <2>2. (meta' = Without(meta, c.cur) /\ NextSpare(p, c1)) \/ NextSpare(p, c2)
    BY <1>4 DEF Wipe
  <2> HIDE DEF c1
  <2>3. c2.refused = TRUE /\ c2.status = "failed"
    BY <2>1 DEF Call
  <2> HIDE DEF c2
  <2>4. CASE NextSpare(p, c2)
    BY <1>2, <2>3, <2>4
  <2>5. CASE meta' = Without(meta, c.cur) /\ NextSpare(p, c1)
    BY <1>2, <1>4, <2>1, <2>5
  <2> QED BY <2>2, <2>4, <2>5
<1> QED BY <1>3, <1>4

LEMMA ProceedEnds ==
  ASSUME IInv, NEW p \in Procs, NEW c, Proceed(p, c), NEW s, Returns(p, s), c.plan \in Chains
  PROVE  s # "failed" /\ (s = "ok" => c.plan = <<>>)
<1>1. c.plan # <<>> => Head(c.plan) # "idle"
  <2>1. c.plan \in {<<>>, <<"refuse">>, <<"reshape">>, <<"relevel">>, <<"add", "reshape">>}
    BY DEF Chains
  <2> QED BY <2>1
<1>2. \/ c.plan = <<>> /\ Return(p, "ok")
      \/ Return(p, "invalid")
      \/ c.plan # <<>> /\ \E d : Goto(p, Head(c.plan), d)
  BY DEF Proceed
<1> QED BY <1>1, <1>2, Left, Went DEF Returns

(* Where a growth ends before it takes disks back                           *)
LEMMA GrowthEnds ==
  ASSUME IInv, VInv, NEW p \in Procs, Add(p) \/ Reshape(p) \/ Relevel(p), call[p].op \in Growing,
         NEW s, Returns(p, s)
  PROVE  /\ s = "failed" => call[p].joined = {}
         /\ s = "ok" => \/ call[p].plan = <<>> /\ ~(Relevel(p) /\ RelevelFails(p, call[p]))
                        \/ Relevel(p) /\ call[p].level = 0
<1> DEFINE c == call[p]
<1>1. c \in Call /\ CallSafe(pc[p], c) /\ Kind(pc[p], c)
  BY CallFacts DEF VInv, Kinds
<1>2. pc[p] \in {"add", "reshape", "relevel"} /\ c.plan \in Chains
  BY <1>1 DEF Add, Reshape, Relevel, CallSafe
<1>3. ASSUME TakeBack(p, c) PROVE s = "failed" /\ c.disks = {}
  BY <1>3, Left, Went DEF TakeBack, Returns
<1>4. CASE Add(p)
  <2>1. c.joined = {}
    BY <1>1, <1>4 DEF Add, Kind, KindOfDisks
  <2>2. c.op # "GlobalSpare"
    BY DEF Growing
  <2>3. PICK T : Proceed(p, [c EXCEPT !.joined = T]) \/ Return(p, "failed")
    BY <1>4, <2>2 DEF Add
  <2>4. [c EXCEPT !.joined = T].plan = c.plan
    BY <1>1 DEF Call
  <2>5. s = "failed" \/ (s = "ok" => c.plan = <<>>)
    BY <1>2, <2>3, <2>4, ProceedEnds, Left DEF Returns
  <2>6. ~Relevel(p)
    BY <1>4 DEF Add, Relevel
  <2> QED BY <2>1, <2>5, <2>6
<1>5. CASE Reshape(p) \/ Relevel(p)
  <2>1. c.joined \subseteq c.disks
    BY <1>1, <1>2 DEF Kind, KindOfDisks
  <2>2. CASE TakeBack(p, c)
    BY <1>3, <2>1, <2>2
  <2>3. CASE ~TakeBack(p, c)
    <3>1. Proceed(p, c) \/ (Relevel(p) /\ c.level = 0 /\ Return(p, "ok"))
      BY <1>5, <2>3 DEF Reshape, Relevel, RelevelFails
    <3>2. CASE Relevel(p) /\ c.level = 0 /\ Return(p, "ok")
      BY <3>2, Left DEF Returns
    <3>3. CASE Proceed(p, c)
      <4>1. s # "failed" /\ (s = "ok" => c.plan = <<>>)
        BY <1>2, <3>3, ProceedEnds
      <4> QED BY <2>3, <4>1 DEF RelevelFails
    <3> QED BY <3>1, <3>2, <3>3
  <2> QED BY <2>2, <2>3
<1> QED BY <1>4, <1>5

LEMMA ModificationEnds ==
  ASSUME IInv, VInv, AInv, NEW p \in Procs, Command(p), Returns(p, "ok"), call[p].op = "Modify",
         call[p].alone, call[p].level # 0
  PROVE  \A v \in call[p].vol : volume'[v].level = call[p].level
<1> DEFINE c == call[p]
<1>1. Add(p) \/ Reshape(p) \/ Relevel(p)
  BY GrowthCommands, TakingBackEnds DEF Growing
<1>2. c.plan = <<>> /\ ~(Relevel(p) /\ RelevelFails(p, c))
  BY <1>1, GrowthEnds DEF Growing
<1>3. c.plan # <<"relevel">>
  BY <1>2
<1>4. pc[p] \in {"add", "reshape", "relevel"} /\ (pc[p] = "relevel" => Relevel(p))
  BY <1>1 DEF Add, Reshape, Relevel
<1>5. PICK v \in Vols : /\ c.vol = {v} /\ Exists(v) /\ volume[v].running
                        /\ volume[v].level = c.level \/ pc[p] = "relevel"
  BY <1>3, <1>4 DEF AInv, Modifies
<1>6. volume'[v].level = c.level
  BY <1>1, <1>2, <1>4, <1>5, GrowthLevel
<1> QED BY <1>5, <1>6

(* SsiRaidLevelModify that has returned SSI_StatusOk and ran beside no      *)
(* other call has changed the level, except to RAID 0: the only way the     *)
(* chain ends well without mdadm having changed it is __toRaid0's.          *)
THEOREM ModificationIsDone == Spec => ModifyOkMeansDone
<1> DEFINE Done == \A p \in Procs :
                     Returns(p, "ok") /\ call[p].op = "Modify" /\ call[p].alone /\ call[p].level # 0 =>
                       \A v \in call[p].vol : volume'[v].level = call[p].level
<1>1. IInv /\ VInv /\ AInv /\ [Next]_vars => Done
  BY EndsItself, ModificationEnds DEF Returns
<1>2. ModifyOkMeansDone <=> [][Done]_vars
  BY DEF ModifyOkMeansDone
<1>3. IInv /\ VInv /\ AInv /\ [Next]_vars => VInv' /\ AInv' /\ [Done]_vars
  BY <1>1, VolumesStep, AloneKnows
<1> QED BY <1>2, <1>3, Initially, Step, VolumesInitially, KnownInitially, PTL DEF Spec

LEMMA CreationEnds ==
  ASSUME IInv, VInv, NEW p \in Procs, Command(p), Returns(p, "failed"), call[p].op = "Create"
  PROVE  \A d \in call[p].joined : meta'[d] = NoArray
<1> DEFINE c == call[p]
<1>1. c \in Call /\ Kind(pc[p], c) /\ pc[p] \in Commands
  BY CallFacts, CommandCarries DEF VInv, Kinds, IInv, CallsType
<1>2. pc[p] \in {"create", "createVolume", "stopArray", "wipeAll"}
  BY <1>1 DEF Kind, KindOfOp, Growing, Commands
<1>3. Create(p) \/ CreateVolume(p) \/ StopArray(p) \/ WipeAll(p)
  BY <1>2 DEF Command, Add, Reshape, Relevel, Unplug, Wipe, StopVolume, Kill, Name, Scan, Assemble, StartSync,
     Cancel
<1>4. ASSUME NEW s, Return(p, s) PROVE s = "failed"
  BY <1>4, Left DEF Returns
<1>5. ASSUME NEW k, NEW d, Goto(p, k, d) PROVE k = "idle"
  BY <1>5, Went DEF Returns
<1>6. ~Retry(p, c)
  BY <1>4, <1>5 DEF Retry
<1>7. CASE Create(p)
  BY <1>1, <1>7 DEF Create, Kind, KindOfDisks
<1>8. ~CreateVolume(p)
  BY <1>4, <1>5 DEF CreateVolume
<1>9. ~StopArray(p)
  BY <1>5, <1>6 DEF StopArray
<1>10. CASE WipeAll(p)
  <2>1. meta' = Without(meta, c.disks)
    BY <1>6, <1>10 DEF WipeAll
  <2>2. c.joined \subseteq c.disks /\ c.joined \subseteq Disks
    BY <1>1 DEF Kind, KindOfDisks, Call
  <2> QED BY <2>1, <2>2 DEF Without
<1> QED BY <1>3, <1>7, <1>8, <1>9, <1>10

LEMMA FailureEnds ==
  ASSUME IInv, VInv, AInv, NEW p \in Procs, Command(p), Returns(p, "failed"), call[p].alone
  PROVE  \A d \in call[p].joined : meta'[d] = NoArray
<1> DEFINE c == call[p]
<1>1. Kind(pc[p], c) /\ c.joined \subseteq Disks
  BY CallFacts DEF VInv, Kinds, Call
<1>2. CASE c.op \in Growing
  <2>1. CASE Add(p) \/ Reshape(p) \/ Relevel(p)
    BY <1>2, <2>1, GrowthEnds
  <2>2. CASE (Unplug(p) \/ Wipe(p)) /\ c.status = "failed"
    <3>1. Wipe(p) /\ meta' = Without(meta, c.cur) /\ c.todo \subseteq c.cur /\ ~c.refused
      BY <2>2, TakingBackEnds
    <3>2. \A d \in c.joined \ c.todo : meta[d] = NoArray
      BY <3>1 DEF AInv, Cleaned, Wipe
    <3> QED BY <1>1, <3>1, <3>2 DEF Without
  <2> QED BY <1>2, <2>1, <2>2, GrowthCommands
<1>3. CASE c.op = "Create"
  BY <1>3, CreationEnds
<1>4. CASE c.op \notin Growing \cup {"Create"}
  BY <1>1, <1>4 DEF Kind, KindOfDisks
<1> QED BY <1>2, <1>3, <1>4

(* A growth, a migration or a creation that ran beside no other call and    *)
(* fails, with a clean-up that does not, leaves no metadata on a disk it    *)
(* has put in: it takes back all of them, and wipes each.                   *)
THEOREM FailureIsUndone == Spec => FailureLeavesNoTrace
<1> DEFINE Traceless == \A p \in Procs : Returns(p, "failed") /\ call[p].alone =>
                          \A d \in call[p].joined : meta'[d] = NoArray
<1>1. IInv /\ VInv /\ AInv /\ [Next]_vars => Traceless
  BY EndsItself, FailureEnds DEF Returns
<1>2. FailureLeavesNoTrace <=> [][Traceless]_vars
  BY DEF FailureLeavesNoTrace
<1>3. IInv /\ VInv /\ AInv /\ [Next]_vars => VInv' /\ AInv' /\ [Traceless]_vars
  BY <1>1, VolumesStep, AloneKnows
<1> QED BY <1>2, <1>3, Initially, Step, VolumesInitially, KnownInitially, PTL DEF Spec
=============================================================================
