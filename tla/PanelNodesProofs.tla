-------------------------- MODULE PanelNodesProofs --------------------------
(***************************************************************************)
(* Theorems about PanelNodes, for any number of requests, crons, zones and *)
(* failures.                                                               *)
(***************************************************************************)
EXTENDS PanelNodes, TLAPS

\* What a process at a step has been asked.
KindInv ==
    \A p \in Procs :
        /\ pc[p] \in {"pick", "late"} => Kind(p) = "rotate"
        /\ pc[p] = "check" => Kind(p) = "patch"
        /\ pc[p] = "resolve" => Kind(p) = "sync"
        /\ pc[p] = "call" => Kind(p) \in Calls
        /\ Kind(p) = "rotate" => p \in Requests

TypeInv == TypeOK /\ KindInv

-----------------------------------------------------------------------------
(* Types.                                                                  *)

LEMMA BlankType == Fresh \in Row /\ Blank \in Locals /\ Nothing \in Asked
BY ZoneAssumption DEF Fresh, Blank, Nothing, Row, Locals, Asked, Hosts, Statuses, Answers, Most, Calls

\* What belongs to the process that takes a step.
OwnType == pc \in [Procs -> Steps] /\ req \in [Procs -> Asked] /\ local \in [Procs -> Locals]

LEMMA EndType ==
    ASSUME TypeOK, NEW p \in Procs, End(p)
    PROVE  OwnType'
BY BlankType DEF End, GoTo, TypeOK, OwnType, Steps

LEMMA UsedType ==
    ASSUME TypeOK, NEW kind
    PROVE  Used(kind) \in Row
<1>1. row \in Row /\ Fresh \in Row
  BY BlankType DEF TypeOK
<1>2. [Fresh EXCEPT !.status = row.status, !.fails = row.fails] \in Row
  BY <1>1 DEF Row, Most
<1>3. [Fresh EXCEPT !.host = row.host, !.zone = row.zone] \in Row
  BY <1>1 DEF Row, Most
<1>4. [row EXCEPT !.fails = 0] \in Row
  BY <1>1 DEF Row, Most
<1>5. QED
  BY <1>1, <1>2, <1>3, <1>4 DEF Used

LEMMA ReadType ==
    ASSUME TypeOK, NEW p \in Procs, NEW asked \in Asked, NEW first \in Steps, Read(p, asked, first)
    PROVE  OwnType'
<1>1. Used(asked.kind) \in Row
  BY UsedType
<1>2. [local[p] EXCEPT !.row = Used(asked.kind)] \in Locals
  BY <1>1 DEF TypeOK, Locals
<1>3. QED
  BY <1>2 DEF Read, GoTo, TypeOK, OwnType

LEMMA OutdatedType ==
    ASSUME TypeOK, NEW p \in Procs, Outdated(p)
    PROVE  stale' \subseteq Procs
BY DEF TypeOK, Outdated

\* A process that has nothing to do with the tables.
LEMMA OutsideType ==
    ASSUME TypeOK, OwnType', NoFault \/ Fault, UNCHANGED <<tables, node, ghosts>>
    PROVE  TypeOK'
<1>1. faults' \in 0..MaxFaults
  BY FaultsAssumption DEF TypeOK, NoFault, Fault
<1>2. QED
  BY <1>1 DEF TypeOK, OwnType, tables, ghosts

\* A process that writes, or moves the node.
LEMMA WriteType ==
    ASSUME TypeOK, OwnType', NoFault \/ Fault, NEW p \in Procs, Outdated(p),
           row' \in Row, zones' \subseteq Zones, crossed' \subseteq Procs, excused' \in BOOLEAN,
           node' \in [mode : {"direct", "cloudflare"}, host : Hosts, zone : Zones, answers : Answers]
    PROVE  TypeOK'
<1>1. faults' \in 0..MaxFaults
  BY FaultsAssumption DEF TypeOK, NoFault, Fault
<1>2. stale' \subseteq Procs
  BY OutdatedType
<1>3. QED
  BY <1>1, <1>2 DEF TypeOK, OwnType

LEMMA AskedTypes ==
    /\ \A kind \in Calls : [kind |-> kind] \in Asked
    /\ \A status \in Statuses \cup {Keep}, zone \in Zones \cup {Keep} :
         [kind |-> "patch", status |-> status, zone |-> zone] \in Asked
    /\ \A kind \in {"create_zone", "delete_zone"}, zone \in Zones :
         [kind |-> kind, zone |-> zone] \in Asked
BY DEF Asked

LEMMA SweepType ==
    ASSUME TypeOK, NEW p \in Procs, Sweep(p)
    PROVE  TypeOK'
<1>1. [kind |-> "sweep"] \in Asked
  BY AskedTypes DEF Calls
<1>2. "call" \in Steps
  BY DEF Steps
<1>3. OwnType'
  BY <1>1, <1>2, ReadType DEF Sweep
<1>4. QED
  BY <1>3, OutsideType DEF Sweep

LEMMA ArriveType ==
    ASSUME TypeOK, NEW p \in Procs, Arrive(p)
    PROVE  TypeOK'
<1>1. {"call", "pick", "check", "write"} \subseteq Steps
  BY DEF Steps
<1>2. OwnType'
  <2>1. CASE \E kind \in {"status", "sync", "healthcheck"} : Read(p, [kind |-> kind], "call")
    <3>1. PICK kind \in {"status", "sync", "healthcheck"} : Read(p, [kind |-> kind], "call")
      BY <2>1
    <3>2. [kind |-> kind] \in Asked
      BY AskedTypes DEF Calls
    <3>3. QED
      BY <1>1, <3>1, <3>2, ReadType
  <2>2. CASE Read(p, [kind |-> "rotate"], "pick")
    <3>1. [kind |-> "rotate"] \in Asked
      BY AskedTypes DEF Calls
    <3>2. QED
      BY <1>1, <2>2, <3>1, ReadType
  <2>3. CASE \E status \in Statuses \cup {Keep} :
               Read(p, [kind |-> "patch", status |-> status, zone |-> Keep], "write")
    BY <1>1, <2>3, AskedTypes, ReadType
  <2>4. CASE \E zone \in Zones :
               Read(p, [kind |-> "patch", status |-> Keep, zone |-> zone], "check")
    BY <1>1, <2>4, AskedTypes, ReadType
  <2>5. CASE \E zone \in Unused : Read(p, [kind |-> "delete_zone", zone |-> zone], "write")
    BY <1>1, <2>5, AskedTypes, ReadType DEF Unused
  <2>6. CASE \E zone \in Zones \ zones : Read(p, [kind |-> "create_zone", zone |-> zone], "write")
    BY <1>1, <2>6, AskedTypes, ReadType
  <2>7. QED
    BY <2>1, <2>2, <2>3, <2>4, <2>5, <2>6 DEF Arrive
<1>3. QED
  BY <1>2, OutsideType DEF Arrive

LEMMA PickType ==
    ASSUME TypeInv, NEW p \in Procs, Pick(p)
    PROVE  TypeOK'
<1>1. TypeOK
  BY DEF TypeInv
<1>2. CASE zones \subseteq {local[p].row.zone} /\ End(p)
  BY <1>1, <1>2, EndType, OutsideType DEF Pick
<1>3. CASE \E zone \in zones \ {local[p].row.zone} :
             local' = [local EXCEPT ![p].zone = zone] /\ GoTo(p, "call") /\ UNCHANGED req
  <2>1. PICK zone \in zones :
          local' = [local EXCEPT ![p].zone = zone] /\ GoTo(p, "call") /\ UNCHANGED req
    BY <1>3
  <2>2. [local[p] EXCEPT !.zone = zone] \in Locals
    BY <1>1 DEF TypeOK, Locals
  <2>3. OwnType'
    BY <1>1, <2>1, <2>2 DEF TypeOK, OwnType, GoTo, Steps
  <2>4. QED
    BY <1>1, <2>3, OutsideType DEF Pick
<1>4. QED
  BY <1>2, <1>3 DEF Pick

LEMMA CheckType ==
    ASSUME TypeInv, NEW p \in Procs, Check(p)
    PROVE  TypeOK'
<1>1. TypeOK
  BY DEF TypeInv
<1>2. CASE End(p)
  BY <1>1, <1>2, EndType, OutsideType DEF Check
<1>3. CASE GoTo(p, "write") /\ UNCHANGED <<req, local>>
  <2>1. OwnType'
    BY <1>1, <1>3 DEF TypeOK, OwnType, GoTo, Steps
  <2>2. QED
    BY <1>1, <2>1, OutsideType DEF Check
<1>4. QED
  BY <1>2, <1>3 DEF Check

LEMMA CallAgentType ==
    ASSUME TypeInv, NEW p \in Procs, CallAgent(p)
    PROVE  TypeOK'
<1>1. TypeOK
  BY DEF TypeInv
<1>2. /\ [row |-> local[p].row, answer |-> "ok", host |-> node.host, zone |-> node.zone] \in Locals
      /\ [local[p] EXCEPT !.answer = node.answers] \in Locals
      /\ [local[p] EXCEPT !.answer = "transport"] \in Locals
  BY <1>1 DEF TypeOK, Locals, Answers
<1>3. OwnType'
  BY <1>1, <1>2 DEF CallAgent, TypeOK, OwnType, GoTo, Steps
<1>4. QED
  BY <1>1, <1>3, OutsideType DEF CallAgent

LEMMA CallRotateType ==
    ASSUME TypeInv, NEW p \in Procs, CallRotate(p)
    PROVE  TypeOK'
<1>1. TypeOK /\ p \in Hosts
  BY DEF TypeInv, KindInv, CallRotate, Hosts
<1>2. Moved(p) \in [mode : {"direct", "cloudflare"}, host : Hosts, zone : Zones, answers : Answers]
  BY <1>1 DEF Moved, TypeOK, Locals
<1>3. [local[p] EXCEPT !.host = p] \in Locals
  BY <1>1 DEF TypeOK, Locals
<1>4. OwnType'
  <2>1. CASE End(p)
    BY <1>1, <2>1, EndType
  <2>2. CASE GoTo(p, "late") /\ UNCHANGED <<req, local>>
    BY <1>1, <2>2 DEF TypeOK, OwnType, GoTo, Steps
  <2>3. CASE GoTo(p, "write") /\ local' = [local EXCEPT ![p].host = p] /\ UNCHANGED req
    BY <1>1, <1>3, <2>3 DEF TypeOK, OwnType, GoTo, Steps
  <2>4. QED
    BY <2>1, <2>2, <2>3 DEF CallRotate
<1>5. node' \in [mode : {"direct", "cloudflare"}, host : Hosts, zone : Zones, answers : Answers]
  BY <1>1, <1>2 DEF CallRotate, TypeOK
<1>6. row' \in Row /\ zones' \subseteq Zones /\ crossed' \subseteq Procs /\ excused' \in BOOLEAN
  BY <1>1 DEF CallRotate, TypeOK, tables
<1>7. (NoFault \/ Fault) /\ Outdated(p)
  BY DEF CallRotate
<1>8. QED
  BY <1>1, <1>4, <1>5, <1>6, <1>7, WriteType

LEMMA LateType ==
    ASSUME TypeInv, NEW p \in Procs, Late(p)
    PROVE  TypeOK'
<1>1. TypeOK /\ p \in Hosts
  BY DEF TypeInv, KindInv, Late, At, Hosts
<1>2. Moved(p) \in [mode : {"direct", "cloudflare"}, host : Hosts, zone : Zones, answers : Answers]
  BY <1>1 DEF Moved, TypeOK, Locals
<1>3. node' \in [mode : {"direct", "cloudflare"}, host : Hosts, zone : Zones, answers : Answers]
  BY <1>1, <1>2 DEF Late, TypeOK
<1>4. row' \in Row /\ zones' \subseteq Zones /\ crossed' \subseteq Procs /\ excused' \in BOOLEAN
  BY <1>1 DEF Late, TypeOK, tables
<1>5. OwnType'
  BY <1>1, EndType DEF Late
<1>6. QED
  BY <1>1, <1>3, <1>4, <1>5, WriteType DEF Late

LEMMA ResolveType ==
    ASSUME TypeInv, NEW p \in Procs, Resolve(p)
    PROVE  TypeOK'
<1>1. TypeOK
  BY DEF TypeInv
<1>2. \A zone \in Zones : [local[p] EXCEPT !.zone = zone] \in Locals
  BY <1>1 DEF TypeOK, Locals
<1>3. local[p].row.zone \in Zones /\ local[p].zone \in Zones
  BY <1>1 DEF TypeOK, Locals, Row
<1>4. PICK zone \in Zones : local' = [local EXCEPT ![p].zone = zone]
  BY <1>3 DEF Resolve
<1>5. OwnType'
  BY <1>1, <1>2, <1>4 DEF Resolve, TypeOK, OwnType, GoTo, Steps
<1>6. QED
  BY <1>1, <1>5, OutsideType DEF Resolve

\* A process that writes has ended.
LEMMA EndsType ==
    ASSUME TypeOK, NEW p \in Procs, End(p), Outdated(p), NoFault \/ Fault, UNCHANGED node,
           row' \in Row, zones' \subseteq Zones, crossed' \subseteq Procs, excused' \in BOOLEAN
    PROVE  TypeOK'
<1>1. node' \in [mode : {"direct", "cloudflare"}, host : Hosts, zone : Zones, answers : Answers]
  BY DEF TypeOK
<1>2. QED
  BY <1>1, EndType, WriteType

LEMMA SuccessType ==
    ASSUME NEW p, Success(p)
    PROVE  crossed' \subseteq Procs \cup crossed
BY DEF Success

LEMMA UpdateType ==
    ASSUME TypeOK, NEW new \in Row, Update(new)
    PROVE  row' \in Row
BY DEF TypeOK, Update

LEMMA HealthyType ==
    ASSUME NEW r \in Row
    PROVE  [r EXCEPT !.status = "active", !.fails = 0] \in Row
<1>1. "active" \in Statuses /\ 0 \in 0..Most
  BY DEF Statuses, Most
<1>2. QED
  BY <1>1 DEF Row

LEMMA SweepUpdateType ==
    ASSUME TypeOK, NEW l \in Locals
    PROVE  SweepUpdate(l) \in Row
<1>1. row \in Row /\ Incremented(row.fails) \in 0..Most
  BY DEF TypeOK, Row, Incremented, Most
<1>2. [row EXCEPT !.status = "active", !.fails = 0] \in Row
  BY <1>1, HealthyType
<1>3. [row EXCEPT !.fails = Incremented(row.fails)] \in Row
  BY <1>1 DEF Row
<1>4. \A status \in Statuses : [row EXCEPT !.fails = Incremented(row.fails), !.status = status] \in Row
  BY <1>1 DEF Row
<1>5. "unreachable" \in Statuses /\ row.status \in Statuses
  BY <1>1 DEF Statuses, Row
<1>6. l.answer \in {"ok", "config", "transport"}
  BY DEF Locals, Answers
<1>7. QED
  BY <1>2, <1>3, <1>4, <1>5, <1>6 DEF SweepUpdate

LEMMA RuntimeType ==
    ASSUME TypeOK, NEW p \in Procs
    PROVE  Runtime(p) \in Row
<1>1. row \in Row /\ local[p].host \in Hosts /\ local[p].zone \in Zones
      /\ local[p].row.host \in Hosts /\ local[p].row.zone \in Zones
  BY DEF TypeOK, Locals, Row
<1>2. \A host \in Hosts, zone \in Zones :
        [row EXCEPT !.status = "active", !.host = host, !.zone = zone] \in Row
  BY <1>1 DEF Row, Statuses
<1>3. QED
  BY <1>1, <1>2 DEF Runtime

LEMMA WriteSweepType ==
    ASSUME TypeInv, NEW p \in Procs, WriteSweep(p)
    PROVE  TypeOK'
<1>1. TypeOK /\ SweepUpdate(local[p]) \in Row
  BY SweepUpdateType DEF TypeInv, TypeOK
<1>2. row' \in Row
  BY <1>1, UpdateType DEF WriteSweep, TypeOK
<1>3. crossed' \subseteq Procs
  BY <1>1, SuccessType DEF WriteSweep, TypeOK
<1>4. zones' \subseteq Zones /\ excused' \in BOOLEAN /\ UNCHANGED node
  BY <1>1 DEF WriteSweep, TypeOK
<1>5. QED
  BY <1>1, <1>2, <1>3, <1>4, EndsType DEF WriteSweep

LEMMA WriteStatusType ==
    ASSUME TypeInv, NEW p \in Procs, WriteStatus(p)
    PROVE  TypeOK'
<1>1. TypeOK /\ Runtime(p) \in Row /\ row \in Row
  BY RuntimeType DEF TypeInv, TypeOK
<1>2. [row EXCEPT !.status = "unreachable"] \in Row
  BY <1>1 DEF Row, Statuses
<1>3. row' \in Row
  BY <1>1, <1>2, UpdateType DEF WriteStatus
<1>4. excused' \in BOOLEAN
  BY <1>1 DEF WriteStatus, TypeOK
<1>5. zones' \subseteq Zones /\ crossed' \subseteq Procs /\ UNCHANGED node
  BY <1>1 DEF WriteStatus, TypeOK
<1>6. (NoFault \/ Fault) /\ End(p) /\ Outdated(p)
  BY DEF WriteStatus
<1>7. QED
  BY <1>1, <1>3, <1>4, <1>5, <1>6, EndsType

LEMMA WriteSyncType ==
    ASSUME TypeInv, NEW p \in Procs, WriteSync(p)
    PROVE  TypeOK'
<1>1. TypeOK /\ Runtime(p) \in Row
  BY RuntimeType DEF TypeInv
<1>2. row' \in Row
  BY <1>1, UpdateType DEF WriteSync, TypeOK
<1>3. excused' \in BOOLEAN
  BY <1>1 DEF WriteSync, TypeOK
<1>4. zones' \subseteq Zones /\ crossed' \subseteq Procs /\ UNCHANGED node
  BY <1>1 DEF WriteSync, TypeOK
<1>5. (NoFault \/ Fault) /\ End(p) /\ Outdated(p)
  BY DEF WriteSync
<1>6. QED
  BY <1>1, <1>2, <1>3, <1>4, <1>5, EndsType

LEMMA WriteHealthcheckType ==
    ASSUME TypeInv, NEW p \in Procs, WriteHealthcheck(p)
    PROVE  TypeOK'
<1>1. TypeOK /\ row \in Row
  BY DEF TypeInv, TypeOK
<1>2. [row EXCEPT !.status = "active", !.fails = 0] \in Row
  BY <1>1, HealthyType
<1>3. row' \in Row
  BY <1>1, <1>2, UpdateType DEF WriteHealthcheck
<1>4. crossed' \subseteq Procs
  BY <1>1, SuccessType DEF WriteHealthcheck, TypeOK
<1>5. zones' \subseteq Zones /\ excused' \in BOOLEAN /\ UNCHANGED node
  BY <1>1 DEF WriteHealthcheck, TypeOK
<1>6. (NoFault \/ Fault) /\ End(p) /\ Outdated(p)
  BY DEF WriteHealthcheck
<1>7. QED
  BY <1>1, <1>3, <1>4, <1>5, <1>6, EndsType

LEMMA WriteRotateType ==
    ASSUME TypeInv, NEW p \in Procs, WriteRotate(p)
    PROVE  TypeOK'
<1>1. TypeOK /\ row \in Row /\ local[p].host \in Hosts /\ local[p].zone \in Zones
  BY DEF TypeInv, TypeOK, Locals
<1>2. [row EXCEPT !.host = local[p].host, !.zone = local[p].zone, !.status = "active"] \in Row
  BY <1>1 DEF Row, Statuses
<1>3. row' \in Row
  BY <1>1, <1>2, UpdateType DEF WriteRotate
<1>4. excused' \in BOOLEAN
  BY <1>1 DEF WriteRotate, TypeOK
<1>5. zones' \subseteq Zones /\ crossed' \subseteq Procs /\ UNCHANGED node
  BY <1>1 DEF WriteRotate, TypeOK
<1>6. (NoFault \/ Fault) /\ End(p) /\ Outdated(p)
  BY DEF WriteRotate
<1>7. QED
  BY <1>1, <1>3, <1>4, <1>5, <1>6, EndsType

\* A patch names what it asks for.
LEMMA PatchAsked ==
    ASSUME TypeOK, NEW p \in Procs, Kind(p) = "patch"
    PROVE  req[p].status \in Statuses \cup {Keep} /\ req[p].zone \in Zones \cup {Keep}
BY DEF TypeOK, Asked, Kind, Calls

LEMMA ZoneAsked ==
    ASSUME TypeOK, NEW p \in Procs, Kind(p) \in {"create_zone", "delete_zone"}
    PROVE  req[p].zone \in Zones
BY DEF TypeOK, Asked, Kind, Calls

LEMMA WritePatchType ==
    ASSUME TypeInv, NEW p \in Procs, WritePatch(p)
    PROVE  TypeOK'
<1>1. TypeOK /\ row \in Row /\ local[p].row \in Row
  BY DEF TypeInv, TypeOK, Locals
<1>2. Patched(req[p].zone, local[p].row.zone) \in Zones /\ local[p].row.host \in Hosts
  BY <1>1, PatchAsked DEF WritePatch, Patched, Row
<1>3. Patched(req[p].status, local[p].row.status) \in Statuses
  BY <1>1, PatchAsked DEF WritePatch, Patched, Row
<1>4. row' \in Row
  BY <1>1, <1>2, <1>3 DEF WritePatch, Row
<1>5. excused' \in BOOLEAN
  BY <1>1 DEF WritePatch, TypeOK
<1>6. zones' \subseteq Zones /\ crossed' \subseteq Procs /\ UNCHANGED node
  BY <1>1 DEF WritePatch, TypeOK
<1>7. (NoFault \/ Fault) /\ End(p) /\ Outdated(p)
  BY DEF WritePatch
<1>8. QED
  BY <1>1, <1>4, <1>5, <1>6, <1>7, EndsType

LEMMA WriteZoneType ==
    ASSUME TypeInv, NEW p \in Procs, WriteZone(p)
    PROVE  TypeOK'
<1>1. TypeOK /\ req[p].zone \in Zones
  BY ZoneAsked DEF TypeInv, WriteZone
<1>2. zones' \subseteq Zones
  BY <1>1 DEF WriteZone, TypeOK
<1>3. excused' \in BOOLEAN
  BY <1>1 DEF WriteZone, TypeOK
<1>4. row' \in Row /\ crossed' \subseteq Procs /\ UNCHANGED node
  BY <1>1 DEF WriteZone, TypeOK
<1>5. (NoFault \/ Fault) /\ End(p) /\ Outdated(p)
  BY DEF WriteZone
<1>6. QED
  BY <1>1, <1>2, <1>3, <1>4, <1>5, EndsType

LEMMA TurnType ==
    ASSUME TypeInv, NEW answers \in Answers, Turn(answers)
    PROVE  TypeOK'
<1>1. TypeOK
  BY DEF TypeInv
<1>2. node' \in [mode : {"direct", "cloudflare"}, host : Hosts, zone : Zones, answers : Answers]
  BY <1>1 DEF Turn, TypeOK
<1>3. faults' \in 0..MaxFaults
  BY <1>1, FaultsAssumption DEF Turn, TypeOK, NoFault, Fault
<1>4. QED
  BY <1>1, <1>2, <1>3 DEF Turn, TypeOK, tables, ghosts

-----------------------------------------------------------------------------
(* The steps of a process leave the others' part of pc, req and local.     *)

OthersKept(p) ==
    \A q \in Procs \ {p} : pc'[q] = pc[q] /\ req'[q] = req[q] /\ local'[q] = local[q]

LEMMA EndOthers ==
    ASSUME TypeOK, NEW p \in Procs, End(p)
    PROVE  OthersKept(p) /\ ~InFlight(p)' /\ req'[p] = Nothing /\ local'[p] = Blank
BY DEF TypeOK, End, GoTo, InFlight, OthersKept

LEMMA ReadOthers ==
    ASSUME TypeOK, NEW p \in Procs, NEW asked, NEW first, Read(p, asked, first)
    PROVE  OthersKept(p) /\ pc'[p] = first /\ req'[p] = asked
           /\ local'[p] = [local[p] EXCEPT !.row = Used(asked.kind)]
BY DEF TypeOK, Read, GoTo, OthersKept

LEMMA StepOthers ==
    ASSUME TypeOK, NEW p \in Procs, Step(p)
    PROVE  OthersKept(p)
<1>1. CASE End(p)
  BY <1>1, EndOthers
<1>2. CASE Pick(p)
  BY <1>1, <1>2 DEF Pick, GoTo, TypeOK, OthersKept
<1>3. CASE Check(p)
  BY <1>1, <1>3 DEF Check, GoTo, TypeOK, OthersKept
<1>4. CASE CallAgent(p)
  BY <1>4 DEF CallAgent, GoTo, TypeOK, OthersKept
<1>5. CASE CallRotate(p)
  BY <1>1, <1>5 DEF CallRotate, GoTo, TypeOK, OthersKept
<1>6. CASE Resolve(p)
  BY <1>6 DEF Resolve, GoTo, TypeOK, OthersKept
<1>7. QED
  BY <1>1, <1>2, <1>3, <1>4, <1>5, <1>6
     DEF Step, Late, WriteSweep, WriteStatus, WriteSync, WriteHealthcheck, WriteRotate,
         WritePatch, WriteZone

\* A process that has ended asks for nothing.
LEMMA EndKind ==
    ASSUME TypeInv, NEW p \in Procs, End(p)
    PROVE  KindInv'
<1>1. OthersKept(p) /\ pc'[p] \in {"idle", "done"} /\ Kind(p)' = "none"
  BY EndOthers DEF TypeInv, InFlight, Kind, Nothing
<1>2. QED
  BY <1>1 DEF TypeInv, KindInv, OthersKept, Kind

LEMMA ReadKind ==
    ASSUME TypeInv, NEW p \in Procs, NEW asked, NEW first, Read(p, asked, first),
           first = "pick" => asked.kind = "rotate", first = "check" => asked.kind = "patch",
           first = "call" => asked.kind \in Calls, asked.kind = "rotate" => p \in Requests,
           first \notin {"late", "resolve"}
    PROVE  KindInv'
<1>1. OthersKept(p) /\ pc'[p] = first /\ Kind(p)' = asked.kind
  BY ReadOthers DEF TypeInv, Kind
<1>2. QED
  BY <1>1 DEF TypeInv, KindInv, OthersKept, Kind

LEMMA ArriveKind ==
    ASSUME TypeInv, NEW p \in Procs, Arrive(p)
    PROVE  KindInv'
<1>1. p \in Requests
  BY DEF Arrive
<1>2. CASE \E kind \in {"status", "sync", "healthcheck"} : Read(p, [kind |-> kind], "call")
  BY <1>2, ReadKind DEF Calls
<1>3. CASE Read(p, [kind |-> "rotate"], "pick")
  BY <1>1, <1>3, ReadKind
<1>4. CASE \E status \in Statuses \cup {Keep} :
             Read(p, [kind |-> "patch", status |-> status, zone |-> Keep], "write")
  BY <1>4, ReadKind
<1>5. CASE \E zone \in Zones :
             Read(p, [kind |-> "patch", status |-> Keep, zone |-> zone], "check")
  BY <1>5, ReadKind
<1>6. CASE \E zone \in Unused : Read(p, [kind |-> "delete_zone", zone |-> zone], "write")
  BY <1>6, ReadKind
<1>7. CASE \E zone \in Zones \ zones : Read(p, [kind |-> "create_zone", zone |-> zone], "write")
  BY <1>7, ReadKind
<1>8. QED
  BY <1>2, <1>3, <1>4, <1>5, <1>6, <1>7 DEF Arrive

LEMMA StepKind ==
    ASSUME TypeInv, NEW p \in Procs, Step(p)
    PROVE  KindInv'
<1>1. CASE End(p)
  BY <1>1, EndKind
<1>2. OthersKept(p)
  BY StepOthers DEF TypeInv
<1>3. ASSUME NEW step \in Steps, GoTo(p, step), UNCHANGED req,
             Kind(p) = "rotate" \/ step \notin {"pick", "late"},
             Kind(p) = "patch" \/ step # "check", Kind(p) = "sync" \/ step # "resolve",
             Kind(p) \in Calls \/ step # "call"
      PROVE  KindInv'
  <2>1. pc'[p] = step /\ Kind(p)' = Kind(p)
    BY <1>3 DEF GoTo, TypeInv, TypeOK, Kind
  <2>2. QED
    BY <1>2, <1>3, <2>1 DEF TypeInv, KindInv, OthersKept, Kind
<1>4. {"call", "resolve", "late", "write"} \subseteq Steps /\ "rotate" \in Calls
  BY DEF Steps, Calls
<1>5. CASE Pick(p)
  BY <1>1, <1>3, <1>4, <1>5 DEF Pick, TypeInv, KindInv, At
<1>6. CASE Check(p)
  BY <1>1, <1>3, <1>4, <1>6 DEF Check
<1>7. CASE CallAgent(p)
  BY <1>3, <1>4, <1>7 DEF CallAgent
<1>8. CASE CallRotate(p)
  BY <1>1, <1>3, <1>4, <1>8 DEF CallRotate
<1>9. CASE Resolve(p)
  BY <1>3, <1>4, <1>9 DEF Resolve
<1>10. QED
  BY <1>1, <1>5, <1>6, <1>7, <1>8, <1>9
     DEF Step, Late, WriteSweep, WriteStatus, WriteSync, WriteHealthcheck, WriteRotate,
         WritePatch, WriteZone

LEMMA InitTypeInv == Init => TypeInv
<1>1. SUFFICES ASSUME Init PROVE TypeInv
  OBVIOUS
<1>2. node \in [mode : {"direct", "cloudflare"}, host : Hosts, zone : Zones, answers : Answers]
  BY <1>1, ZoneAssumption DEF Init, Hosts, Answers
<1>3. pc \in [Procs -> Steps] /\ req \in [Procs -> Asked] /\ local \in [Procs -> Locals]
  BY <1>1, BlankType DEF Init, Steps
<1>4. row \in Row /\ zones \subseteq Zones /\ faults \in 0..MaxFaults
  BY <1>1, BlankType, FaultsAssumption DEF Init
<1>5. stale \subseteq Procs /\ crossed \subseteq Procs /\ excused \in BOOLEAN
  BY <1>1 DEF Init
<1>6. KindInv
  BY <1>1 DEF Init, KindInv, Kind, Nothing
<1>7. QED
  BY <1>2, <1>3, <1>4, <1>5, <1>6 DEF TypeInv, TypeOK

LEMMA TypeInvStep == TypeInv /\ [Next]_vars => TypeInv'
<1>1. SUFFICES ASSUME TypeInv, [Next]_vars PROVE TypeInv'
  OBVIOUS
<1>2. TypeOK /\ KindInv
  BY <1>1 DEF TypeInv
<1>3. CASE UNCHANGED vars
  BY <1>2, <1>3 DEF TypeInv, TypeOK, KindInv, Kind, vars, tables, ghosts
<1>4. ASSUME NEW p \in Procs, Sweep(p) PROVE TypeInv'
  <2>1. KindInv'
    BY <1>1, <1>4, ReadKind DEF Sweep, Calls
  <2>2. QED
    BY <1>2, <1>4, <2>1, SweepType DEF TypeInv
<1>5. ASSUME NEW p \in Procs, Arrive(p) PROVE TypeInv'
  BY <1>1, <1>2, <1>5, ArriveKind, ArriveType DEF TypeInv
<1>6. ASSUME NEW p \in Procs, Step(p) PROVE TypeInv'
  <2>1. TypeOK'
    BY <1>1, <1>6, PickType, CheckType, CallAgentType, CallRotateType, LateType, ResolveType,
       WriteSweepType, WriteStatusType, WriteSyncType, WriteHealthcheckType, WriteRotateType,
       WritePatchType, WriteZoneType DEF Step
  <2>2. QED
    BY <1>1, <1>6, <2>1, StepKind DEF TypeInv
<1>7. ASSUME NEW answers \in Answers, Turn(answers) PROVE TypeInv'
  BY <1>1, <1>2, <1>7, TurnType DEF TypeInv, Turn, KindInv, Kind
<1>8. QED
  BY <1>1, <1>3, <1>4, <1>5, <1>6, <1>7 DEF Next

\* Every variable keeps its type, whoever overlaps and whatever fails.
THEOREM RowTypeCorrect == Spec => []TypeOK
<1>1. TypeInv => TypeOK
  BY DEF TypeInv
<1>2. QED
  BY <1>1, InitTypeInv, TypeInvStep, PTL DEF Spec

-----------------------------------------------------------------------------
(* Statuses.                                                               *)

\* A sweep that no success has crossed has read no more failures than there are.
FailsInv ==
    \A p \in Procs :
        InFlight(p) /\ Kind(p) = "sweep" /\ p \notin crossed => local[p].row.fails <= row.fails

\* A rotation that is to be written has been told of its success.
AnswerInv ==
    \A p \in Procs : ~InFlight(p) \/ Kind(p) = "rotate" => local[p].answer = "ok"

StatusInv == TypeInv /\ FailsInv /\ AnswerInv

LEMMA InitStatusInv == Init => StatusInv
<1>1. SUFFICES ASSUME Init PROVE StatusInv
  OBVIOUS
<1>2. \A p \in Procs : local[p].answer = "ok" /\ ~InFlight(p)
  BY <1>1 DEF Init, Blank, InFlight
<1>3. QED
  BY <1>1, <1>2, InitTypeInv DEF StatusInv, FailsInv, AnswerInv

\* Failures are forgotten by a success only.
Monotone(p) ==
    \/ row'.fails >= row.fails /\ crossed \ {p} \subseteq crossed'
    \/ Success(p)

LEMMA UpdateFails ==
    ASSUME TypeOK, NEW new \in Row, Update(new), new.fails >= row.fails
    PROVE  row'.fails >= row.fails
<1>1. row.fails \in Nat
  BY DEF TypeOK, Row, Most
<1>2. QED
  BY <1>1 DEF Update

LEMMA SweepFails ==
    ASSUME TypeOK, NEW l \in Locals, l.answer # "ok"
    PROVE  /\ SweepUpdate(l).fails = Incremented(row.fails)
           /\ Incremented(row.fails) >= row.fails
<1>1. row \in Row /\ row.fails \in 0..3 /\ l.answer \in {"config", "transport"}
  BY DEF TypeOK, Row, Most, Locals, Answers
<1>2. SweepUpdate(l).fails = Incremented(row.fails)
  BY <1>1 DEF SweepUpdate, Row
<1>3. QED
  BY <1>1, <1>2 DEF Incremented, Most

LEMMA StepFails ==
    ASSUME TypeInv, NEW p \in Procs, Step(p)
    PROVE  Monotone(p)
<1>1. TypeOK /\ row \in Row /\ row.fails \in Nat /\ local[p] \in Locals
  BY DEF TypeInv, TypeOK, Row, Most
<1>2. CASE UNCHANGED <<row, crossed>>
  BY <1>1, <1>2 DEF Monotone
<1>3. CASE WriteSweep(p)
  <2>1. CASE UNCHANGED row /\ crossed' = crossed \ {p}
    BY <1>1, <2>1 DEF Monotone
  <2>2. CASE Success(p)
    BY <2>2 DEF Monotone
  <2>3. CASE Update(SweepUpdate(local[p])) /\ local[p].answer # "ok" /\ crossed' = crossed \ {p}
    <3>1. SweepUpdate(local[p]).fails >= row.fails
      BY <1>1, <2>3, SweepFails
    <3>2. SweepUpdate(local[p]) \in Row
      BY <1>1, SweepUpdateType
    <3>3. row'.fails >= row.fails
      BY <1>1, <2>3, <3>1, <3>2, UpdateFails
    <3>4. crossed \ {p} \subseteq crossed'
      BY <2>3
    <3>5. QED
      BY <3>3, <3>4 DEF Monotone
  <2>4. QED
    BY <1>3, <2>1, <2>2, <2>3 DEF WriteSweep
<1>4. CASE WriteHealthcheck(p)
  BY <1>2, <1>4 DEF WriteHealthcheck, Monotone
<1>5. CASE WriteStatus(p) \/ WriteSync(p)
  <2>1. Runtime(p).fails = row.fails /\ Runtime(p) \in Row
    BY <1>1, RuntimeType DEF Runtime, Row
  <2>2. [row EXCEPT !.status = "unreachable"] \in Row
        /\ [row EXCEPT !.status = "unreachable"].fails = row.fails
    BY <1>1 DEF Row, Statuses
  <2>3. row' = row \/ \E new \in {Runtime(p), [row EXCEPT !.status = "unreachable"]} : Update(new)
    BY <1>5 DEF WriteStatus, WriteSync
  <2>4. row'.fails = row.fails
    BY <2>1, <2>2, <2>3 DEF Update
  <2>5. QED
    BY <1>1, <1>5, <2>4 DEF WriteStatus, WriteSync, Monotone
<1>6. CASE WriteRotate(p) \/ WritePatch(p)
  <2>1. row'.fails = row.fails
    BY <1>1, <1>6 DEF WriteRotate, WritePatch, Update, Row
  <2>2. QED
    BY <1>1, <1>6, <2>1 DEF WriteRotate, WritePatch, Monotone
<1>7. QED
  BY <1>2, <1>3, <1>4, <1>5, <1>6
     DEF Step, Pick, Check, CallAgent, CallRotate, Late, Resolve, WriteZone, tables, ghosts

\* A process that goes on goes on with what it has read.
LEMMA StepOwn ==
    ASSUME TypeInv, NEW p \in Procs, Step(p)
    PROVE  /\ InFlight(p)
           /\ \/ End(p)
              \/ /\ UNCHANGED <<row, crossed, req>> /\ local'[p].row = local[p].row
                 /\ Kind(p) = "rotate" => local'[p].answer = local[p].answer
<1>1. TypeOK /\ local[p] \in Locals
  BY DEF TypeInv, TypeOK
<1>2. InFlight(p)
  BY DEF Step, Pick, Check, CallAgent, CallRotate, Late, Resolve, WriteSweep, WriteStatus,
         WriteSync, WriteHealthcheck, WriteRotate, WritePatch, WriteZone, At, InFlight
<1>3. CASE Pick(p)
  BY <1>1, <1>2, <1>3 DEF Pick, TypeOK, Locals, tables, ghosts
<1>4. CASE Check(p)
  BY <1>1, <1>2, <1>4 DEF Check, tables, ghosts
<1>5. CASE CallAgent(p)
  BY <1>1, <1>2, <1>5 DEF CallAgent, TypeOK, Locals, tables, ghosts
<1>6. CASE CallRotate(p)
  BY <1>1, <1>2, <1>6 DEF CallRotate, TypeOK, Locals, tables
<1>7. CASE Resolve(p)
  <2>1. Kind(p) = "sync"
    BY <1>7 DEF Resolve, At, TypeInv, KindInv
  <2>2. QED
    BY <1>1, <1>2, <1>7, <2>1 DEF Resolve, TypeOK, Locals, tables, ghosts
<1>8. QED
  BY <1>2, <1>3, <1>4, <1>5, <1>6, <1>7
     DEF Step, Late, WriteSweep, WriteStatus, WriteSync, WriteHealthcheck, WriteRotate,
         WritePatch, WriteZone

LEMMA ReadStatus ==
    ASSUME StatusInv, NEW p \in Procs, ~InFlight(p), NEW asked, NEW first, Read(p, asked, first),
           UNCHANGED <<row, crossed>>
    PROVE  FailsInv' /\ AnswerInv'
<1>1. TypeOK /\ local[p] \in Locals /\ row.fails \in Nat /\ Fresh \in Row
  BY BlankType DEF StatusInv, TypeInv, TypeOK, Row, Most
<1>2. OthersKept(p) /\ req'[p] = asked /\ local'[p] = [local[p] EXCEPT !.row = Used(asked.kind)]
  BY <1>1, ReadOthers
<1>3. asked.kind = "sweep" => Used(asked.kind).fails = row.fails
  BY <1>1 DEF Used, Row
<1>4. local'[p].answer = "ok" /\ local'[p].row = Used(asked.kind)
  BY <1>1, <1>2 DEF StatusInv, AnswerInv, Locals
<1>5. FailsInv'
  <2>1. ASSUME NEW q \in Procs \ {p}, InFlight(q)', Kind(q)' = "sweep", q \notin crossed'
        PROVE  local'[q].row.fails <= row'.fails
    BY <1>2, <2>1 DEF StatusInv, FailsInv, OthersKept, InFlight, Kind
  <2>2. Kind(p)' = "sweep" => local'[p].row.fails <= row'.fails
    BY <1>1, <1>2, <1>3, <1>4 DEF Kind
  <2>3. QED
    BY <2>1, <2>2 DEF FailsInv
<1>6. AnswerInv'
  BY <1>2, <1>4 DEF StatusInv, AnswerInv, OthersKept, InFlight, Kind
<1>7. QED
  BY <1>5, <1>6

LEMMA StepStatus ==
    ASSUME StatusInv, NEW p \in Procs, Step(p)
    PROVE  FailsInv' /\ AnswerInv'
<1>1. TypeInv /\ TypeOK /\ TypeOK'
  BY TypeInvStep DEF StatusInv, TypeInv, Next
<1>2. OthersKept(p) /\ Monotone(p)
  BY <1>1, StepOthers, StepFails
<1>3. \A q \in Procs : local[q].row.fails \in Nat /\ row.fails \in Nat /\ row'.fails \in Nat
  <2>1. \A r \in Row : r.fails \in Nat
    BY DEF Row, Most
  <2>2. row \in Row /\ row' \in Row
    BY <1>1 DEF TypeOK
  <2>3. \A q \in Procs : local[q].row \in Row
    <3>1. \A l \in Locals : l.row \in Row
      BY DEF Locals
    <3>2. \A q \in Procs : local[q] \in Locals
      BY <1>1 DEF TypeOK
    <3>3. QED
      BY <3>1, <3>2
  <2>4. QED
    BY <2>1, <2>2, <2>3
<1>4. ASSUME NEW q \in Procs \ {p}, InFlight(q)', Kind(q)' = "sweep", q \notin crossed'
      PROVE  local'[q].row.fails <= row'.fails
  <2>1. InFlight(q) /\ Kind(q) = "sweep" /\ local'[q] = local[q]
    BY <1>2, <1>4 DEF OthersKept, InFlight, Kind
  <2>2. ~Success(p)
    BY <1>4, <2>1 DEF Success
  <2>3. q \notin crossed /\ row'.fails >= row.fails
    BY <1>2, <1>4, <2>2 DEF Monotone
  <2>4. QED
    BY <1>3, <2>1, <2>3 DEF StatusInv, FailsInv
<1>5. CASE End(p)
  <2>1. ~InFlight(p)' /\ local'[p].answer = "ok"
    BY <1>1, <1>5, EndOthers DEF Blank
  <2>2. AnswerInv'
    BY <1>2, <2>1 DEF StatusInv, AnswerInv, OthersKept, InFlight, Kind
  <2>3. QED
    BY <1>4, <2>1, <2>2 DEF FailsInv
<1>6. CASE ~End(p)
  <2>1. /\ UNCHANGED <<row, crossed, req>> /\ local'[p].row = local[p].row /\ InFlight(p)
        /\ Kind(p) = "rotate" => local'[p].answer = local[p].answer
    BY <1>1, <1>6, StepOwn
  <2>2. pc'[p] \notin {"idle", "done"}
    BY <1>1, <1>6 DEF Step, Pick, Check, CallAgent, CallRotate, Late, Resolve, WriteSweep,
       WriteStatus, WriteSync, WriteHealthcheck, WriteRotate, WritePatch, WriteZone, GoTo, TypeOK
  <2>3. FailsInv'
    BY <1>4, <2>1 DEF StatusInv, FailsInv, Kind
  <2>4. AnswerInv'
    BY <1>2, <2>1, <2>2 DEF StatusInv, AnswerInv, OthersKept, InFlight, Kind
  <2>5. QED
    BY <2>3, <2>4
<1>7. QED
  BY <1>5, <1>6

LEMMA StatusInvStep == StatusInv /\ [Next]_vars => StatusInv'
<1>1. SUFFICES ASSUME StatusInv, [Next]_vars PROVE StatusInv'
  OBVIOUS
<1>2. TypeInv'
  BY <1>1, TypeInvStep DEF StatusInv
<1>3. CASE UNCHANGED vars
  BY <1>1, <1>2, <1>3 DEF StatusInv, FailsInv, AnswerInv, InFlight, Kind, vars, tables, ghosts
<1>4. ASSUME NEW p \in Procs, Sweep(p) PROVE FailsInv' /\ AnswerInv'
  BY <1>1, <1>4, ReadStatus DEF Sweep, At, InFlight, tables, ghosts
<1>5. ASSUME NEW p \in Procs, Arrive(p) PROVE FailsInv' /\ AnswerInv'
  BY <1>1, <1>5, ReadStatus DEF Arrive, At, InFlight, tables, ghosts
<1>6. ASSUME NEW p \in Procs, Step(p) PROVE FailsInv' /\ AnswerInv'
  BY <1>1, <1>6, StepStatus
<1>7. ASSUME NEW answers \in Answers, Turn(answers) PROVE FailsInv' /\ AnswerInv'
  BY <1>1, <1>7 DEF Turn, StatusInv, FailsInv, AnswerInv, InFlight, Kind, tables, ghosts
<1>8. QED
  BY <1>1, <1>2, <1>3, <1>4, <1>5, <1>6, <1>7 DEF Next, StatusInv

\* One step of one process writes.
LEMMA WriterWrites ==
    ASSUME TypeInv, [Next]_vars, NEW p \in Procs, row' # row, Writes(p, Kind(p))
    PROVE  \/ WriteSweep(p) \/ WriteStatus(p) \/ WriteSync(p) \/ WriteHealthcheck(p)
           \/ WriteRotate(p) \/ WritePatch(p)
<1>1. TypeOK
  BY DEF TypeInv
<1>2. At(p, "write") /\ ~(At(p, "write"))'
  BY DEF Writes
<1>3. PICK q \in Procs : Step(q)
  BY DEF Next, vars, tables, Sweep, Arrive, Turn
<1>4. q = p
  BY <1>1, <1>2, <1>3, StepOthers DEF OthersKept, At
<1>5. QED
  BY <1>2, <1>3, <1>4
     DEF Step, Pick, Check, CallAgent, CallRotate, Late, Resolve, WriteZone, At, tables

\* A status changes for a reason, whoever overlaps and whatever fails.
THEOREM StatusesAreEarned == Spec => StatusIsEarned
<1>1. ASSUME StatusInv, [Next]_vars, NEW p \in Procs, row' # row, Writes(p, Kind(p))
      PROVE  /\ row.status = "disabled" => Kind(p) = "patch"
             /\ Kind(p) = "sweep" /\ row'.status = "unreachable" /\ row.status # "unreachable"
                  => row'.fails >= Threshold \/ p \in crossed
             /\ row'.status = "active" /\ row.status # "active" /\ Kind(p) # "patch"
                  => local[p].answer = "ok"
  <2>1. TypeInv /\ TypeOK /\ row \in Row /\ local[p] \in Locals
    BY <1>1 DEF StatusInv, TypeInv, TypeOK
  <2>2. InFlight(p) /\ At(p, "write")
    BY <1>1 DEF Writes, InFlight, At
  <2>3. CASE WriteSweep(p)
    <3>1. Kind(p) = "sweep" /\ row.status # "disabled" /\ row' = SweepUpdate(local[p])
      BY <1>1, <2>3 DEF WriteSweep, Update
    <3>2. local[p].answer \in {"ok", "config", "transport"} /\ row.fails \in 0..3
          /\ local[p].row.fails \in 0..3
      BY <2>1 DEF Locals, Answers, Row, Most
    <3>3. CASE local[p].answer = "ok"
      BY <2>1, <3>1, <3>3 DEF SweepUpdate, Row
    <3>4. CASE local[p].answer = "config"
      BY <2>1, <3>1, <3>4 DEF SweepUpdate, Row
    <3>5. CASE local[p].answer = "transport"
      <4>1. /\ row'.status = IF Flips(local[p].row) THEN "unreachable" ELSE row.status
            /\ row'.fails = Incremented(row.fails)
        BY <2>1, <3>1, <3>5 DEF SweepUpdate, Row
      <4>2. Flips(local[p].row) => local[p].row.fails >= 1
        BY <3>2 DEF Flips, Incremented, Threshold, Most
      <4>3. p \notin crossed => local[p].row.fails <= row.fails
        BY <1>1, <2>2, <3>1 DEF StatusInv, FailsInv
      <4>4. row.fails >= 1 => row'.fails >= Threshold
        BY <3>2, <4>1 DEF Incremented, Threshold, Most
      <4>5. QED
        BY <3>1, <3>2, <4>1, <4>2, <4>3, <4>4
    <3>6. QED
      BY <3>2, <3>3, <3>4, <3>5
  <2>4. CASE WriteStatus(p)
    <3>1. Kind(p) = "status" /\ row.status # "disabled"
      BY <1>1, <2>4 DEF WriteStatus, Update
    <3>2. local[p].answer = "ok" \/ row'.status = "unreachable"
      BY <1>1, <2>1, <2>4, <3>1 DEF WriteStatus, Update, Row
    <3>3. QED
      BY <3>1, <3>2
  <2>5. CASE WriteSync(p)
    BY <1>1, <2>5 DEF WriteSync, Update
  <2>6. CASE WriteHealthcheck(p)
    BY <1>1, <2>6 DEF WriteHealthcheck, Update
  <2>7. CASE WriteRotate(p)
    <3>1. Kind(p) = "rotate" /\ row.status # "disabled"
      BY <1>1, <2>7 DEF WriteRotate, Update
    <3>2. QED
      BY <1>1, <3>1 DEF StatusInv, AnswerInv
  <2>8. CASE WritePatch(p)
    BY <2>8 DEF WritePatch
  <2>9. QED
    BY <1>1, <2>1, <2>3, <2>4, <2>5, <2>6, <2>7, <2>8, WriterWrites
<1>2. StatusInv /\ [Next]_vars =>
        [\A p \in Procs :
           LET sweeps == Writes(p, "sweep")
               patches == Writes(p, "patch")
           IN  row' # row /\ Writes(p, Kind(p)) =>
                 /\ row.status = "disabled" => patches
                 /\ sweeps /\ row'.status = "unreachable" /\ row.status # "unreachable"
                      => row'.fails >= Threshold \/ p \in crossed
                 /\ row'.status = "active" /\ row.status # "active" /\ ~patches
                      => local[p].answer = "ok"]_vars
  BY <1>1 DEF Writes
<1>3. QED
  BY <1>2, InitStatusInv, StatusInvStep, PTL DEF Spec, StatusIsEarned

-----------------------------------------------------------------------------
(* Names.                                                                  *)

\* The node has moved and the row does not say so yet.
Unwritten(p) == At(p, "write") /\ Kind(p) = "rotate"

\* What a process has read and has been answered is true.
Current(p) ==
    LET l == local[p] IN
    /\ Kind(p) \in {"status", "sync", "rotate", "patch"}
         => l.row.host = row.host /\ l.row.zone = row.zone
    /\ Kind(p) \in {"status", "sync"} /\ pc[p] \in {"resolve", "write"} /\ l.answer = "ok"
         => l.host = node.host
    /\ Kind(p) = "sync" /\ At(p, "write") => l.zone \in zones \cup {row.zone}
    /\ Kind(p) = "rotate" /\ pc[p] \in {"call", "write"} => l.zone \in zones
    /\ Unwritten(p) => l.host = node.host
    /\ Kind(p) = "patch" /\ At(p, "write") => req[p].zone \in zones \cup {Keep}
    /\ Kind(p) = "delete_zone" => req[p].zone # row.zone

CurrentInv == \A p \in Procs : InFlight(p) /\ p \notin stale => Current(p)

RowInv ==
    ~excused /\ (\A p \in Procs : ~Unwritten(p)) => row.host = node.host /\ row.zone \in zones

NamesInv == TypeInv /\ CurrentInv /\ RowInv

LEMMA InitNamesInv == Init => NamesInv
<1>1. SUFFICES ASSUME Init PROVE NamesInv
  OBVIOUS
<1>2. \A p \in Procs : ~InFlight(p)
  BY <1>1 DEF Init, InFlight
<1>3. RowInv
  BY <1>1, ZoneAssumption DEF Init, RowInv, Fresh
<1>4. QED
  BY <1>1, <1>2, <1>3, InitTypeInv DEF NamesInv, CurrentInv

\* What others know stays true, or they are marked.
LEMMA OthersCurrent ==
    ASSUME TypeOK, CurrentInv, NEW p \in Procs, OthersKept(p),
           Outdated(p) \/ UNCHANGED <<row, zones, node, stale>>
    PROVE  \A q \in Procs \ {p} : InFlight(q)' /\ q \notin stale' => Current(q)'
<1>1. SUFFICES ASSUME NEW q \in Procs \ {p}, InFlight(q)', q \notin stale'
               PROVE  Current(q)'
  OBVIOUS
<1>2. InFlight(q) /\ pc'[q] = pc[q] /\ req'[q] = req[q] /\ local'[q] = local[q]
  BY <1>1 DEF OthersKept, InFlight
<1>3. Names' = Names /\ q \notin stale
  BY <1>1, <1>2 DEF Outdated, Names
<1>4. row'.host = row.host /\ row'.zone = row.zone /\ node'.host = node.host /\ zones' = zones
  BY <1>3 DEF Names
<1>5. Current(q)
  BY <1>2, <1>3 DEF CurrentInv
<1>6. QED
  BY <1>2, <1>4, <1>5 DEF Current, Unwritten, Kind, At

\* A process that starts knows what it has just read.
LEMMA ReadNames ==
    ASSUME NamesInv, NEW p \in Procs, ~InFlight(p), NEW asked, NEW first, Read(p, asked, first),
           UNCHANGED <<tables, node, ghosts>>,
           asked.kind \in {"status", "sync", "rotate"} => first \in {"call", "pick"},
           asked.kind = "rotate" => first = "pick",
           asked.kind = "patch" /\ first = "write" => asked.zone = Keep,
           asked.kind = "delete_zone" => asked.zone # row.zone
    PROVE  CurrentInv' /\ RowInv'
<1>1. TypeOK /\ local[p] \in Locals /\ row \in Row /\ Fresh \in Row
  BY BlankType DEF NamesInv, TypeInv, TypeOK
<1>2. /\ OthersKept(p) /\ pc'[p] = first /\ req'[p] = asked
      /\ local'[p] = [local[p] EXCEPT !.row = Used(asked.kind)]
  BY <1>1, ReadOthers
<1>3. local'[p].row = Used(asked.kind)
  BY <1>1, <1>2 DEF Locals
<1>4. asked.kind \in {"status", "sync", "rotate", "patch"}
        => Used(asked.kind).host = row.host /\ Used(asked.kind).zone = row.zone
  BY <1>1 DEF Used, Row
<1>5. Current(p)'
  BY <1>2, <1>3, <1>4 DEF Current, Unwritten, Kind, At, tables
<1>6. CurrentInv'
  BY <1>1, <1>2, <1>5, OthersCurrent DEF NamesInv, CurrentInv, tables, ghosts
<1>7. \A q \in Procs : Unwritten(q)' <=> Unwritten(q)
  BY <1>2 DEF Unwritten, At, Kind, OthersKept, InFlight
<1>8. RowInv'
  BY <1>7 DEF NamesInv, RowInv, tables, ghosts
<1>9. QED
  BY <1>6, <1>8

LEMMA OthersUnwritten ==
    ASSUME NEW p \in Procs, OthersKept(p), NEW q \in Procs \ {p}
    PROVE  Unwritten(q)' <=> Unwritten(q)
BY DEF OthersKept, Unwritten, At, Kind

\* Nothing has happened to the names.
LEMMA RowKept ==
    ASSUME RowInv, NEW p \in Procs, OthersKept(p), ~Unwritten(p), excused => excused',
           row'.host = row.host, row'.zone = row.zone, zones \subseteq zones', node'.host = node.host
    PROVE  RowInv'
<1>1. SUFFICES ASSUME ~excused', \A q \in Procs : ~(Unwritten(q))'
               PROVE  row'.host = node'.host /\ row'.zone \in zones'
  BY DEF RowInv
<1>2. ~excused /\ \A q \in Procs : ~Unwritten(q)
  BY <1>1, OthersUnwritten
<1>3. QED
  BY <1>2 DEF RowInv

\* A process that waits for nothing more leaves the others to be looked at.
LEMMA EndCurrent ==
    ASSUME NamesInv, NEW p \in Procs, End(p), OthersKept(p), Outdated(p)
    PROVE  CurrentInv'
<1>1. TypeOK /\ CurrentInv
  BY DEF NamesInv, TypeInv
<1>2. ~InFlight(p)'
  BY <1>1, EndOthers
<1>3. QED
  BY <1>1, <1>2, OthersCurrent DEF CurrentInv

\* A process that has neither moved the node nor written.
LEMMA QuietNames ==
    ASSUME NamesInv, NEW p \in Procs, OthersKept(p), ~Unwritten(p),
           UNCHANGED <<tables, node, ghosts>>, End(p) \/ (p \notin stale => Current(p)')
    PROVE  CurrentInv' /\ RowInv'
<1>1. TypeOK /\ CurrentInv /\ RowInv
  BY DEF NamesInv, TypeInv
<1>2. RowInv'
  BY <1>1, RowKept DEF tables, ghosts
<1>3. InFlight(p)' => ~End(p)
  BY <1>1, EndOthers
<1>4. CurrentInv'
  BY <1>1, <1>3, OthersCurrent DEF CurrentInv, tables, ghosts
<1>5. QED
  BY <1>2, <1>4

LEMMA PickNames ==
    ASSUME NamesInv, NEW p \in Procs, Pick(p), OthersKept(p)
    PROVE  CurrentInv' /\ RowInv'
<1>1. TypeOK /\ Kind(p) = "rotate" /\ local[p] \in Locals /\ InFlight(p) /\ ~Unwritten(p)
  BY DEF NamesInv, TypeInv, TypeOK, KindInv, Pick, At, InFlight, Unwritten
<1>2. CASE End(p)
  BY <1>1, <1>2, QuietNames DEF Pick
<1>3. CASE \E zone \in zones \ {local[p].row.zone} :
             local' = [local EXCEPT ![p].zone = zone] /\ GoTo(p, "call") /\ UNCHANGED req
  <2>1. PICK zone \in zones :
          local' = [local EXCEPT ![p].zone = zone] /\ GoTo(p, "call") /\ UNCHANGED req
    BY <1>3
  <2>2. local'[p].zone = zone /\ local'[p].row = local[p].row /\ pc'[p] = "call"
        /\ req'[p] = req[p]
    BY <1>1, <2>1 DEF GoTo, TypeOK, Locals
  <2>3. UNCHANGED <<row, zones>>
    BY DEF Pick, tables
  <2>4. p \notin stale => Current(p)'
    BY <1>1, <2>2, <2>3 DEF NamesInv, CurrentInv, Current, Unwritten, Kind, At
  <2>5. QED
    BY <1>1, <2>4, QuietNames DEF Pick
<1>4. QED
  BY <1>2, <1>3 DEF Pick

LEMMA CheckNames ==
    ASSUME NamesInv, NEW p \in Procs, Check(p), OthersKept(p)
    PROVE  CurrentInv' /\ RowInv'
<1>1. TypeOK /\ Kind(p) = "patch" /\ InFlight(p) /\ ~Unwritten(p)
  BY DEF NamesInv, TypeInv, KindInv, Check, At, InFlight, Unwritten
<1>2. CASE End(p)
  BY <1>1, <1>2, QuietNames DEF Check
<1>3. CASE req[p].zone \in zones /\ GoTo(p, "write") /\ UNCHANGED <<req, local>>
  <2>1. pc'[p] = "write" /\ req'[p] = req[p] /\ local'[p] = local[p]
    BY <1>1, <1>3 DEF GoTo, TypeOK
  <2>2. UNCHANGED <<row, zones>>
    BY DEF Check, tables
  <2>3. p \notin stale => Current(p)'
    BY <1>1, <1>3, <2>1, <2>2 DEF NamesInv, CurrentInv, Current, Unwritten, Kind, At
  <2>4. QED
    BY <1>1, <2>3, QuietNames DEF Check
<1>4. QED
  BY <1>2, <1>3 DEF Check

LEMMA CallAgentNames ==
    ASSUME NamesInv, NEW p \in Procs, CallAgent(p), OthersKept(p)
    PROVE  CurrentInv' /\ RowInv'
<1>1. TypeOK /\ Kind(p) \in Calls \ {"rotate"} /\ local[p] \in Locals /\ InFlight(p) /\ ~Unwritten(p)
  BY DEF NamesInv, TypeInv, TypeOK, KindInv, CallAgent, At, InFlight, Unwritten
<1>2. /\ pc'[p] = IF Kind(p) = "sync" THEN "resolve" ELSE "write"
      /\ req'[p] = req[p] /\ UNCHANGED <<row, zones, node>>
  BY <1>1 DEF CallAgent, GoTo, TypeOK, tables
<1>3. local'[p].row = local[p].row
  BY <1>1 DEF CallAgent, TypeOK, Locals
<1>4. Kind(p) \in {"status", "sync"} /\ local'[p].answer = "ok" => local'[p].host = node.host
  BY <1>1 DEF CallAgent, TypeOK, Locals
<1>5. p \notin stale => Current(p)'
  BY <1>1, <1>2, <1>3, <1>4 DEF NamesInv, CurrentInv, Current, Unwritten, Kind, At, Calls
<1>6. QED
  BY <1>1, <1>5, QuietNames DEF CallAgent

LEMMA ResolveNames ==
    ASSUME NamesInv, NEW p \in Procs, Resolve(p), OthersKept(p)
    PROVE  CurrentInv' /\ RowInv'
<1>1. TypeOK /\ Kind(p) = "sync" /\ local[p] \in Locals /\ InFlight(p) /\ ~Unwritten(p)
  BY DEF NamesInv, TypeInv, TypeOK, KindInv, Resolve, At, InFlight, Unwritten
<1>2. /\ pc'[p] = "write" /\ req'[p] = req[p] /\ UNCHANGED <<row, zones, node>>
      /\ local'[p] = [local[p] EXCEPT !.zone = IF @ \in zones THEN @ ELSE local[p].row.zone]
  BY <1>1 DEF Resolve, GoTo, TypeOK, tables
<1>3. /\ local'[p].row = local[p].row /\ local'[p].answer = local[p].answer
      /\ local'[p].host = local[p].host /\ local'[p].zone \in zones \cup {local[p].row.zone}
  BY <1>1, <1>2 DEF Locals
<1>4. p \notin stale => Current(p)'
  BY <1>1, <1>2, <1>3 DEF NamesInv, CurrentInv, Current, Unwritten, Kind, At, Resolve
<1>5. QED
  BY <1>1, <1>4, QuietNames DEF Resolve

LEMMA CallRotateNames ==
    ASSUME NamesInv, NEW p \in Procs, CallRotate(p), OthersKept(p)
    PROVE  CurrentInv' /\ RowInv'
<1>1. /\ TypeOK /\ CurrentInv /\ RowInv /\ Kind(p) = "rotate" /\ local[p] \in Locals
      /\ InFlight(p) /\ ~Unwritten(p) /\ Outdated(p) /\ UNCHANGED <<row, zones>>
      /\ node \in [mode : {"direct", "cloudflare"}, host : Hosts, zone : Zones, answers : Answers]
  BY DEF NamesInv, TypeInv, TypeOK, KindInv, CallRotate, At, InFlight, Unwritten, tables
<1>2. CASE End(p) /\ UNCHANGED <<node, excused>>
  BY <1>1, <1>2, EndCurrent, RowKept
<1>3. CASE GoTo(p, "late") /\ UNCHANGED <<node, req, local, excused>>
  <2>1. pc'[p] = "late" /\ req'[p] = req[p] /\ local'[p] = local[p]
    BY <1>1, <1>3 DEF GoTo, TypeOK
  <2>2. p \notin stale' => p \notin stale
    BY <2>1 DEF CallRotate, Outdated, InFlight
  <2>3. p \notin stale' => Current(p)'
    BY <1>1, <2>1, <2>2 DEF CurrentInv, Current, Unwritten, Kind, At
  <2>4. CurrentInv'
    BY <1>1, <2>3, OthersCurrent DEF CurrentInv
  <2>5. QED
    BY <1>1, <1>3, <2>4, RowKept
<1>4. CASE node' = Moved(p) /\ GoTo(p, "write") /\ local' = [local EXCEPT ![p].host = p]
           /\ UNCHANGED <<req, excused>>
  <2>1. pc'[p] = "write" /\ req'[p] = req[p] /\ local'[p] = [local[p] EXCEPT !.host = p]
    BY <1>1, <1>4 DEF GoTo, TypeOK
  <2>2. local'[p].row = local[p].row /\ local'[p].host = p /\ local'[p].zone = local[p].zone
    BY <1>1, <2>1 DEF Locals
  <2>3. node'.host = p
    BY <1>1, <1>4 DEF Moved
  <2>4. p \notin stale' => p \notin stale
    BY <2>1 DEF CallRotate, Outdated, InFlight
  <2>5. p \notin stale' => Current(p)'
    BY <1>1, <2>1, <2>2, <2>3, <2>4 DEF CurrentInv, Current, Unwritten, Kind, At, CallRotate
  <2>6. CurrentInv'
    BY <1>1, <2>5, OthersCurrent DEF CurrentInv
  <2>7. Unwritten(p)'
    BY <1>1, <2>1 DEF Unwritten, At, Kind
  <2>8. QED
    BY <2>6, <2>7 DEF RowInv
<1>5. QED
  BY <1>2, <1>3, <1>4 DEF CallRotate

LEMMA LateNames ==
    ASSUME NamesInv, NEW p \in Procs, Late(p), OthersKept(p)
    PROVE  CurrentInv' /\ RowInv'
BY EndCurrent DEF Late, RowInv

\* A sweep or a healthcheck, and a status that found nobody, leave the names alone.
LEMMA UpdateNames ==
    ASSUME row \in Row, NEW new, Update(new), new.host = row.host, new.zone = row.zone
    PROVE  row'.host = row.host /\ row'.zone = row.zone
BY DEF Update

LEMMA WriteSweepNames ==
    ASSUME NamesInv, NEW p \in Procs, WriteSweep(p) \/ WriteHealthcheck(p), OthersKept(p)
    PROVE  CurrentInv' /\ RowInv'
<1>1. TypeOK /\ RowInv /\ row \in Row /\ ~Unwritten(p) /\ local[p].answer \in {"ok", "config", "transport"}
  BY DEF NamesInv, TypeInv, TypeOK, WriteSweep, WriteHealthcheck, Unwritten, Locals, Answers
<1>2. /\ SweepUpdate(local[p]).host = row.host /\ SweepUpdate(local[p]).zone = row.zone
      /\ [row EXCEPT !.status = "active", !.fails = 0].host = row.host
      /\ [row EXCEPT !.status = "active", !.fails = 0].zone = row.zone
  BY <1>1 DEF SweepUpdate, Row
<1>3. row'.host = row.host /\ row'.zone = row.zone
  BY <1>1, <1>2, UpdateNames DEF WriteSweep, WriteHealthcheck
<1>4. RowInv'
  BY <1>1, <1>3, RowKept DEF WriteSweep, WriteHealthcheck
<1>5. CurrentInv'
  BY EndCurrent DEF WriteSweep, WriteHealthcheck
<1>6. QED
  BY <1>4, <1>5

\* What the columns that follow the agent are set to.
LEMMA RuntimeNames ==
    ASSUME TypeOK, NEW p \in Procs
    PROVE  /\ node.mode = "direct" => Runtime(p).host = local[p].host /\ Runtime(p).zone = local[p].zone
           /\ node.mode # "direct" => /\ Runtime(p).host = local[p].row.host
                                      /\ Runtime(p).zone = local[p].row.zone
BY DEF TypeOK, Row, Runtime

LEMMA WriteStatusNames ==
    ASSUME NamesInv, NEW p \in Procs, WriteStatus(p), OthersKept(p)
    PROVE  CurrentInv' /\ RowInv'
<1>0. SUFFICES RowInv'
  BY EndCurrent DEF WriteStatus
<1>1. /\ TypeOK /\ RowInv /\ row \in Row /\ ~Unwritten(p) /\ UNCHANGED <<zones, node>>
      /\ Kind(p) = "status" /\ At(p, "write") /\ InFlight(p)
  BY DEF NamesInv, TypeInv, TypeOK, WriteStatus, Unwritten, At, InFlight
<1>2. p \notin stale => Current(p)
  BY <1>1 DEF NamesInv, CurrentInv
<1>3. CASE UNCHANGED <<row, excused>>
  BY <1>1, <1>3, RowKept
<1>4. CASE Update([row EXCEPT !.status = "unreachable"]) /\ UNCHANGED excused
  <2>1. row'.host = row.host /\ row'.zone = row.zone
    BY <1>1, <1>4, UpdateNames DEF Row
  <2>2. QED
    BY <1>1, <1>4, <2>1, RowKept
<1>5. CASE /\ local[p].answer = "ok" /\ Update(Runtime(p))
           /\ excused' = IF row.status # "disabled" /\ node.mode = "direct" /\ p \notin stale
                         THEN local[p].zone \notin zones
                         ELSE excused \/ p \in stale
  <2>1. CASE row.status = "disabled"
    BY <1>1, <1>5, <2>1, RowKept DEF Update
  <2>2. CASE row.status # "disabled" /\ p \in stale
    BY <1>5, <2>2 DEF RowInv
  <2>3. CASE row.status # "disabled" /\ p \notin stale /\ node.mode = "direct"
    <3>1. row'.host = local[p].host /\ row'.zone = local[p].zone
      BY <1>1, <1>5, <2>3, RuntimeNames DEF Update
    <3>2. local[p].host = node.host
      BY <1>1, <1>2, <1>5, <2>3 DEF Current, At
    <3>3. QED
      BY <1>1, <1>5, <2>3, <3>1, <3>2 DEF RowInv
  <2>4. CASE row.status # "disabled" /\ p \notin stale /\ node.mode # "direct"
    <3>1. row'.host = row.host /\ row'.zone = row.zone
      BY <1>1, <1>2, <1>5, <2>4, RuntimeNames DEF Update, Current
    <3>2. QED
      BY <1>1, <1>5, <2>4, <3>1, RowKept
  <2>5. QED
    BY <2>1, <2>2, <2>3, <2>4
<1>6. QED
  BY <1>3, <1>4, <1>5 DEF WriteStatus

LEMMA WriteSyncNames ==
    ASSUME NamesInv, NEW p \in Procs, WriteSync(p), OthersKept(p)
    PROVE  CurrentInv' /\ RowInv'
<1>0. SUFFICES RowInv'
  BY EndCurrent DEF WriteSync
<1>1. /\ TypeOK /\ RowInv /\ row \in Row /\ ~Unwritten(p) /\ UNCHANGED <<zones, node>>
      /\ Kind(p) = "sync" /\ At(p, "write") /\ InFlight(p)
  BY DEF NamesInv, TypeInv, TypeOK, WriteSync, Unwritten, At, InFlight
<1>2. p \notin stale => Current(p)
  BY <1>1 DEF NamesInv, CurrentInv
<1>3. CASE UNCHANGED <<row, excused>>
  BY <1>1, <1>3, RowKept
<1>4. CASE local[p].answer = "ok" /\ Update(Runtime(p)) /\ excused' = (excused \/ p \in stale)
  <2>1. CASE row.status = "disabled"
    BY <1>1, <1>4, <2>1, RowKept DEF Update
  <2>2. CASE p \in stale
    BY <1>4, <2>2 DEF RowInv
  <2>3. CASE row.status # "disabled" /\ p \notin stale /\ node.mode = "direct"
    <3>1. row'.host = local[p].host /\ row'.zone = local[p].zone
      BY <1>1, <1>4, <2>3, RuntimeNames DEF Update
    <3>2. local[p].host = node.host /\ local[p].zone \in zones \cup {row.zone}
      BY <1>1, <1>2, <1>4, <2>3 DEF Current, At
    <3>3. SUFFICES ASSUME ~excused', \A q \in Procs : ~(Unwritten(q))'
                   PROVE  row'.zone \in zones'
      BY <1>1, <3>1, <3>2 DEF RowInv
    <3>4. ~excused /\ \A q \in Procs : ~Unwritten(q)
      BY <1>1, <1>4, <3>3, OthersUnwritten
    <3>5. QED
      BY <1>1, <3>1, <3>2, <3>4 DEF RowInv
  <2>4. CASE row.status # "disabled" /\ p \notin stale /\ node.mode # "direct"
    <3>1. row'.host = row.host /\ row'.zone = row.zone
      BY <1>1, <1>2, <1>4, <2>4, RuntimeNames DEF Update, Current
    <3>2. QED
      BY <1>1, <1>4, <2>4, <3>1, RowKept
  <2>5. QED
    BY <2>1, <2>2, <2>3, <2>4
<1>5. QED
  BY <1>3, <1>4 DEF WriteSync

LEMMA WriteRotateNames ==
    ASSUME NamesInv, NEW p \in Procs, WriteRotate(p), OthersKept(p)
    PROVE  CurrentInv' /\ RowInv'
<1>0. SUFFICES RowInv'
  BY EndCurrent DEF WriteRotate
<1>1. TypeOK /\ row \in Row /\ UNCHANGED <<zones, node>> /\ Unwritten(p) /\ InFlight(p)
  BY DEF NamesInv, TypeInv, TypeOK, WriteRotate, Unwritten, At, InFlight
<1>2. CASE excused' = TRUE
  BY <1>2 DEF RowInv
<1>3. CASE /\ Update([row EXCEPT !.host = local[p].host, !.zone = local[p].zone, !.status = "active"])
           /\ row.status # "disabled" /\ p \notin stale
  <2>1. row'.host = local[p].host /\ row'.zone = local[p].zone
    BY <1>1, <1>3 DEF Update, Row
  <2>2. Current(p)
    BY <1>1, <1>3 DEF NamesInv, CurrentInv
  <2>3. local[p].host = node.host /\ local[p].zone \in zones
    BY <1>1, <2>2 DEF Current, Unwritten, At
  <2>4. QED
    BY <1>1, <2>1, <2>3 DEF RowInv
<1>4. QED
  BY <1>2, <1>3 DEF WriteRotate

LEMMA WritePatchNames ==
    ASSUME NamesInv, NEW p \in Procs, WritePatch(p), OthersKept(p)
    PROVE  CurrentInv' /\ RowInv'
<1>0. SUFFICES RowInv'
  BY EndCurrent DEF WritePatch
<1>1. /\ TypeOK /\ RowInv /\ row \in Row /\ ~Unwritten(p) /\ UNCHANGED <<zones, node>>
      /\ Kind(p) = "patch" /\ At(p, "write") /\ InFlight(p)
  BY DEF NamesInv, TypeInv, TypeOK, WritePatch, Unwritten, At, InFlight
<1>2. CASE UNCHANGED <<row, excused>>
  BY <1>1, <1>2, RowKept
<1>3. CASE p \in stale /\ excused' = (excused \/ p \in stale)
  BY <1>3 DEF RowInv
<1>4. CASE /\ row' = [row EXCEPT !.host = local[p].row.host,
                                 !.zone = Patched(req[p].zone, local[p].row.zone),
                                 !.status = Patched(req[p].status, local[p].row.status)]
           /\ excused' = (excused \/ p \in stale) /\ p \notin stale
  <2>1. Current(p)
    BY <1>1, <1>4 DEF NamesInv, CurrentInv
  <2>2. row'.host = row.host /\ row'.zone \in zones \cup {row.zone}
    BY <1>1, <1>4, <2>1 DEF Current, Patched, Row
  <2>3. SUFFICES ASSUME ~excused', \A q \in Procs : ~(Unwritten(q))'
                 PROVE  row'.host = node'.host /\ row'.zone \in zones'
    BY DEF RowInv
  <2>4. ~excused /\ \A q \in Procs : ~Unwritten(q)
    BY <1>1, <1>4, <2>3, OthersUnwritten
  <2>5. QED
    BY <1>1, <2>2, <2>4 DEF RowInv
<1>5. QED
  BY <1>2, <1>3, <1>4 DEF WritePatch

LEMMA WriteZoneNames ==
    ASSUME NamesInv, NEW p \in Procs, WriteZone(p), OthersKept(p)
    PROVE  CurrentInv' /\ RowInv'
<1>0. SUFFICES RowInv'
  BY EndCurrent DEF WriteZone
<1>1. /\ TypeOK /\ RowInv /\ ~Unwritten(p) /\ UNCHANGED <<row, node>>
      /\ Kind(p) \in {"create_zone", "delete_zone"} /\ InFlight(p)
  BY DEF NamesInv, TypeInv, WriteZone, Unwritten, At, InFlight
<1>2. CASE UNCHANGED <<zones, excused>>
  BY <1>1, <1>2, RowKept
<1>3. CASE p \in stale /\ excused' = (excused \/ p \in stale)
  BY <1>3 DEF RowInv
<1>4. CASE Kind(p) = "create_zone" /\ zones' = zones \cup {req[p].zone} /\ (excused => excused')
  BY <1>1, <1>4, RowKept
<1>5. CASE Kind(p) = "delete_zone" /\ zones' = zones \ {req[p].zone} /\ p \notin stale
           /\ excused' = (excused \/ p \in stale)
  <2>1. req[p].zone # row.zone
    BY <1>1, <1>5 DEF NamesInv, CurrentInv, Current
  <2>2. SUFFICES ASSUME ~excused', \A q \in Procs : ~(Unwritten(q))'
                 PROVE  row'.host = node'.host /\ row'.zone \in zones'
    BY DEF RowInv
  <2>3. ~excused /\ \A q \in Procs : ~Unwritten(q)
    BY <1>1, <1>5, <2>2, OthersUnwritten
  <2>4. QED
    BY <1>1, <1>5, <2>1, <2>3 DEF RowInv
<1>6. QED
  BY <1>1, <1>2, <1>3, <1>4, <1>5 DEF WriteZone

LEMMA ArriveNames ==
    ASSUME NamesInv, NEW p \in Procs, Arrive(p)
    PROVE  CurrentInv' /\ RowInv'
<1>1. ~InFlight(p) /\ UNCHANGED <<tables, node, ghosts>>
  BY DEF Arrive, At, InFlight
<1>2. CASE \E kind \in {"status", "sync", "healthcheck"} : Read(p, [kind |-> kind], "call")
  BY <1>1, <1>2, ReadNames
<1>3. CASE Read(p, [kind |-> "rotate"], "pick")
  BY <1>1, <1>3, ReadNames
<1>4. CASE \E status \in Statuses \cup {Keep} :
             Read(p, [kind |-> "patch", status |-> status, zone |-> Keep], "write")
  BY <1>1, <1>4, ReadNames
<1>5. CASE \E zone \in Zones :
             Read(p, [kind |-> "patch", status |-> Keep, zone |-> zone], "check")
  BY <1>1, <1>5, ReadNames
<1>6. CASE \E zone \in Unused : Read(p, [kind |-> "delete_zone", zone |-> zone], "write")
  BY <1>1, <1>6, ReadNames DEF Unused
<1>7. CASE \E zone \in Zones \ zones : Read(p, [kind |-> "create_zone", zone |-> zone], "write")
  BY <1>1, <1>7, ReadNames
<1>8. QED
  BY <1>2, <1>3, <1>4, <1>5, <1>6, <1>7 DEF Arrive

LEMMA TurnNames ==
    ASSUME NamesInv, NEW answers \in Answers, Turn(answers)
    PROVE  CurrentInv' /\ RowInv'
<1>1. node'.host = node.host /\ UNCHANGED <<row, zones, pc, req, local, stale, excused>>
  BY DEF NamesInv, TypeInv, TypeOK, Turn, tables, ghosts
<1>2. CurrentInv'
  BY <1>1 DEF NamesInv, CurrentInv, Current, Unwritten, InFlight, Kind, At
<1>3. RowInv'
  BY <1>1 DEF NamesInv, RowInv, Unwritten, Kind, At
<1>4. QED
  BY <1>2, <1>3

LEMMA NamesInvStep == NamesInv /\ [Next]_vars => NamesInv'
<1>1. SUFFICES ASSUME NamesInv, [Next]_vars PROVE NamesInv'
  OBVIOUS
<1>2. TypeInv' /\ TypeOK
  BY <1>1, TypeInvStep DEF NamesInv, TypeInv
<1>3. CASE UNCHANGED vars
  BY <1>1, <1>2, <1>3 DEF NamesInv, CurrentInv, RowInv, Current, Unwritten, InFlight, Kind, At,
     vars, tables, ghosts
<1>4. ASSUME NEW p \in Procs, Sweep(p) PROVE CurrentInv' /\ RowInv'
  BY <1>1, <1>4, ReadNames DEF Sweep, At, InFlight
<1>5. ASSUME NEW p \in Procs, Arrive(p) PROVE CurrentInv' /\ RowInv'
  BY <1>1, <1>5, ArriveNames
<1>6. ASSUME NEW p \in Procs, Step(p) PROVE CurrentInv' /\ RowInv'
  <2>1. OthersKept(p)
    BY <1>2, <1>6, StepOthers
  <2>2. QED
    BY <1>1, <1>6, <2>1, PickNames, CheckNames, CallAgentNames, CallRotateNames, LateNames,
       ResolveNames, WriteSweepNames, WriteStatusNames, WriteSyncNames, WriteRotateNames,
       WritePatchNames, WriteZoneNames DEF Step
<1>7. ASSUME NEW answers \in Answers, Turn(answers) PROVE CurrentInv' /\ RowInv'
  BY <1>1, <1>7, TurnNames
<1>8. QED
  BY <1>1, <1>2, <1>3, <1>4, <1>5, <1>6, <1>7 DEF Next, NamesInv

\* When nothing is under way the row names the host the node has moved to, unless one
\* of the exceptions that nodes.ts leaves room for has happened.
THEOREM RowIsRight == Spec => []RowNamesNode
<1>1. NamesInv => RowNamesNode
  BY DEF NamesInv, RowInv, RowNamesNode, Unwritten, InFlight, At
<1>2. QED
  BY <1>1, InitNamesInv, NamesInvStep, PTL DEF Spec
=============================================================================
