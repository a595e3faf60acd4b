----------------------------- MODULE PanelNodes -----------------------------
(***************************************************************************)
(* One row of the panel's table nodes, the table zones, and everybody who  *)
(* writes them: the cron's health sweep, the status, sync, healthcheck,    *)
(* rotate and patch routes (panel/worker/src/routes/nodes.ts) and the      *)
(* creation and deletion of zones (routes/zones.ts).                       *)
(*                                                                         *)
(* A route reads, awaits its caller or the agent, and writes; D1 has no    *)
(* transaction around that, and any two of them may overlap, two sweeps    *)
(* included.  What the agent does in a rotation is NodeRotate.             *)
(*                                                                         *)
(* Left out: the creation and deletion of the row itself, disabled zones,  *)
(* host names an operator types, the columns that only ever follow the     *)
(* agent (addresses, keys, XHTTP, H3), and the events a sweep logs.        *)
(*                                                                         *)
(* An operator whose name ends in _<slip> is the definition after it with  *)
(* a plausible slip.                                                       *)
(***************************************************************************)
EXTENDS Naturals, FiniteSets

CONSTANTS
    Requests,   \* requests of any kind; also the host names rotations make
    Watchers,   \* crons, which sweep again and again
    Zones, Home,    \* DNS zones, and the one the node starts in
    Old,        \* the host name it starts with
    Keep,       \* a field that a patch does not have
    MaxFaults   \* bound on the failures of the environment

Procs == Requests \cup Watchers

ASSUME ProcsAssumption  == Requests \cap Watchers = {} /\ Old \notin Requests
ASSUME ZoneAssumption   == Home \in Zones /\ Keep \notin Zones
ASSUME FaultsAssumption == MaxFaults \in Nat

VARIABLES
    row,        \* D1: the node's vpn_host, zone, status and what sweeps found
    zones,      \* D1: the table zones
    node,       \* the node's mode, host name and zone; how its agent answers
    pc,         \* process -> its next step
    req,        \* process -> what was asked
    local,      \* process -> the row as it read it, then the agent's answer
    stale,      \* processes that have read names or zones that changed since
    crossed,    \* sweeps under way since before a success was written
    excused,    \* something has happened after which the row may not name the node
    faults      \* failures of the environment so far

tables == <<row, zones>>
ghosts == <<stale, crossed, excused>>
vars == <<tables, node, pc, req, local, ghosts, faults>>

\* UNREACHABLE_AFTER_FAILURES; nothing tells failures beyond Most apart.
Threshold == 2
Most == 3

Hosts == Requests \cup {Old}
Statuses == {"active", "unreachable", "disabled"}
Answers == {"ok", "transport", "config"}
Row == [host : Hosts, zone : Zones, status : Statuses, fails : 0..Most]
Calls == {"status", "sync", "healthcheck", "rotate", "sweep"}

Fresh == [host |-> Old, zone |-> Home, status |-> "active", fails |-> 0]
Nothing == [kind |-> "none"]
Blank == [row |-> Fresh, answer |-> "ok", host |-> Old, zone |-> Home]

Init ==
    /\ row = Fresh
    /\ zones = Zones
    /\ \E mode \in {"direct", "cloudflare"} :
         node = [mode |-> mode, host |-> Old, zone |-> Home, answers |-> "ok"]
    /\ pc = [p \in Procs |-> "idle"]
    /\ req = [p \in Procs |-> Nothing]
    /\ local = [p \in Procs |-> Blank]
    /\ stale = {} /\ crossed = {} /\ excused = FALSE
    /\ faults = 0

NoFault == faults' = faults
Fault == faults < MaxFaults /\ faults' = faults + 1

At(p, step) == pc[p] = step
GoTo(p, step) == pc' = [pc EXCEPT ![p] = step]
Kind(p) == req[p].kind
InFlight(p) == pc[p] \notin {"idle", "done"}
End(p) ==
    /\ GoTo(p, IF p \in Watchers THEN "idle" ELSE "done")
    /\ req' = [req EXCEPT ![p] = Nothing] /\ local' = [local EXCEPT ![p] = Blank]

Names == <<row.host, row.zone, node.host, node.zone, zones>>

\* Who else is under way when names, zones or the node have changed.
Outdated(p) ==
    LET changed == Names' # Names
    IN  stale' = {q \in stale : q # p \/ InFlight(q)'}
                   \cup IF changed THEN {q \in Procs \ {p} : InFlight(q)} ELSE {}

-----------------------------------------------------------------------------
(* What a route does before it calls the agent or writes.                  *)

\* What is made use of in the row it has read.
Used(kind) ==
    CASE kind = "sweep" -> [Fresh EXCEPT !.status = row.status, !.fails = row.fails]
      [] kind \in {"status", "sync", "rotate"} -> [Fresh EXCEPT !.host = row.host, !.zone = row.zone]
      [] kind = "patch" -> [row EXCEPT !.fails = 0]
      [] OTHER -> Fresh

Read(p, asked, first) ==
    /\ req' = [req EXCEPT ![p] = asked]
    /\ local' = [local EXCEPT ![p].row = Used(asked.kind)]
    /\ GoTo(p, first)

\* The sweep passes over a disabled node.
Sweep(p) ==
    /\ At(p, "idle") /\ row.status # "disabled"
    /\ Read(p, [kind |-> "sweep"], "call")
    /\ NoFault /\ UNCHANGED <<tables, node, ghosts>>

\* Nobody counts.
Unused_unchecked == Zones

\* deleteZone counts the nodes that are in the zone.
Unused == Zones \ {row.zone}

Arrive(r) ==
    /\ r \in Requests /\ At(r, "idle")
    /\ \/ \E kind \in {"status", "sync", "healthcheck"} : Read(r, [kind |-> kind], "call")
       \/ Read(r, [kind |-> "rotate"], "pick")
       \/ \E status \in Statuses \cup {Keep} :
            Read(r, [kind |-> "patch", status |-> status, zone |-> Keep], "write")
       \/ \E zone \in Zones :
            Read(r, [kind |-> "patch", status |-> Keep, zone |-> zone], "check")
       \/ \E zone \in Unused : Read(r, [kind |-> "delete_zone", zone |-> zone], "write")
       \/ \E zone \in Zones \ zones : Read(r, [kind |-> "create_zone", zone |-> zone], "write")
    /\ NoFault /\ UNCHANGED <<tables, node, ghosts>>

\* nodeRotateCore: an enabled zone other than the node's.
Pick(r) ==
    /\ At(r, "pick")
    /\ \/ \E zone \in zones \ {local[r].row.zone} :
            local' = [local EXCEPT ![r].zone = zone] /\ GoTo(r, "call") /\ UNCHANGED req
       \/ zones \subseteq {local[r].row.zone} /\ End(r)
    /\ NoFault /\ UNCHANGED <<tables, node, ghosts>>

\* patchNode: the zone it is given has to be there.
Check(r) ==
    /\ At(r, "check")
    /\ IF req[r].zone \in zones THEN GoTo(r, "write") /\ UNCHANGED <<req, local>> ELSE End(r)
    /\ NoFault /\ UNCHANGED <<tables, node, ghosts>>

-----------------------------------------------------------------------------
(* Calls of the agent.                                                     *)

\* An answer, which says where the node is; or none from a node that is well.
CallAgent(p) ==
    /\ At(p, "call") /\ Kind(p) # "rotate"
    /\ \/ /\ NoFault
          /\ local' = [local EXCEPT ![p] =
               IF Kind(p) \in {"status", "sync"} /\ node.answers = "ok"
               THEN [row |-> @.row, answer |-> "ok", host |-> node.host, zone |-> node.zone]
               ELSE [@ EXCEPT !.answer = node.answers]]
       \/ Fault /\ local' = [local EXCEPT ![p].answer = "transport"]
    /\ GoTo(p, IF Kind(p) = "sync" THEN "resolve" ELSE "write")
    /\ UNCHANGED <<tables, node, req, ghosts>>

\* The node has moved; or the answer says that something went wrong, and a call that
\* was given up may still move it later.
Moved(r) == [node EXCEPT !.host = r, !.zone = local[r].zone]
CallRotate(r) ==
    /\ At(r, "call") /\ Kind(r) = "rotate"
    /\ UNCHANGED <<tables, crossed>>
    /\ \/ /\ node.answers = "ok" /\ NoFault
          /\ node' = Moved(r) /\ GoTo(r, "write")
          /\ local' = [local EXCEPT ![r].host = r] /\ UNCHANGED <<req, excused>>
       \/ node.answers = "ok" /\ Fault /\ GoTo(r, "late") /\ UNCHANGED <<node, req, local, excused>>
       \/ node.answers # "ok" /\ NoFault /\ End(r) /\ UNCHANGED <<node, excused>>
    /\ Outdated(r)

Late(r) ==
    /\ At(r, "late")
    /\ NoFault /\ UNCHANGED <<tables, crossed>>
    /\ node' \in {node, Moved(r)} /\ excused' = TRUE
    /\ End(r) /\ Outdated(r)

\* nodeSyncCore: the zone of the host the agent answered, if the table has it.
Resolve(r) ==
    /\ At(r, "resolve")
    /\ local' = [local EXCEPT ![r].zone = IF @ \in zones THEN @ ELSE local[r].row.zone]
    /\ GoTo(r, "write")
    /\ NoFault /\ UNCHANGED <<tables, node, req, ghosts>>

-----------------------------------------------------------------------------
(* Writes.                                                                 *)

\* The WHERE clause has just the id.
Update_always(r) == row' = r

\* Every UPDATE but that of a patch has AND status != 'disabled'.
Update(r) == row' = IF row.status = "disabled" THEN row ELSE r

\* Sweeps that a success crosses.
Success(p) == crossed' = (crossed \cup {q \in Procs : InFlight(q) /\ Kind(q) = "sweep"}) \ {p}

Incremented(n) == IF n < Most THEN n + 1 ELSE n

\* The flip is announced once.
Flips_once(read) == Incremented(read.fails) = Threshold /\ read.status # "unreachable"

\* The row the sweep has read decides; the counter is incremented in SQL.
Flips(read) == Incremented(read.fails) >= Threshold /\ read.status # "unreachable"

SweepUpdate(l) ==
    CASE l.answer = "ok" -> [row EXCEPT !.status = "active", !.fails = 0]
      [] l.answer = "config" -> [row EXCEPT !.fails = Incremented(@)]
      [] l.answer = "transport" ->
           [row EXCEPT !.fails = Incremented(@),
                       !.status = IF Flips(l.row) THEN "unreachable" ELSE @]

\* One batch for the sweep; the next one starts over if it fails.
WriteSweep(p) ==
    /\ At(p, "write") /\ Kind(p) = "sweep"
    /\ \/ /\ NoFault /\ Update(SweepUpdate(local[p]))
          /\ IF local[p].answer = "ok" THEN Success(p) ELSE crossed' = crossed \ {p}
       \/ Fault /\ UNCHANGED row /\ crossed' = crossed \ {p}
    /\ UNCHANGED <<zones, node, excused>>
    /\ End(p) /\ Outdated(p)

\* persistNodeRuntime: names and zone come from the agent in direct mode, and from
\* the row as it was read in the other.
Runtime(p) ==
    LET from == IF node.mode = "direct" THEN local[p] ELSE local[p].row
    IN  [row EXCEPT !.status = "active", !.host = from.host, !.zone = from.zone]

\* nodeStatus.  A write that fails is taken for a node that failed.
WriteStatus(p) ==
    LET l == local[p]
        unreachable == [row EXCEPT !.status = "unreachable"]
    IN
    /\ At(p, "write") /\ Kind(p) = "status"
    /\ \/ /\ l.answer = "ok" /\ NoFault /\ Update(Runtime(p))
          /\ excused' = IF row.status # "disabled" /\ node.mode = "direct" /\ p \notin stale
                       THEN l.zone \notin zones
                       ELSE excused \/ p \in stale
       \/ /\ l.answer = "ok" /\ Fault
          /\ (Update(unreachable) \/ UNCHANGED row) /\ UNCHANGED excused
       \/ l.answer = "transport" /\ NoFault /\ Update(unreachable) /\ UNCHANGED excused
       \/ l.answer = "transport" /\ Fault /\ UNCHANGED <<row, excused>>
       \/ l.answer = "config" /\ NoFault /\ UNCHANGED <<row, excused>>
    /\ UNCHANGED <<zones, node, crossed>>
    /\ End(p) /\ Outdated(p)

\* nodeSyncCore and nodeHealthcheck write nothing when the call has failed.
WriteSync(r) ==
    /\ At(r, "write") /\ Kind(r) = "sync"
    /\ \/ local[r].answer = "ok" /\ NoFault /\ Update(Runtime(r)) /\ excused' = (excused \/ r \in stale)
       \/ (IF local[r].answer = "ok" THEN Fault ELSE NoFault) /\ UNCHANGED <<row, excused>>
    /\ UNCHANGED <<zones, node, crossed>>
    /\ End(r) /\ Outdated(r)

WriteHealthcheck(r) ==
    LET healthy == [row EXCEPT !.status = "active", !.fails = 0] IN
    /\ At(r, "write") /\ Kind(r) = "healthcheck"
    /\ \/ local[r].answer = "ok" /\ NoFault /\ Update(healthy) /\ Success(r)
       \/ (IF local[r].answer = "ok" THEN Fault ELSE NoFault) /\ UNCHANGED <<row, crossed>>
    /\ UNCHANGED <<zones, node, excused>>
    /\ End(r) /\ Outdated(r)

\* nodeRotateCore: an UPDATE that finds the node disabled changes nothing, and the
\* answer is ok.  One that throws is told.
WriteRotate(r) ==
    LET l == local[r] IN
    /\ At(r, "write") /\ Kind(r) = "rotate"
    /\ \/ /\ NoFault
          /\ Update([row EXCEPT !.host = l.host, !.zone = l.zone, !.status = "active"])
          /\ excused' = (excused \/ r \in stale \/ row.status = "disabled")
       \/ Fault /\ UNCHANGED row /\ excused' = TRUE
    /\ UNCHANGED <<zones, node, crossed>>
    /\ End(r) /\ Outdated(r)

\* What is missing in a patch is bound as it is.
Patched_bare(asked, was) == asked

Patched(asked, was) == IF asked = Keep THEN was ELSE asked

\* patchNode writes what it has been given, and for the rest what it has read.
WritePatch(r) ==
    LET was == local[r].row
        asked == req[r]
    IN
    /\ At(r, "write") /\ Kind(r) = "patch"
    /\ \/ /\ NoFault
          /\ row' = [row EXCEPT !.host = was.host,
                                !.zone = Patched(asked.zone, was.zone),
                                !.status = Patched(asked.status, was.status)]
          /\ excused' = (excused \/ r \in stale)
       \/ Fault /\ UNCHANGED <<row, excused>>
    /\ UNCHANGED <<zones, node, crossed>>
    /\ End(r) /\ Outdated(r)

\* createZone and deleteZone, the second of their two statements.
WriteZone(r) ==
    /\ At(r, "write") /\ Kind(r) \in {"create_zone", "delete_zone"}
    /\ UNCHANGED <<row, node, crossed>>
    /\ \/ /\ NoFault /\ excused' = (excused \/ r \in stale)
          /\ zones' = IF Kind(r) = "create_zone" THEN zones \cup {req[r].zone}
                                                 ELSE zones \ {req[r].zone}
       \/ Fault /\ UNCHANGED <<zones, excused>>
    /\ End(r) /\ Outdated(r)

\* The node, or the way to it, breaks down, is misconfigured, is well again.
Turn(answers) ==
    /\ answers # node.answers
    /\ IF answers = "ok" THEN NoFault ELSE Fault
    /\ node' = [node EXCEPT !.answers = answers]
    /\ UNCHANGED <<tables, pc, req, local, ghosts>>

-----------------------------------------------------------------------------
Step(p) ==
    \/ Pick(p) \/ Check(p) \/ CallAgent(p) \/ CallRotate(p) \/ Late(p) \/ Resolve(p)
    \/ WriteSweep(p) \/ WriteStatus(p) \/ WriteSync(p) \/ WriteHealthcheck(p)
    \/ WriteRotate(p) \/ WritePatch(p) \/ WriteZone(p)

Next ==
    \/ \E p \in Procs : Sweep(p) \/ Arrive(p) \/ Step(p)
    \/ \E answers \in Answers : Turn(answers)

\* A Worker goes on, and the cron sweeps every five minutes.
Fairness ==
    /\ \A p \in Procs : WF_vars(Step(p))
    /\ \A w \in Watchers : WF_vars(Sweep(w))

Spec == Init /\ [][Next]_vars /\ Fairness

-----------------------------------------------------------------------------
(* Properties.                                                             *)

Asked ==
    [kind : Calls \cup {"none"}]
      \cup [kind : {"patch"}, status : Statuses \cup {Keep}, zone : Zones \cup {Keep}]
      \cup [kind : {"create_zone", "delete_zone"}, zone : Zones]

Steps == {"idle", "pick", "check", "call", "resolve", "late", "write", "done"}
Locals == [row : Row, answer : Answers, host : Hosts, zone : Zones]

\* The variables hold values of their types.
TypeOK ==
    /\ row \in Row /\ zones \subseteq Zones
    /\ node \in [mode : {"direct", "cloudflare"}, host : Hosts, zone : Zones, answers : Answers]
    /\ pc \in [Procs -> Steps]
    /\ req \in [Procs -> Asked]
    /\ local \in [Procs -> Locals]
    /\ stale \subseteq Procs /\ crossed \subseteq Procs
    /\ excused \in BOOLEAN
    /\ faults \in 0..MaxFaults

\* When nothing is under way the row names the host the node has moved to, in a zone
\* the panel knows, unless some answer said that a rotation may have gone wrong, a
\* writer had read what another has changed since, a rotation found the node
\* disabled, or the node reports a zone that is gone.  An ok from the status route
\* puts a direct node right.
RowNamesNode ==
    (\A p \in Procs : ~InFlight(p)) /\ ~excused =>
        row.host = node.host /\ row.zone \in zones

Writes(p, kind) == At(p, "write") /\ Kind(p) = kind /\ ~(At(p, "write"))'

\* A status changes for a reason, whoever overlaps: a node the operator has disabled
\* is left as it is until a patch; a sweep calls a node unreachable only when at
\* least two sweeps in a row have failed, unless a success was written while it
\* waited; and a node is active again only if a call of it succeeded.
StatusIsEarned ==
    [][\A p \in Procs :
         LET sweeps == Writes(p, "sweep")
             patches == Writes(p, "patch")
         IN  row' # row /\ Writes(p, Kind(p)) =>
               /\ row.status = "disabled" => patches
               /\ sweeps /\ row'.status = "unreachable" /\ row.status # "unreachable"
                    => row'.fails >= Threshold \/ p \in crossed
               /\ row'.status = "active" /\ row.status # "active" /\ ~patches
                    => local[p].answer = "ok"]_vars

\* Sweeps alone get the status right in the end, whatever has overlapped or failed: a
\* node that answers becomes active, one that does not becomes unreachable, unless it
\* is disabled.
PanelCatchesUp ==
    /\ <>[](node.answers = "ok" /\ row.status # "disabled") => <>[](row.status = "active")
    /\ <>[](node.answers = "transport" /\ row.status # "disabled")
          => <>[](row.status = "unreachable")
=============================================================================
