-------------------------- MODULE NodeFeaturesProofs --------------------------
(***************************************************************************)
(* Theorems about NodeFeatures, for any number of sessions, hosts,         *)
(* commands and failures: the variables keep their types and the lock      *)
(* guards what it should, one failure is contained, and what a command     *)
(* says it has done is done.                                               *)
(***************************************************************************)
EXTENDS NodeFeatures, WellFoundedInduction, TLAPS

-----------------------------------------------------------------------------
(* Types: what an actor keeps fits the step it is at.                      *)

Free == {"idle", "failed", "lock"}
RouteSteps == {"write_xray", "write_cfd", "restart_xray", "restart_cfd", "restore",
               "restart_old", "save_env"}
UnitSteps == {"write_units", "remove", "reload", "apply"}
CommandSteps == RouteSteps \cup UnitSteps \cup {"save_flag", "subs"}
CertSteps == {"lego", "copy_cert", "copy_key", "restore_pair"}
RenewSteps == CertSteps \cup {"reload_hy2"}
RotateSteps == CertSteps \cup {"move", "rollback", "rotate_hy2", "save_host", "subs"}

Given == [cmd : Commands]
Runs == [cmd : Commands, env : Envs, xray : XrayConfigs, cfd : BOOLEAN,
         restored : {"none", "xray", "cloudflared"}, changed : SUBSET Units,
         created : SUBSET Units, retired : BOOLEAN]
Reads == [host : Hosts]
Orders == [host : Hosts, before : Pairs]
Locals == {None} \cup Given \cup Runs \cup Reads \cup Orders

\* What p, at this step with this kept, needs.
FitsAt(p, step, kept, certificates) ==
    /\ p \in Sessions =>
        /\ step \in {"idle", "failed"} \cup CommandSteps
        /\ step = "failed" => kept \in Given
        /\ step \in CommandSteps => kept \in Runs
    /\ p = Timer =>
        /\ step \in {"idle", "lock"} \cup RenewSteps
        /\ step = "lock" => kept \in Reads
        /\ step \in RenewSteps => kept \in Orders
    /\ p = Agent =>
        /\ step \in {"idle"} \cup RotateSteps
        /\ step \in RotateSteps => kept \in Orders
    /\ step \in {"copy_cert", "copy_key"} => certificates[kept.host] = "fresh"

DataInv ==
    /\ env \in Envs /\ subs \in Envs /\ xray \in XrayConfigs /\ cfd \in BOOLEAN
    /\ xrayRun \in XrayConfigs \cup {Down} /\ cfdRun \in BOOLEAN \cup {Down}
    /\ units \in [Units -> {"gone", "old", "new"}] /\ applied \in [Units -> {"gone", "old", "new"}]
    /\ enabled \in BOOLEAN /\ store \in [Hosts -> Ages \cup {None}]
    /\ pair \in Pairs /\ hyRun \in Leaves \cup {Down}
    /\ killed \in BOOLEAN /\ wanted \in SUBSET RouteKinds
    /\ asked \in Nat /\ faults \in Nat /\ asked + faults <= MaxEvents

ControlInv ==
    /\ pc \in [Actors -> Steps] /\ local \in [Actors -> Locals]
    /\ lock \in Actors \cup {None}
    /\ \A p \in Actors : pc[p] \in Free <=> lock # p
    /\ \A p \in Actors : FitsAt(p, pc[p], local[p], store)

TypeInv == DataInv /\ ControlInv

-----------------------------------------------------------------------------
(* The routes.                                                             *)

\* Everything but XHTTP, whose command restarts only what it changed.
Most(some, all) == some \ {"xhttp"} \subseteq all
Due == env.routes \cap wanted
Busy == \E s \in Sessions : pc[s] \in RouteSteps

\* Files, services and cfvpn.env agree about the routes.
InTune ==
    /\ xray = RenderXray(env) /\ xrayRun = xray
    /\ cfd = RenderCloudflared(env) /\ cfdRun = cfd

Settled ==
    faults <= 1 =>
        /\ Most(Due, xray.routes)
        /\ xrayRun # Down => Most(Due, xrayRun.routes)
        /\ xrayRun = Down => applied["xray"] # units["xray"]
        /\ cfdRun # Down
        /\ faults = 0 => InTune

SettledInv == ~Busy => Settled

\* How far s has come while nothing has failed.
Untroubled(s) ==
    LET l == local[s]
        new == RenderXray(l.env)
    IN  /\ pc[s] \notin {"restore", "restart_old"}
        /\ Due \subseteq l.env.routes
        /\ l.xray = RenderXray(env) /\ l.cfd = RenderCloudflared(env)
        /\ xray = IF pc[s] = "write_xray" THEN l.xray ELSE new
        /\ xrayRun = IF pc[s] \in {"write_xray", "write_cfd", "restart_xray"} THEN l.xray ELSE new
        /\ cfd = IF pc[s] \in {"write_xray", "write_cfd"} THEN l.cfd
                 ELSE RenderCloudflared(l.env)
        /\ cfdRun = IF pc[s] = "save_env" THEN RenderCloudflared(l.env) ELSE l.cfd

\* On the way back after a failure.
Returning(s) ==
    LET l == local[s] IN
    /\ l.xray.routes = env.routes
    /\ pc[s] = "restart_old" => l.restored # "none" /\ xray.routes = env.routes
    /\ l.restored # "xray" => xrayRun # Down /\ Most(env.routes, xrayRun.routes)
    /\ IF l.restored = "cloudflared" THEN IsXhttp(s) ELSE cfdRun # Down

\* On the way after a failure of somebody else.
Proceeding(s) ==
    /\ cfdRun # Down
    /\ xrayRun = Down => applied["xray"] # units["xray"]
    /\ xrayRun # Down /\ (pc[s] = "save_env" => IsXhttp(s)) =>
        Most(Due \ {local[s].cmd.kind}, xrayRun.routes)

RouteAt(s) ==
    LET l == local[s] IN
    /\ l.cmd.kind \in RouteKinds \cup {"reality"}
    /\ l.env.routes \ {l.cmd.kind} = env.routes \ {l.cmd.kind}
    /\ pc[s] \in {"write_xray", "write_cfd"} => l.restored = "none"
    /\ pc[s] \in {"write_cfd", "restart_cfd"} => IsXhttp(s)
    /\ pc[s] \in {"write_cfd", "restart_xray", "restart_cfd", "save_env"} =>
        xray = RenderXray(l.env)
    /\ pc[s] \in {"restart_xray", "restart_cfd", "save_env"} /\ IsXhttp(s) =>
        cfd = RenderCloudflared(l.env)
    /\ pc[s] = "save_env" /\ ~IsXhttp(s) => xrayRun = xray
    /\ faults = 0 => Untroubled(s)
    /\ faults = 1 => IF pc[s] \in {"restore", "restart_old"} THEN Returning(s) ELSE Proceeding(s)

RouteOf(s) ==
    /\ pc[s] \in RouteSteps => RouteAt(s)
    /\ pc[s] = "failed" => faults # 0
    /\ pc[s] = "save_flag" => RenderXray(local[s].env) = RenderXray(env)

RouteInv == \A s \in Sessions : RouteOf(s)

\* The command is through but for the subscription files.
Saved(s) ==
    /\ local[s].cmd.kind # "reconcile"
    /\ local[s].cmd.kind \in RouteKinds \cup {"reality"} =>
        env = local[s].env /\ xray = RenderXray(env)
    /\ local[s].cmd.kind \in {"h3", "xhttp_direct", "reality"} => xrayRun = xray
    /\ IsXhttp(s) => cfd = RenderCloudflared(env)

SavedInv == \A s \in Sessions : pc[s] = "subs" => Saved(s)

-----------------------------------------------------------------------------
(* The units and hysteria.                                                 *)

Written(s, u) == pc[s] \in UnitSteps /\ u \in local[s].changed

UnitAt(s) ==
    /\ pc[s] = "save_flag" => local[s].changed = {}
    /\ pc[s] \in UnitSteps => local[s].cmd.kind \in {"hy2", "reconcile"}
    /\ \A u \in Units : Written(s, u) => units[u] = "new"
    /\ Written(s, "xray") => applied["xray"] # "new"
    /\ Written(s, "hysteria") => env.hy2
    /\ pc[s] \in {"remove", "reload", "apply"} \/ (pc[s] = "subs" /\ local[s].cmd.kind = "hy2") =>
        units["xray"] = "new"

\* A unit that has been written is not applied yet, and is before the command
\* that has written it ends.
UnitInv ==
    /\ units["xray"] # "new" => applied["xray"] = units["xray"]
    /\ \A s \in Sessions : UnitAt(s)
    /\ faults = 0 => \A u \in Units : units[u] # "gone" =>
        applied[u] = units[u] \/ \E s \in Sessions : Written(s, u)

\* What `hy2` has done so far; behind "reload" nothing is left but to apply units.
HysteriaAt(s) ==
    /\ pc[s] = "save_flag" => local[s].cmd.kind = "hy2" /\ local[s].env.hy2 = local[s].cmd.on
    /\ pc[s] \in UnitSteps \cup {"subs"} /\ local[s].cmd.kind = "hy2" =>
        env.hy2 = local[s].cmd.on
    /\ pc[s] = "remove" => hyRun = Down /\ ~enabled /\ ~env.hy2
    /\ pc[s] \in {"reload", "apply"} \/ (pc[s] = "subs" /\ local[s].cmd.kind = "hy2") =>
        IF env.hy2 THEN units["hysteria"] = "new" ELSE hyRun = Down /\ ~enabled

\* s stops hysteria, or is about to start it.
Changes(s) ==
    \/ pc[s] = "remove"
    \/ Written(s, "hysteria") /\ (enabled \/ "hysteria" \in local[s].created)

HysteriaInv ==
    /\ units["hysteria"] = "gone" => hyRun = Down /\ ~enabled
    /\ \A s \in Sessions : HysteriaAt(s)
    /\ faults = 0 /\ units["hysteria"] # "gone" =>
        (hyRun # Down /\ enabled) \/ \E s \in Sessions : Changes(s)

PairInv ==
    /\ faults = 0 => ~killed
    /\ \A p \in {Timer, Agent} : pc[p] \in {"restore_pair", "rollback"} => faults # 0
    /\ faults <= 1 /\ ~killed =>
        /\ (\A p \in {Timer, Agent} : pc[p] \notin {"copy_key", "restore_pair"}) =>
            pair.cert = pair.key
        /\ \A p \in {Timer, Agent} :
            /\ pc[p] \in RenewSteps \cup RotateSteps => local[p].before.cert = local[p].before.key
            /\ pc[p] = "copy_key" => pair.cert = Leaf(p)

IInv == TypeInv /\ SettledInv /\ RouteInv /\ SavedInv /\ UnitInv /\ HysteriaInv /\ PairInv

-----------------------------------------------------------------------------
(* An actor that holds the lock, step by step.                             *)

LEMMA OthersWait ==
    ASSUME TypeInv, NEW p \in Actors, lock = p, NEW q \in Actors, q # p
    PROVE  pc[q] \in Free
  BY DEF TypeInv, ControlInv

LEMMA SessionsApart ==
    /\ Timer # Agent
    /\ \A s \in Sessions : s # Timer /\ s # Agent
    /\ Sessions \subseteq Actors /\ Timer \in Actors /\ Agent \in Actors
    /\ \A p \in Actors : p # None
  BY ActorsAssumption, NoneAssumption DEF Actors

\* p takes a step; what the others keep is none of its business.
LEMMA ActorStep ==
    ASSUME TypeInv, NEW p \in Actors, NEW step \in Steps, NEW kept \in Locals,
           pc' = [pc EXCEPT ![p] = step], local' = [local EXCEPT ![p] = kept],
           lock \in {None, p}, lock' = (IF step \in Free THEN None ELSE p),
           FitsAt(p, step, kept, store')
    PROVE  ControlInv'
  <1>1. pc \in [Actors -> Steps] /\ local \in [Actors -> Locals]
    BY DEF TypeInv, ControlInv
  <1>2. pc' \in [Actors -> Steps] /\ local' \in [Actors -> Locals]
    BY <1>1
  <1>3. /\ pc'[p] = step /\ local'[p] = kept
        /\ \A q \in Actors : q # p => pc'[q] = pc[q] /\ local'[q] = local[q]
    BY <1>1
  <1>4. \A q \in Actors : q # p => pc[q] \in Free
    BY SessionsApart DEF TypeInv, ControlInv
  <1>5. lock' \in Actors \cup {None}
    OBVIOUS
  <1>6. \A q \in Actors : pc'[q] \in Free <=> lock' # q
    BY <1>3, <1>4, SessionsApart
  <1>7. ASSUME NEW q \in Actors
        PROVE  FitsAt(q, pc'[q], local'[q], store')
    <2>1. CASE q = p
      BY <2>1, <1>3
    <2>2. CASE q # p
      <3>1. FitsAt(q, pc[q], local[q], store)
        BY DEF TypeInv, ControlInv
      <3>2. pc[q] \notin {"copy_cert", "copy_key"}
        BY <2>2, <1>4 DEF Free
      <3> QED
        BY <2>2, <1>3, <3>1, <3>2 DEF FitsAt
    <2> QED
      BY <2>1, <2>2
  <1> QED
    BY <1>2, <1>5, <1>6, <1>7 DEF ControlInv

\* What the lock's holder is at and keeps.
LEMMA Holder ==
    ASSUME TypeInv, NEW p \in Actors, pc[p] \notin Free
    PROVE  /\ lock = p /\ local[p] \in Locals /\ pc[p] \in Steps
           /\ FitsAt(p, pc[p], local[p], store)
           /\ p \in Sessions => pc[p] \in CommandSteps /\ local[p] \in Runs
           /\ p \notin Sessions => local[p] \in Orders
  BY SessionsApart DEF TypeInv, ControlInv, FitsAt, Free, Actors

LEMMA GoToType ==
    ASSUME TypeInv, NEW p \in Actors, pc[p] \notin Free, NEW step \in Steps,
           step \notin Free, GoTo(p, step), FitsAt(p, step, local[p], store')
    PROVE  ControlInv'
  <1>1. lock = p /\ local[p] \in Locals
    BY Holder
  <1>2. pc' = [pc EXCEPT ![p] = step] /\ local' = local /\ lock' = lock
    BY DEF GoTo, Become
  <1>3. local' = [local EXCEPT ![p] = local[p]]
    BY <1>2 DEF TypeInv, ControlInv
  <1> QED
    BY <1>1, <1>2, <1>3, ActorStep

LEMMA FinishType ==
    ASSUME TypeInv, NEW p \in Actors, pc[p] \notin Free, Finish(p)
    PROVE  ControlInv'
  <1>1. lock = p
    BY Holder
  <1>2. /\ pc' = [pc EXCEPT ![p] = "idle"] /\ local' = [local EXCEPT ![p] = None]
        /\ lock' = None
    BY DEF Finish, Become
  <1>3. FitsAt(p, "idle", None, store')
    BY DEF FitsAt, CommandSteps, RouteSteps, UnitSteps, RenewSteps, RotateSteps, CertSteps
  <1>4. "idle" \in Steps /\ None \in Locals /\ "idle" \in Free
    BY DEF Steps, Locals, Free
  <1> QED
    BY <1>1, <1>2, <1>3, <1>4, ActorStep

LEMMA StopType ==
    ASSUME TypeInv, NEW p \in Actors, pc[p] \notin Free, Stop(p)
    PROVE  ControlInv'
  <1>1. lock = p
    BY Holder
  <1>2. CASE p \in Sessions
    <2> DEFINE kept == [cmd |-> local[p].cmd]
    <2>1. local[p] \in Runs
      BY Holder, <1>2
    <2>2. kept \in Given /\ kept \in Locals
      BY <2>1 DEF Runs, Given, Locals
    <2>3. local' = [local EXCEPT ![p] = kept] /\ pc' = [pc EXCEPT ![p] = "failed"] /\ lock' = None
      BY <1>2 DEF Stop, Become, TypeInv, ControlInv
    <2>4. FitsAt(p, "failed", kept, store')
      BY <1>2, <2>2, SessionsApart
      DEF FitsAt, CommandSteps, RouteSteps, UnitSteps, RenewSteps, RotateSteps, CertSteps
    <2>5. "failed" \in Steps /\ "failed" \in Free
      BY DEF Steps, Free
    <2> HIDE DEF kept
    <2> QED
      BY <1>1, <2>2, <2>3, <2>4, <2>5, ActorStep
  <1>3. CASE p \notin Sessions
    <2>1. /\ pc' = [pc EXCEPT ![p] = "idle"] /\ local' = [local EXCEPT ![p] = None]
          /\ lock' = None
      BY <1>3 DEF Stop, Become
    <2>2. FitsAt(p, "idle", None, store')
      BY DEF FitsAt, CommandSteps, RouteSteps, UnitSteps, RenewSteps, RotateSteps, CertSteps
    <2>3. "idle" \in Steps /\ None \in Locals /\ "idle" \in Free
      BY DEF Steps, Locals, Free
    <2> QED
      BY <1>1, <2>1, <2>2, <2>3, ActorStep
  <1> QED
    BY <1>2, <1>3

\* The step of s leaves the command it keeps, and the certificates, alone.
LEMMA CommandGoes ==
    ASSUME TypeInv, NEW s \in Sessions, pc[s] \notin Free,
           NEW step \in CommandSteps, GoTo(s, step)
    PROVE  ControlInv'
  <1>1. s \in Actors /\ local[s] \in Runs
    BY Holder, SessionsApart
  <1>2. step \in Steps /\ step \notin Free
    BY DEF Steps, Free, CommandSteps, RouteSteps, UnitSteps
  <1>3. FitsAt(s, step, local[s], store')
    BY <1>1, SessionsApart DEF FitsAt, CommandSteps, RouteSteps, UnitSteps
  <1> QED
    BY <1>1, <1>2, <1>3, GoToType

\* A step that changes what s keeps.
LEMMA CommandKeeps ==
    ASSUME TypeInv, NEW s \in Sessions, pc[s] \notin Free,
           NEW step \in CommandSteps, NEW kept \in Runs,
           pc' = [pc EXCEPT ![s] = step], local' = [local EXCEPT ![s] = kept], lock' = lock
    PROVE  ControlInv'
  <1>1. s \in Actors /\ lock = s /\ kept \in Locals
    BY Holder, SessionsApart DEF Locals
  <1>2. step \in Steps /\ step \notin Free
    BY DEF Steps, Free, CommandSteps, RouteSteps, UnitSteps
  <1>3. FitsAt(s, step, kept, store')
    BY SessionsApart DEF FitsAt, CommandSteps, RouteSteps, UnitSteps
  <1> QED
    BY <1>1, <1>2, <1>3, ActorStep

LEMMA ControlStays ==
    ASSUME TypeInv, UNCHANGED <<pc, local, lock>>, store' = store \/ lock = None
    PROVE  ControlInv'
  <1>1. ASSUME NEW p \in Actors
        PROVE  FitsAt(p, pc[p], local[p], store')
    <2>1. FitsAt(p, pc[p], local[p], store)
      BY DEF TypeInv, ControlInv
    <2>2. store' = store \/ pc[p] \notin {"copy_cert", "copy_key"}
      BY SessionsApart DEF TypeInv, ControlInv, Free
    <2> QED
      BY <2>1, <2>2 DEF FitsAt
  <1> QED
    BY <1>1 DEF TypeInv, ControlInv

-----------------------------------------------------------------------------
(* The new keypair, and what a command makes of cfvpn.env.                 *)

LEMMA LeastUnused ==
    ASSUME NEW a, NEW b, NEW c, NEW d
    PROVE  \E k \in 0..4 : k \notin {a, b, c, d} /\ \A j \in (0..4) \ {a, b, c, d} : k <= j
  <1> DEFINE free == (0..4) \ {a, b, c, d}
             Least(k) == k \in free /\ \A j \in free : k <= j
  <1>1. CASE 0 \in free
    <2>1. Least(0)
      BY <1>1
    <2> QED
      BY <2>1
  <1>2. CASE 0 \notin free /\ 1 \in free
    <2>1. Least(1)
      BY <1>2
    <2> QED
      BY <2>1
  <1>3. CASE 0 \notin free /\ 1 \notin free /\ 2 \in free
    <2>1. Least(2)
      BY <1>3
    <2> QED
      BY <2>1
  <1>4. CASE 0 \notin free /\ 1 \notin free /\ 2 \notin free /\ 3 \in free
    <2>1. Least(3)
      BY <1>4
    <2> QED
      BY <2>1
  <1>5. CASE 0 \notin free /\ 1 \notin free /\ 2 \notin free /\ 3 \notin free
    <2>1. {a, b, c, d} = {0, 1, 2, 3}
      BY <1>5
    <2>2. Least(4)
      BY <2>1
    <2> QED
      BY <2>2
  <1> QED
    BY <1>1, <1>2, <1>3, <1>4, <1>5

LEMMA FreshKeyType ==
    ASSUME DataInv
    PROVE  FreshKey \in Keys
  <1> DEFINE used == {env.key, subs.key, xray.key}
                       \cup (IF xrayRun = Down THEN {} ELSE {xrayRun.key})
             Least(k) == k \notin used /\ \A j \in Keys \ used : k <= j
  <1>1. PICK d : used = {env.key, subs.key, xray.key, d}
    <2>1. CASE xrayRun = Down
      <3>1. used = {env.key, subs.key, xray.key, xray.key}
        BY <2>1
      <3> QED
        BY <3>1
    <2>2. CASE xrayRun # Down
      <3>1. used = {env.key, subs.key, xray.key, xrayRun.key}
        BY <2>2
      <3> QED
        BY <3>1
    <2> QED
      BY <2>1, <2>2
  <1> HIDE DEF used
  <1>2. \E k \in Keys : Least(k)
    BY <1>1, LeastUnused DEF Keys
  <1> HIDE DEF Least
  <1>3. (CHOOSE k \in Keys : Least(k)) \in Keys
    BY <1>2
  <1> QED
    BY <1>3 DEF FreshKey, Least, used

LEMMA AskedType ==
    ASSUME DataInv, NEW c \in Commands
    PROVE  Asked(c) \in Envs
  <1>1. env \in Envs /\ FreshKey \in Keys
    BY FreshKeyType DEF DataInv
  <1>2. c.kind \in RouteKinds \cup {"hy2", "reality", "reconcile"} /\ c.on \in BOOLEAN
    BY DEF Commands
  <1>3. CASE c.kind = "hy2"
    <2>1. Asked(c) = [env EXCEPT !.hy2 = c.on]
      BY <1>3 DEF Asked, RouteKinds
    <2> QED
      BY <1>1, <1>2, <2>1 DEF Envs
  <1>4. CASE c.kind = "reality"
    <2>1. Asked(c) = [env EXCEPT !.key = FreshKey]
      BY <1>4 DEF Asked, RouteKinds
    <2> QED
      BY <1>1, <2>1 DEF Envs
  <1>5. CASE c.kind = "reconcile"
    BY <1>1, <1>5 DEF Asked, RouteKinds
  <1>6. CASE c.kind \in RouteKinds
    <2> DEFINE routes == IF c.on THEN env.routes \cup {c.kind} ELSE env.routes \ {c.kind}
    <2>1. Asked(c) = [env EXCEPT !.routes = routes]
      BY <1>6 DEF Asked, RouteKinds
    <2>2. routes \in SUBSET RouteKinds
      BY <1>1, <1>6 DEF Envs
    <2> HIDE DEF routes
    <2> QED
      BY <1>1, <2>1, <2>2 DEF Envs
  <1> QED
    BY <1>2, <1>3, <1>4, <1>5, <1>6

-----------------------------------------------------------------------------
(* Every action keeps the types.                                           *)

LEMMA RenderType ==
    ASSUME NEW e \in Envs
    PROVE  RenderXray(e) \in XrayConfigs /\ RenderCloudflared(e) \in BOOLEAN
  BY DEF Envs, XrayConfigs, RenderXray, RenderCloudflared

LEMMA LoadedType ==
    ASSUME DataInv
    PROVE  Loaded(pair) \in Leaves \cup {Down}
  BY DEF DataInv, Pairs, Loaded

LEMMA RunFields ==
    ASSUME NEW l \in Runs
    PROVE  /\ l.cmd \in Commands /\ l.env \in Envs /\ l.xray \in XrayConfigs /\ l.cfd \in BOOLEAN
           /\ l.restored \in {"none", "xray", "cloudflared"} /\ l.changed \in SUBSET Units
           /\ l.created \in SUBSET Units /\ l.retired \in BOOLEAN
           /\ \A r \in {"none", "xray", "cloudflared"} : [l EXCEPT !.restored = r] \in Runs
           /\ \A cs \in SUBSET Units, ns \in SUBSET Units :
                [l EXCEPT !.changed = cs, !.created = ns] \in Runs
           /\ \A cs \in SUBSET Units : [l EXCEPT !.changed = cs] \in Runs
           /\ [l EXCEPT !.retired = TRUE] \in Runs
  BY DEF Runs

\* s, at a step of its command.
LEMMA AtWork ==
    ASSUME TypeInv, NEW s \in Sessions, pc[s] \in CommandSteps
    PROVE  /\ s \in Actors /\ pc[s] \notin Free /\ lock = s /\ local[s] \in Runs /\ DataInv
           /\ local \in [Actors -> Locals] /\ pc \in [Actors -> Steps]
  BY SessionsApart DEF TypeInv, ControlInv, FitsAt, Free, CommandSteps, RouteSteps, UnitSteps

LEMMA BeginType ==
    ASSUME TypeInv, NEW s \in Sessions, NEW c \in Commands, Begin(s, c)
    PROVE  ControlInv'
  <1> DEFINE kept == [cmd |-> c, env |-> Asked(c), xray |-> xray, cfd |-> cfd, restored |-> "none",
                      changed |-> {}, created |-> {}, retired |-> FALSE]
             step == CASE c.kind = "hy2" -> "save_flag"
                       [] c.kind = "reconcile" -> "write_units"
                       [] c.kind \in RouteKinds \cup {"reality"} -> "write_xray"
  <1>1. /\ lock = None /\ lock' = s
        /\ local' = [local EXCEPT ![s] = kept] /\ pc' = [pc EXCEPT ![s] = step]
    BY DEF Begin, Become
  <1>2. kept \in Runs
    <2>1. Asked(c) \in Envs
      BY AskedType DEF TypeInv
    <2> QED
      BY <2>1 DEF Runs, TypeInv, DataInv
  <1>3. step \in {"save_flag", "write_units", "write_xray"}
    BY DEF Commands, RouteKinds
  <1> HIDE DEF kept, step
  <1>4. step \in CommandSteps /\ step \in Steps /\ step \notin Free
    BY <1>3 DEF CommandSteps, RouteSteps, UnitSteps, Steps, Free
  <1>5. FitsAt(s, step, kept, store')
    BY <1>2, <1>3, <1>4, SessionsApart DEF FitsAt
  <1> QED
    BY <1>1, <1>2, <1>4, <1>5, SessionsApart, ActorStep DEF Locals

LEMMA StartType ==
    ASSUME TypeInv, NEW s \in Sessions, NEW c \in Commands, Start(s, c)
    PROVE  TypeInv'
  <1>1. ControlInv'
    BY BeginType DEF Start
  <1>2. wanted' \in SUBSET RouteKinds
    BY DEF Start, TypeInv, DataInv
  <1>3. DataInv'
    BY <1>2, BoundsAssumption
    DEF Start, Begin, Bounded, NoFault, TypeInv, DataInv, config, running, systemd, certs
  <1> QED
    BY <1>1, <1>3 DEF TypeInv

LEMMA RerunType ==
    ASSUME TypeInv, NEW s \in Sessions, Rerun(s)
    PROVE  TypeInv'
  <1>1. local[s].cmd \in Commands
    BY SessionsApart DEF Rerun, At, TypeInv, ControlInv, FitsAt, Given
  <1>2. ControlInv'
    BY <1>1, BeginType DEF Rerun
  <1>3. DataInv'
    BY DEF Rerun, Begin, NoFault, TypeInv, DataInv, config, running, systemd, certs, history
  <1> QED
    BY <1>2, <1>3 DEF TypeInv

LEMMA WriteXrayType ==
    ASSUME TypeInv, NEW s \in Sessions, WriteXray(s)
    PROVE  TypeInv'
  <1>1. pc[s] \in CommandSteps
    BY DEF WriteXray, At, CommandSteps, RouteSteps
  <1>2. ControlInv'
    <2>1. CASE GoTo(s, IF IsXhttp(s) THEN "write_cfd" ELSE "restart_xray")
      BY <1>1, <2>1, AtWork, CommandGoes DEF CommandSteps, RouteSteps
    <2>2. CASE Fail(s)
      BY <1>1, <2>2, AtWork, StopType DEF Fail
    <2> QED
      BY <2>1, <2>2 DEF WriteXray
  <1>3. DataInv'
    <2>1. RenderXray(local[s].env) \in XrayConfigs
      BY <1>1, AtWork, RunFields, RenderType
    <2> QED
      BY <2>1, BoundsAssumption
      DEF WriteXray, GoTo, Fail, Fault, Bounded, NoFault, TypeInv, DataInv,
          running, systemd, certs, history
  <1> QED
    BY <1>2, <1>3 DEF TypeInv

LEMMA WriteCloudflaredType ==
    ASSUME TypeInv, NEW s \in Sessions, WriteCloudflared(s)
    PROVE  TypeInv'
  <1>1. pc[s] \in CommandSteps
    BY DEF WriteCloudflared, At, CommandSteps, RouteSteps
  <1>2. ControlInv'
    <2>1. PICK step \in {"restart_xray", "restore"} : GoTo(s, step)
      BY DEF WriteCloudflared
    <2> QED
      BY <1>1, <2>1, AtWork, CommandGoes DEF CommandSteps, RouteSteps
  <1>3. DataInv'
    <2>1. RenderCloudflared(local[s].env) \in BOOLEAN
      BY <1>1, AtWork, RunFields, RenderType
    <2> QED
      BY <2>1, BoundsAssumption
      DEF WriteCloudflared, GoTo, Fault, Bounded, NoFault, TypeInv, DataInv,
          running, systemd, certs, history
  <1> QED
    BY <1>2, <1>3 DEF TypeInv

LEMMA RestoreType ==
    ASSUME TypeInv, NEW s \in Sessions, pc[s] \in CommandSteps,
           NEW unit \in {"xray", "cloudflared"}, Restore(s, unit)
    PROVE  ControlInv'
  <1> DEFINE kept == [local[s] EXCEPT !.restored = unit]
  <1>1. kept \in Runs
    BY AtWork, RunFields
  <1>2. local' = [local EXCEPT ![s] = kept] /\ pc' = [pc EXCEPT ![s] = "restore"] /\ lock' = lock
    BY AtWork DEF Restore, Become
  <1>3. "restore" \in CommandSteps
    BY DEF CommandSteps, RouteSteps
  <1> HIDE DEF kept
  <1> QED
    BY <1>1, <1>2, <1>3, AtWork, CommandKeeps

LEMMA RestartXrayType ==
    ASSUME TypeInv, NEW s \in Sessions, RestartXray(s)
    PROVE  TypeInv'
  <1>1. pc[s] \in CommandSteps
    BY DEF RestartXray, At, CommandSteps, RouteSteps
  <1>2. ControlInv'
    <2>1. CASE \E step \in {"restart_cfd", "save_env"} : GoTo(s, step)
      BY <1>1, <2>1, AtWork, CommandGoes DEF CommandSteps, RouteSteps
    <2>2. CASE Restore(s, "xray")
      BY <1>1, <2>2, RestoreType
    <2> QED
      BY <2>1, <2>2 DEF RestartXray
  <1>3. DataInv'
    BY BoundsAssumption
    DEF RestartXray, GoTo, Restore, Broken, Fault, Bounded, NoFault, TypeInv, DataInv,
        config, systemd, certs, history
  <1> QED
    BY <1>2, <1>3 DEF TypeInv

LEMMA RestartCloudflaredType ==
    ASSUME TypeInv, NEW s \in Sessions, RestartCloudflared(s)
    PROVE  TypeInv'
  <1>1. pc[s] \in CommandSteps
    BY DEF RestartCloudflared, At, CommandSteps, RouteSteps
  <1>2. ControlInv'
    <2>1. CASE GoTo(s, "save_env")
      BY <1>1, <2>1, AtWork, CommandGoes DEF CommandSteps, RouteSteps
    <2>2. CASE Restore(s, "cloudflared")
      BY <1>1, <2>2, RestoreType
    <2> QED
      BY <2>1, <2>2 DEF RestartCloudflared
  <1>3. DataInv'
    BY BoundsAssumption
    DEF RestartCloudflared, GoTo, Restore, Broken, Fault, Bounded, NoFault, TypeInv, DataInv,
        config, systemd, certs, history
  <1> QED
    BY <1>2, <1>3 DEF TypeInv

LEMMA RestoreConfigsType ==
    ASSUME TypeInv, NEW s \in Sessions, RestoreConfigs(s)
    PROVE  TypeInv'
  <1>1. pc[s] \in CommandSteps
    BY DEF RestoreConfigs, At, CommandSteps, RouteSteps
  <1>2. GoTo(s, "restart_old") \/ Fail(s)
    BY DEF RestoreConfigs
  <1>3. ControlInv'
    <2>1. CASE GoTo(s, "restart_old")
      BY <1>1, <2>1, AtWork, CommandGoes DEF CommandSteps, RouteSteps
    <2>2. CASE Fail(s)
      BY <1>1, <2>2, AtWork, StopType DEF Fail
    <2> QED
      BY <1>2, <2>1, <2>2
  <1>4. killed' = killed
    BY <1>2 DEF GoTo, Fail
  <1>5. xray' \in XrayConfigs /\ cfd' \in BOOLEAN
    <2>1. local[s].xray \in XrayConfigs /\ local[s].cfd \in BOOLEAN
      BY <1>1, AtWork, RunFields
    <2> QED
      BY <2>1 DEF RestoreConfigs, TypeInv, DataInv
  <1>6. DataInv'
    <2>1. asked' \in Nat /\ faults' \in Nat /\ asked' + faults' <= MaxEvents
      BY BoundsAssumption DEF RestoreConfigs, Fault, Bounded, NoFault, history, TypeInv, DataInv
    <2> QED
      BY <1>4, <1>5, <2>1
      DEF RestoreConfigs, TypeInv, DataInv, running, systemd, certs, history
  <1> QED
    BY <1>3, <1>6 DEF TypeInv

LEMMA RestartRestoredType ==
    ASSUME TypeInv, NEW s \in Sessions, RestartRestored(s)
    PROVE  TypeInv'
  <1>1. pc[s] \in CommandSteps
    BY DEF RestartRestored, At, CommandSteps, RouteSteps
  <1>2. ControlInv'
    BY <1>1, AtWork, StopType DEF RestartRestored, Fail
  <1>3. DataInv'
    BY BoundsAssumption
    DEF RestartRestored, Fail, Broken, Fault, Bounded, NoFault, TypeInv, DataInv,
        config, systemd, certs, history
  <1> QED
    BY <1>2, <1>3 DEF TypeInv

LEMMA SaveEnvType ==
    ASSUME TypeInv, NEW s \in Sessions, SaveEnv(s)
    PROVE  TypeInv'
  <1>1. pc[s] \in CommandSteps
    BY DEF SaveEnv, At, CommandSteps, RouteSteps
  <1>2. ControlInv'
    <2>1. CASE GoTo(s, IF At(s, "save_flag") THEN "write_units" ELSE "subs")
      BY <1>1, <2>1, AtWork, CommandGoes DEF CommandSteps, UnitSteps
    <2>2. CASE Fail(s)
      BY <1>1, <2>2, AtWork, StopType DEF Fail
    <2> QED
      BY <2>1, <2>2 DEF SaveEnv
  <1>3. DataInv'
    <2>1. local[s].env \in Envs
      BY <1>1, AtWork, RunFields
    <2> QED
      BY <2>1, BoundsAssumption
      DEF SaveEnv, GoTo, Fail, Fault, Bounded, NoFault, TypeInv, DataInv,
          running, systemd, certs, history
  <1> QED
    BY <1>2, <1>3 DEF TypeInv

LEMMA RegenerateSubscriptionsType ==
    ASSUME TypeInv, NEW p \in Actors, RegenerateSubscriptions(p)
    PROVE  TypeInv'
  <1>1. pc[p] \notin Free
    BY DEF RegenerateSubscriptions, At, Free
  <1>2. ControlInv'
    BY <1>1, FinishType, StopType DEF RegenerateSubscriptions, Fail
  <1>3. DataInv'
    BY BoundsAssumption
    DEF RegenerateSubscriptions, Finish, Fail, Fault, Bounded, NoFault, TypeInv, DataInv,
        running, systemd, certs, history
  <1> QED
    BY <1>2, <1>3 DEF TypeInv

LEMMA WriteUnitType ==
    ASSUME TypeInv, NEW s \in Sessions, NEW u \in Units, WriteUnit(s, u)
    PROVE  TypeInv'
  <1>1. pc[s] \in CommandSteps
    BY DEF WriteUnit, At, CommandSteps, UnitSteps
  <1>2. ControlInv'
    <2>1. CASE /\ local' = [local EXCEPT ![s].changed = @ \cup {u},
                                  ![s].created = IF units[u] = "gone" THEN @ \cup {u} ELSE @]
               /\ UNCHANGED <<lock, pc, killed>>
      <3> DEFINE now == local[s].changed \cup {u}
                 made == IF units[u] = "gone" THEN local[s].created \cup {u} ELSE local[s].created
                 kept == [local[s] EXCEPT !.changed = now, !.created = made]
      <3>1. now \in SUBSET Units /\ made \in SUBSET Units
        BY <1>1, AtWork, RunFields
      <3>2. kept \in Runs
        <4> HIDE DEF now, made
        <4> QED
          BY <1>1, <3>1, AtWork, RunFields
      <3>3. local' = [local EXCEPT ![s] = kept]
        BY <1>1, <2>1, AtWork DEF Runs
      <3>4. pc' = [pc EXCEPT ![s] = pc[s]] /\ lock' = lock
        BY <1>1, <2>1, AtWork
      <3> HIDE DEF kept
      <3> QED
        BY <1>1, <3>2, <3>3, <3>4, AtWork, CommandKeeps
    <2>2. CASE Fail(s)
      BY <1>1, <2>2, AtWork, StopType DEF Fail
    <2> QED
      BY <2>1, <2>2 DEF WriteUnit
  <1>3. DataInv'
    <2>1. [units EXCEPT ![u] = "new"] \in [Units -> {"gone", "old", "new"}]
      BY DEF TypeInv, DataInv
    <2> QED
      BY <2>1, BoundsAssumption
      DEF WriteUnit, Fail, Fault, Bounded, NoFault, TypeInv, DataInv,
          config, running, certs, history
  <1> QED
    BY <1>2, <1>3 DEF TypeInv

LEMMA RetireHysteriaUnitType ==
    ASSUME TypeInv, NEW s \in Sessions, RetireHysteriaUnit(s)
    PROVE  TypeInv'
  <1>1. pc[s] \in CommandSteps
    BY DEF RetireHysteriaUnit, At, CommandSteps, UnitSteps
  <1>2. ControlInv'
    <2>1. CASE GoTo(s, "reload") \/ GoTo(s, "remove")
      BY <1>1, <2>1, AtWork, CommandGoes DEF CommandSteps, UnitSteps
    <2>2. CASE Fail(s)
      BY <1>1, <2>2, AtWork, StopType DEF Fail
    <2> QED
      BY <2>1, <2>2 DEF RetireHysteriaUnit
  <1>3. hyRun' \in Leaves \cup {Down} /\ enabled' \in BOOLEAN /\ killed' = killed
    BY DEF RetireHysteriaUnit, GoTo, Fail, Broken, TypeInv, DataInv
  <1>4. asked' \in Nat /\ faults' \in Nat /\ asked' + faults' <= MaxEvents
    <2>1. (NoFault \/ Fault) /\ UNCHANGED history
      BY DEF RetireHysteriaUnit
    <2> QED
      BY <2>1, BoundsAssumption DEF Fault, Bounded, NoFault, history, TypeInv, DataInv
  <1>5. DataInv'
    BY <1>3, <1>4
    DEF RetireHysteriaUnit, TypeInv, DataInv, config, certs, history
  <1> QED
    BY <1>2, <1>5 DEF TypeInv

LEMMA RemoveHysteriaUnitType ==
    ASSUME TypeInv, NEW s \in Sessions, RemoveHysteriaUnit(s)
    PROVE  TypeInv'
  <1>1. pc[s] \in CommandSteps
    BY DEF RemoveHysteriaUnit, At, CommandSteps, UnitSteps
  <1>2. ControlInv'
    <2>1. CASE /\ local' = [local EXCEPT ![s].retired = TRUE]
               /\ Become(s, "reload") /\ UNCHANGED <<lock, killed>>
      <3> DEFINE kept == [local[s] EXCEPT !.retired = TRUE]
      <3>1. kept \in Runs
        BY <1>1, AtWork, RunFields
      <3>2. local' = [local EXCEPT ![s] = kept] /\ pc' = [pc EXCEPT ![s] = "reload"]
        BY <1>1, <2>1, AtWork DEF Become
      <3>3. "reload" \in CommandSteps
        BY DEF CommandSteps, UnitSteps
      <3> HIDE DEF kept
      <3> QED
        BY <1>1, <2>1, <3>1, <3>2, <3>3, AtWork, CommandKeeps
    <2>2. CASE Fail(s)
      BY <1>1, <2>2, AtWork, StopType DEF Fail
    <2> QED
      BY <2>1, <2>2 DEF RemoveHysteriaUnit
  <1>3. DataInv'
    <2>1. [units EXCEPT !["hysteria"] = "gone"] \in [Units -> {"gone", "old", "new"}]
      BY DEF TypeInv, DataInv, Units
    <2> QED
      BY <2>1, BoundsAssumption
      DEF RemoveHysteriaUnit, Fail, Fault, Bounded, NoFault, TypeInv, DataInv,
          config, running, certs, history
  <1> QED
    BY <1>2, <1>3 DEF TypeInv

LEMMA ReconciledType ==
    ASSUME TypeInv, NEW s \in Sessions, pc[s] \in CommandSteps, Reconciled(s)
    PROVE  ControlInv' /\ killed' = killed
  <1>1. CASE GoTo(s, "subs")
    BY <1>1, AtWork, CommandGoes DEF CommandSteps, GoTo
  <1>2. CASE Finish(s)
    BY <1>2, AtWork, FinishType DEF Finish
  <1> QED
    BY <1>1, <1>2 DEF Reconciled

LEMMA DaemonReloadType ==
    ASSUME TypeInv, NEW s \in Sessions, DaemonReload(s)
    PROVE  TypeInv'
  <1>1. pc[s] \in CommandSteps
    BY DEF DaemonReload, At, CommandSteps, UnitSteps
  <1>2. ControlInv' /\ killed' = killed
    <2>1. CASE GoTo(s, "apply")
      BY <1>1, <2>1, AtWork, CommandGoes DEF CommandSteps, UnitSteps, GoTo
    <2>2. CASE Fail(s)
      BY <1>1, <2>2, AtWork, StopType DEF Fail
    <2> QED
      BY <1>1, <2>1, <2>2, ReconciledType DEF DaemonReload
  <1>3. DataInv'
    BY <1>2, BoundsAssumption
    DEF DaemonReload, Fault, Bounded, NoFault, TypeInv, DataInv,
        config, running, systemd, certs, history
  <1> QED
    BY <1>2, <1>3 DEF TypeInv

LEMMA ApplyUnitType ==
    ASSUME TypeInv, NEW s \in Sessions, ApplyUnit(s)
    PROVE  TypeInv'
  <1>1. pc[s] \in CommandSteps
    BY DEF ApplyUnit, At, CommandSteps, UnitSteps
  <1> DEFINE u == IF "hysteria" \in local[s].changed THEN "hysteria" ELSE "xray"
             now == local[s].changed \ {u}
             kept == [local[s] EXCEPT !.changed = now]
  <1>2. CASE /\ local[s].changed = {} /\ NoFault /\ Reconciled(s)
             /\ UNCHANGED <<running, applied, enabled>>
    <2>1. ControlInv' /\ killed' = killed
      BY <1>1, <1>2, ReconciledType
    <2>2. DataInv'
      BY <1>2, <2>1
      DEF ApplyUnit, NoFault, TypeInv, DataInv, config, running, certs, history
    <2> QED
      BY <2>1, <2>2 DEF TypeInv
  <1>3. CASE /\ local[s].changed # {} /\ NoFault
             /\ applied' = [applied EXCEPT ![u] = units[u]]
             /\ enabled' = (enabled \/ (u = "hysteria" /\ u \in local[s].created))
             /\ hyRun' = IF u = "hysteria" THEN Loaded(pair) ELSE hyRun
             /\ xrayRun' = IF u = "xray" THEN xray ELSE xrayRun
             /\ local' = [local EXCEPT ![s].changed = @ \ {u}]
             /\ UNCHANGED <<cfdRun, lock, pc, killed>>
    <2>1. kept \in Runs
      BY <1>1, AtWork, RunFields
    <2>2. local' = [local EXCEPT ![s] = kept] /\ pc' = [pc EXCEPT ![s] = pc[s]] /\ lock' = lock
      BY <1>1, <1>3, AtWork
    <2>3. ControlInv'
      <3> HIDE DEF kept
      <3> QED
        BY <1>1, <2>1, <2>2, AtWork, CommandKeeps
    <2>4. u \in Units
      BY DEF Units
    <2>5. /\ applied' \in [Units -> {"gone", "old", "new"}] /\ enabled' \in BOOLEAN
          /\ hyRun' \in Leaves \cup {Down}
      <3> HIDE DEF u
      <3>1. Loaded(pair) \in Leaves \cup {Down}
        BY LoadedType DEF TypeInv
      <3> QED
        BY <1>3, <2>4, <3>1 DEF TypeInv, DataInv
    <2>6. xrayRun' \in XrayConfigs \cup {Down}
      <3> HIDE DEF u
      <3> QED
        BY <1>3 DEF TypeInv, DataInv
    <2>7. DataInv'
      BY <1>3, <2>5, <2>6
      DEF ApplyUnit, NoFault, TypeInv, DataInv, config, certs, history
    <2> QED
      BY <2>3, <2>7 DEF TypeInv
  <1>4. CASE /\ local[s].changed # {} /\ Fault
             /\ enabled' \in {enabled, enabled \/ (u = "hysteria" /\ u \in local[s].created)}
             /\ hyRun' \in IF u = "hysteria" THEN Broken(hyRun) ELSE {hyRun}
             /\ xrayRun' \in IF u = "xray" THEN Broken(xrayRun) ELSE {xrayRun}
             /\ Fail(s) /\ UNCHANGED <<cfdRun, applied>>
    <2>1. ControlInv'
      BY <1>1, <1>4, AtWork, StopType DEF Fail
    <2>2. /\ enabled' \in BOOLEAN /\ hyRun' \in Leaves \cup {Down}
          /\ xrayRun' \in XrayConfigs \cup {Down}
      <3> HIDE DEF u
      <3> QED
        BY <1>4 DEF TypeInv, DataInv, Broken
    <2>3. killed' = killed
      BY <1>4 DEF Fail
    <2>4. DataInv'
      BY <1>4, <2>2, <2>3, BoundsAssumption
      DEF ApplyUnit, Fault, Bounded, TypeInv, DataInv, config, certs, history
    <2> QED
      BY <2>1, <2>4 DEF TypeInv
  <1> QED
    BY <1>2, <1>3, <1>4 DEF ApplyUnit

-----------------------------------------------------------------------------
(* The timer and the agent.                                                *)

\* p, with a certificate in hand.
LEMMA InHand ==
    ASSUME TypeInv, NEW p \in {Timer, Agent}, pc[p] \notin Free
    PROVE  /\ p \in Actors /\ p \notin Sessions /\ lock = p /\ local[p] \in Orders /\ DataInv
           /\ pc[p] \in IF p = Timer THEN RenewSteps ELSE RotateSteps
           /\ pc[p] \in {"copy_cert", "copy_key"} => store[local[p].host] = "fresh"
           /\ local[p].host \in Hosts /\ local[p].before \in Pairs
           /\ local[p].before.cert \in Leaves /\ local[p].before.key \in Leaves
  BY SessionsApart DEF TypeInv, ControlInv, FitsAt, Free, Orders, Pairs

LEMMA CertificateGoes ==
    ASSUME TypeInv, NEW p \in {Timer, Agent}, pc[p] \notin Free, NEW step,
           step \in IF p = Timer THEN RenewSteps ELSE RotateSteps, GoTo(p, step),
           step \in {"copy_cert", "copy_key"} => store'[local[p].host] = "fresh"
    PROVE  ControlInv'
  <1>1. step \in Steps /\ step \notin Free
    BY DEF Steps, Free, RenewSteps, RotateSteps, CertSteps
  <1>2. FitsAt(p, step, local[p], store')
    BY InHand, SessionsApart DEF FitsAt, RenewSteps, RotateSteps, CertSteps
  <1> QED
    BY <1>1, <1>2, InHand, GoToType

LEMMA CertFailType ==
    ASSUME TypeInv, NEW p \in {Timer, Agent}, pc[p] \notin Free, CertFail(p)
    PROVE  ControlInv' /\ killed' = killed
  <1>1. CASE p = Agent
    BY <1>1, SessionsApart, CertificateGoes DEF CertFail, RotateSteps, GoTo
  <1>2. CASE p = Timer
    BY <1>2, SessionsApart, StopType DEF CertFail, Fail
  <1> QED
    BY <1>1, <1>2

\* p takes the lock, to bring Hysteria2 a certificate of h.
LEMMA TakeType ==
    ASSUME TypeInv, NEW p \in {Timer, Agent}, NEW h \in Hosts, lock = None, lock' = p,
           local' = [local EXCEPT ![p] = [host |-> h, before |-> pair]], Become(p, "lego")
    PROVE  ControlInv'
  <1> DEFINE kept == [host |-> h, before |-> pair]
  <1>1. kept \in Orders /\ kept \in Locals
    BY DEF TypeInv, DataInv, Orders, Locals
  <1>2. local' = [local EXCEPT ![p] = kept] /\ pc' = [pc EXCEPT ![p] = "lego"]
    BY DEF Become
  <1>3. "lego" \in Steps /\ "lego" \notin Free
    BY DEF Steps, Free
  <1>4. FitsAt(p, "lego", kept, store')
    BY <1>1, SessionsApart DEF FitsAt, RenewSteps, RotateSteps, CertSteps
  <1> HIDE DEF kept
  <1> QED
    BY <1>1, <1>2, <1>3, <1>4, SessionsApart, ActorStep

LEMMA RenewReadType ==
    ASSUME TypeInv, RenewRead
    PROVE  TypeInv'
  <1> DEFINE kept == [host |-> env.host]
  <1>1. kept \in Reads /\ kept \in Locals
    BY DEF TypeInv, DataInv, Envs, Reads, Locals
  <1>2. /\ local' = [local EXCEPT ![Timer] = kept] /\ pc' = [pc EXCEPT ![Timer] = "lock"]
        /\ pc[Timer] = "idle" /\ lock' = lock /\ store' = store
    BY DEF RenewRead, At, Become, certs
  <1> HIDE DEF kept
  <1>3. FitsAt(Timer, "lock", kept, store')
    BY <1>1, SessionsApart DEF FitsAt, RenewSteps, CertSteps
  <1>4. pc \in [Actors -> Steps] /\ local \in [Actors -> Locals]
    BY DEF TypeInv, ControlInv
  <1>5. /\ pc'[Timer] = "lock" /\ local'[Timer] = kept
        /\ \A q \in Actors : q # Timer => pc'[q] = pc[q] /\ local'[q] = local[q]
    BY <1>2, <1>4, SessionsApart
  <1>6. pc' \in [Actors -> Steps] /\ local' \in [Actors -> Locals]
    BY <1>1, <1>2, <1>4 DEF Steps
  <1>7. \A q \in Actors : pc'[q] \in Free <=> lock' # q
    BY <1>2, <1>5 DEF TypeInv, ControlInv, Free
  <1>8. \A q \in Actors : FitsAt(q, pc'[q], local'[q], store')
    BY <1>2, <1>3, <1>5 DEF TypeInv, ControlInv
  <1>9. ControlInv'
    BY <1>2, <1>6, <1>7, <1>8 DEF ControlInv, TypeInv
  <1>10. DataInv'
    BY DEF RenewRead, NoFault, TypeInv, DataInv, config, running, systemd, certs, history
  <1> QED
    BY <1>9, <1>10 DEF TypeInv

LEMMA RenewLockType ==
    ASSUME TypeInv, RenewLock
    PROVE  TypeInv'
  <1>1. local[Timer].host \in Hosts
    BY SessionsApart DEF RenewLock, At, TypeInv, ControlInv, FitsAt, Reads
  <1>2. local' = [local EXCEPT ![Timer] = [host |-> local[Timer].host, before |-> pair]]
    BY SessionsApart DEF RenewLock, TypeInv, ControlInv
  <1>3. ControlInv'
    BY <1>1, <1>2, TakeType DEF RenewLock
  <1>4. DataInv'
    BY DEF RenewLock, NoFault, TypeInv, DataInv, config, running, systemd, certs, history
  <1> QED
    BY <1>3, <1>4 DEF TypeInv

LEMMA RotateType ==
    ASSUME TypeInv, NEW h \in Hosts, Rotate(h)
    PROVE  TypeInv'
  <1>1. ControlInv'
    BY TakeType DEF Rotate
  <1>2. DataInv'
    BY DEF Rotate, NoFault, TypeInv, DataInv, config, running, systemd, certs, history
  <1> QED
    BY <1>1, <1>2 DEF TypeInv

LEMMA LegoType ==
    ASSUME TypeInv, NEW p \in {Timer, Agent}, Lego(p)
    PROVE  TypeInv'
  <1>1. pc[p] \notin Free
    BY DEF Lego, At, Free
  <1> DEFINE done == [store EXCEPT ![local[p].host] = "fresh"]
  <1>2. done \in [Hosts -> Ages \cup {None}] /\ done[local[p].host] = "fresh"
    BY <1>1, InHand DEF DataInv, Ages
  <1> HIDE DEF done
  <1>3. \/ NoFault /\ store' = done /\ GoTo(p, "copy_cert")
        \/ Fault /\ store' \in {store, done} /\ CertFail(p)
    BY DEF Lego, done
  <1>4. ControlInv' /\ killed' = killed
    <2>1. CASE store' = done /\ GoTo(p, "copy_cert")
      BY <1>1, <1>2, <2>1, CertificateGoes DEF GoTo, RenewSteps, RotateSteps, CertSteps
    <2>2. CASE CertFail(p)
      BY <1>1, <2>2, CertFailType
    <2> QED
      BY <1>3, <2>1, <2>2
  <1>5. DataInv'
    BY <1>2, <1>3, <1>4, BoundsAssumption
    DEF Lego, Fault, Bounded, NoFault, TypeInv, DataInv, config, running, systemd, history
  <1> QED
    BY <1>4, <1>5 DEF TypeInv

LEMMA LeafType ==
    ASSUME TypeInv, NEW p \in {Timer, Agent}, pc[p] \in {"copy_cert", "copy_key"}
    PROVE  /\ Leaf(p) = [host |-> local[p].host, age |-> "fresh"]
           /\ Leaf(p) \in Leaves
  <1>1. pc[p] \notin Free
    BY DEF Free
  <1> QED
    BY <1>1, InHand DEF Leaf, Leaves, Ages

LEMMA CopyCertType ==
    ASSUME TypeInv, NEW p \in {Timer, Agent}, CopyCert(p)
    PROVE  TypeInv'
  <1>1. pc[p] \notin Free /\ pc[p] = "copy_cert"
    BY DEF CopyCert, At, Free
  <1>2. ControlInv' /\ killed' = killed
    <2>1. CASE GoTo(p, "copy_key")
      <3>1. store'[local[p].host] = "fresh"
        BY <1>1, InHand DEF CopyCert
      <3> QED
        BY <1>1, <2>1, <3>1, CertificateGoes DEF GoTo, RenewSteps, RotateSteps, CertSteps
    <2>2. CASE CertFail(p)
      BY <1>1, <2>2, CertFailType
    <2> QED
      BY <2>1, <2>2 DEF CopyCert
  <1>3. pair' \in Pairs
    BY <1>1, LeafType DEF CopyCert, TypeInv, DataInv, Pairs
  <1>4. DataInv'
    BY <1>2, <1>3, BoundsAssumption
    DEF CopyCert, Fault, Bounded, NoFault, TypeInv, DataInv, config, running, systemd, history
  <1> QED
    BY <1>2, <1>4 DEF TypeInv

LEMMA CopyKeyType ==
    ASSUME TypeInv, NEW p \in {Timer, Agent}, CopyKey(p)
    PROVE  TypeInv'
  <1>1. pc[p] \notin Free /\ pc[p] = "copy_key"
    BY DEF CopyKey, At, Free
  <1>2. PICK step \in {"restore_pair", IF p = Timer THEN "reload_hy2" ELSE "move"} : GoTo(p, step)
    BY DEF CopyKey
  <1>3. ControlInv' /\ killed' = killed
    BY <1>1, <1>2, CertificateGoes DEF GoTo, RenewSteps, RotateSteps, CertSteps
  <1>4. pair' \in Pairs
    BY <1>1, LeafType DEF CopyKey, TypeInv, DataInv, Pairs
  <1>5. DataInv'
    BY <1>3, <1>4, BoundsAssumption
    DEF CopyKey, Fault, Bounded, NoFault, TypeInv, DataInv, config, running, systemd, history
  <1> QED
    BY <1>3, <1>5 DEF TypeInv

LEMMA RestorePairType ==
    ASSUME TypeInv, NEW p \in {Timer, Agent}, RestorePair(p)
    PROVE  TypeInv'
  <1>1. pc[p] \notin Free
    BY DEF RestorePair, At, Free
  <1>2. ControlInv' /\ killed' = killed
    BY <1>1, CertFailType DEF RestorePair
  <1>3. DataInv'
    BY <1>1, <1>2, InHand, BoundsAssumption
    DEF RestorePair, Fault, Bounded, NoFault, TypeInv, DataInv, config, running, systemd, history
  <1> QED
    BY <1>2, <1>3 DEF TypeInv

LEMMA ReloadHysteriaType ==
    ASSUME TypeInv, ReloadHysteria
    PROVE  TypeInv'
  <1>1. pc[Timer] \notin Free
    BY DEF ReloadHysteria, At, Free
  <1>2. Finish(Timer) \/ Fail(Timer)
    BY DEF ReloadHysteria
  <1>3. ControlInv' /\ killed' = killed
    BY <1>1, <1>2, FinishType, StopType, SessionsApart DEF Finish, Fail
  <1>4. DataInv'
    BY <1>3, LoadedType, BoundsAssumption
    DEF ReloadHysteria, Broken, Fault, Bounded, NoFault, TypeInv, DataInv,
        config, systemd, certs, history
  <1> QED
    BY <1>3, <1>4 DEF TypeInv

LEMMA MoveType ==
    ASSUME TypeInv, Move
    PROVE  TypeInv'
  <1>1. pc[Agent] \notin Free
    BY DEF Move, At, Free
  <1>2. PICK step \in {"rotate_hy2", "rollback"} : GoTo(Agent, step)
    BY DEF Move
  <1>3. ControlInv' /\ killed' = killed
    BY <1>1, <1>2, SessionsApart, CertificateGoes DEF GoTo, RotateSteps
  <1>4. DataInv'
    BY <1>3, BoundsAssumption
    DEF Move, Fault, Bounded, NoFault, TypeInv, DataInv, config, running, systemd, certs, history
  <1> QED
    BY <1>3, <1>4 DEF TypeInv

LEMMA RestoreHy2CertType ==
    ASSUME TypeInv, RestoreHy2Cert
    PROVE  TypeInv'
  <1>1. pc[Agent] \notin Free
    BY DEF RestoreHy2Cert, At, Free
  <1>2. ControlInv' /\ killed' = killed
    BY <1>1, StopType, SessionsApart DEF RestoreHy2Cert, Fail
  <1>3. pair' \in Pairs
    <2>1. local[Agent].before \in Pairs
      BY <1>1, InHand
    <2> QED
      BY <2>1 DEF RestoreHy2Cert, TypeInv, DataInv, Pairs
  <1>4. DataInv'
    BY <1>2, <1>3, BoundsAssumption
    DEF RestoreHy2Cert, Fault, Bounded, NoFault, TypeInv, DataInv,
        config, running, systemd, history
  <1> QED
    BY <1>2, <1>4 DEF TypeInv

LEMMA RotateHy2ConfigType ==
    ASSUME TypeInv, RotateHy2Config
    PROVE  TypeInv'
  <1>1. pc[Agent] \notin Free
    BY DEF RotateHy2Config, At, Free
  <1>2. ControlInv' /\ killed' = killed
    <2>1. CASE GoTo(Agent, "save_host")
      BY <1>1, <2>1, SessionsApart, CertificateGoes DEF GoTo, RotateSteps
    <2>2. CASE Fail(Agent)
      BY <1>1, <2>2, SessionsApart, StopType DEF Fail
    <2> QED
      BY <2>1, <2>2 DEF RotateHy2Config
  <1>3. DataInv'
    BY <1>2, LoadedType, BoundsAssumption
    DEF RotateHy2Config, Broken, Fault, Bounded, NoFault, TypeInv, DataInv,
        config, systemd, certs, history
  <1> QED
    BY <1>2, <1>3 DEF TypeInv

LEMMA SaveHostType ==
    ASSUME TypeInv, SaveHost
    PROVE  TypeInv'
  <1>1. pc[Agent] \notin Free
    BY DEF SaveHost, At, Free
  <1>2. ControlInv' /\ killed' = killed
    <2>1. CASE GoTo(Agent, "subs")
      BY <1>1, <2>1, SessionsApart, CertificateGoes DEF GoTo, RotateSteps
    <2>2. CASE Fail(Agent)
      BY <1>1, <2>2, SessionsApart, StopType DEF Fail
    <2> QED
      BY <2>1, <2>2 DEF SaveHost
  <1>3. [env EXCEPT !.host = local[Agent].host] \in Envs
    BY <1>1, InHand DEF TypeInv, DataInv, Envs
  <1>4. DataInv'
    BY <1>2, <1>3, BoundsAssumption
    DEF SaveHost, Fault, Bounded, NoFault, TypeInv, DataInv, running, systemd, certs, history
  <1> QED
    BY <1>2, <1>4 DEF TypeInv

-----------------------------------------------------------------------------
(* The environment.                                                        *)

LEMMA KillType ==
    ASSUME TypeInv, NEW p \in Actors, Kill(p)
    PROVE  TypeInv'
  <1>1. pc[p] \notin Free
    BY DEF Kill, TypeInv, ControlInv
  <1>2. ControlInv'
    BY <1>1, StopType DEF Kill
  <1>3. DataInv'
    BY BoundsAssumption
    DEF Kill, Fault, Bounded, TypeInv, DataInv, config, running, systemd, certs, history
  <1> QED
    BY <1>2, <1>3 DEF TypeInv

LEMMA RebootType ==
    ASSUME TypeInv, Reboot
    PROVE  TypeInv'
  <1>1. ControlInv'
    BY ControlStays DEF Reboot, control, certs
  <1>2. DataInv'
    BY LoadedType, BoundsAssumption
    DEF Reboot, Fault, Bounded, TypeInv, DataInv, config, certs, control, history
  <1> QED
    BY <1>1, <1>2 DEF TypeInv

LEMMA AgedType ==
    ASSUME NEW leaf \in Leaves
    PROVE  Aged(leaf) \in Leaves
  BY DEF Leaves, Aged, Older, Ages

LEMMA AgeType ==
    ASSUME TypeInv, Age
    PROVE  TypeInv'
  <1>1. ControlInv'
    BY ControlStays DEF Age, control
  <1>2. pair' \in Pairs /\ hyRun' \in Leaves \cup {Down}
    BY AgedType DEF Age, TypeInv, DataInv, Pairs
  <1>3. store' \in [Hosts -> Ages \cup {None}]
    BY DEF Age, Older, Ages, TypeInv, DataInv
  <1>4. DataInv'
    BY <1>2, <1>3
    DEF Age, NoFault, TypeInv, DataInv, config, systemd, control, history
  <1> QED
    BY <1>1, <1>4 DEF TypeInv

-----------------------------------------------------------------------------
(* The types hold throughout.                                              *)

LEMMA InitType ==
    ASSUME Init
    PROVE  TypeInv
  <1>1. PICK mode \in {"direct", "cloudflare"}, hy2 \in BOOLEAN, drift \in BOOLEAN :
          /\ env = [mode |-> mode, hy2 |-> hy2, host |-> FirstHost,
                   routes |-> Routes(mode), key |-> 0]
          /\ units = [xray |-> IF drift THEN "old" ELSE "new",
                      hysteria |-> IF ~hy2 THEN "gone" ELSE IF drift THEN "old" ELSE "new"]
          /\ enabled = hy2
    BY DEF Init
  <1>2. env \in Envs
    BY <1>1, HostAssumption DEF Envs, Routes, RouteKinds, Keys
  <1>3. units \in [Units -> {"gone", "old", "new"}]
    <2> DEFINE a == IF drift THEN "old" ELSE "new"
               b == IF ~hy2 THEN "gone" ELSE IF drift THEN "old" ELSE "new"
    <2>1. a \in {"gone", "old", "new"} /\ b \in {"gone", "old", "new"}
      OBVIOUS
    <2>2. units = [xray |-> a, hysteria |-> b]
      BY <1>1
    <2> HIDE DEF a, b
    <2> QED
      BY <2>1, <2>2 DEF Units
  <1>4. pair \in Pairs
    BY HostAssumption DEF Init, Pairs, Leaves, Ages
  <1>5. store \in [Hosts -> Ages \cup {None}]
    BY DEF Init, Ages
  <1>6. DataInv
    <2>1. enabled \in BOOLEAN
      BY <1>1
    <2>2. xray \in XrayConfigs /\ cfd \in BOOLEAN
      BY <1>2, RenderType DEF Init
    <2>3. hyRun \in Leaves \cup {Down}
      BY <1>4 DEF Init, Pairs
    <2>4. wanted \in SUBSET RouteKinds
      BY <1>2 DEF Init, Envs
    <2>5. xrayRun = xray /\ cfdRun = cfd /\ subs = env /\ applied = units
      BY DEF Init
    <2>6. killed \in BOOLEAN /\ asked = 0 /\ faults = 0
      BY DEF Init
    <2> QED
      BY <1>2, <1>3, <1>4, <1>5, <2>1, <2>2, <2>3, <2>4, <2>5, <2>6, BoundsAssumption DEF DataInv
  <1>7. ControlInv
    BY SessionsApart DEF Init, ControlInv, Steps, Locals, Free, FitsAt, CommandSteps, RouteSteps,
                         UnitSteps, RenewSteps, RotateSteps, CertSteps
  <1> QED
    BY <1>6, <1>7 DEF TypeInv

LEMMA CommandType ==
    ASSUME TypeInv, NEW s \in Sessions, Command(s)
    PROVE  TypeInv'
  BY WriteXrayType, WriteCloudflaredType, RestartXrayType, RestartCloudflaredType,
     RestoreConfigsType, RestartRestoredType, SaveEnvType, RegenerateSubscriptionsType,
     WriteUnitType, RetireHysteriaUnitType, RemoveHysteriaUnitType, DaemonReloadType,
     ApplyUnitType, SessionsApart
  DEF Command

LEMMA RenewalRotationType ==
    ASSUME TypeInv, Renewal \/ Rotation
    PROVE  TypeInv'
  BY LegoType, CopyCertType, CopyKeyType, RestorePairType, ReloadHysteriaType, MoveType,
     RestoreHy2CertType, RotateHy2ConfigType, SaveHostType, RegenerateSubscriptionsType,
     SessionsApart
  DEF Renewal, Rotation, Certificate

LEMMA TypeStep ==
    ASSUME TypeInv, [Next]_vars
    PROVE  TypeInv'
  <1>1. CASE Next
    BY <1>1, StartType, RerunType, CommandType, RenewReadType, RenewLockType,
       RenewalRotationType, RotateType, KillType, RebootType, AgeType
    DEF Next
  <1>2. CASE UNCHANGED vars
    <2>1. ControlInv'
      BY <1>2, ControlStays DEF vars, control, certs
    <2>2. DataInv'
      BY <1>2 DEF vars, TypeInv, DataInv, config, running, systemd, certs, control, history
    <2> QED
      BY <2>1, <2>2 DEF TypeInv
  <1> QED
    BY <1>1, <1>2

LEMMA AlwaysTyped == Spec => []TypeInv
  BY InitType, TypeStep, PTL DEF Spec

\* At every moment the variables hold values of their types, and an actor of
\* NodeFeatures is between two of its steps exactly while it holds the config lock.
THEOREM FeaturesTypeCorrect == Spec => []TypeOK
  <1>1. TypeInv => TypeOK
    BY DEF TypeInv, DataInv, ControlInv, TypeOK, Free
  <1> QED
    BY <1>1, AlwaysTyped, PTL

-----------------------------------------------------------------------------
(* One actor at a time.                                                    *)

Only(p) == \A q \in Actors : q # p => pc'[q] = pc[q] /\ local'[q] = local[q]

LEMMA Moves ==
    ASSUME TypeInv, NEW p \in Actors,
           \/ \E step : GoTo(p, step)
           \/ Finish(p)
           \/ Stop(p)
           \/ p \in Sessions /\ \E c \in Commands : Begin(p, c)
           \/ p \in Sessions /\ \E unit : Restore(p, unit)
           \/ Reconciled(p)
    PROVE  Only(p)
  BY DEF Only, GoTo, Finish, Stop, Begin, Restore, Reconciled, Become, TypeInv, ControlInv

\* What a step of the session s leaves alone, whatever it does.
LEMMA SessionFrame ==
    ASSUME TypeInv, NEW s \in Sessions,
           (\E c \in Commands : Start(s, c)) \/ Rerun(s) \/ Command(s)
    PROVE  /\ Only(s) /\ UNCHANGED <<certs, killed>>
           /\ NoFault \/ Fault
           /\ lock \in {None, s}
  <1>1. s \in Actors
    BY SessionsApart
  <1>2. CASE \E c \in Commands : Start(s, c)
    <2>1. PICK c \in Commands : Start(s, c)
      BY <1>2
    <2> QED
      BY <1>1, <2>1, Moves DEF Start, Begin
  <1>3. CASE Rerun(s)
    <2>1. local[s].cmd \in Commands
      BY <1>1, <1>3, SessionsApart DEF Rerun, At, TypeInv, ControlInv, FitsAt, Given
    <2> QED
      BY <1>1, <1>3, <2>1, Moves DEF Rerun, Begin
  <1>4. CASE Command(s)
    <2>1. pc[s] \in CommandSteps
      BY <1>4
      DEF Command, WriteXray, WriteCloudflared, RestartXray, RestartCloudflared, RestoreConfigs,
          RestartRestored, SaveEnv, RegenerateSubscriptions, WriteUnit, RetireHysteriaUnit,
          RemoveHysteriaUnit, DaemonReload, ApplyUnit, At, CommandSteps, RouteSteps, UnitSteps
    <2>2. lock = s
      BY <2>1, AtWork
    <2>3. CASE WriteXray(s)
      BY <1>1, <2>2, <2>3, Moves DEF WriteXray, GoTo, Fail
    <2>4. CASE WriteCloudflared(s)
      BY <1>1, <2>2, <2>4, Moves DEF WriteCloudflared, GoTo, Fail
    <2>5. CASE RestartXray(s)
      BY <1>1, <2>2, <2>5, Moves DEF RestartXray, GoTo, Restore
    <2>6. CASE RestartCloudflared(s)
      BY <1>1, <2>2, <2>6, Moves DEF RestartCloudflared, GoTo, Restore
    <2>7. CASE RestoreConfigs(s)
      BY <1>1, <2>2, <2>7, Moves DEF RestoreConfigs, GoTo, Fail
    <2>8. CASE RestartRestored(s)
      BY <1>1, <2>2, <2>8, Moves DEF RestartRestored, Fail
    <2>9. CASE SaveEnv(s)
      BY <1>1, <2>2, <2>9, Moves DEF SaveEnv, GoTo, Fail
    <2>10. CASE RegenerateSubscriptions(s)
      BY <1>1, <2>2, <2>10, Moves DEF RegenerateSubscriptions, Finish, Fail
    <2>11. CASE \E u \in Units : WriteUnit(s, u)
      <3>1. CASE Fail(s)
        BY <1>1, <2>2, <2>11, <3>1, Moves DEF WriteUnit, Fail
      <3>2. CASE UNCHANGED <<lock, pc, killed>>
        BY <2>2, <2>11, <3>2 DEF WriteUnit, Fail, Stop, Become, Only, TypeInv, ControlInv
      <3> QED
        BY <2>11, <3>1, <3>2 DEF WriteUnit
    <2>12. CASE RetireHysteriaUnit(s)
      <3>1. Only(s) /\ killed' = killed
        BY <1>1, <2>12, Moves DEF RetireHysteriaUnit, GoTo, Fail
      <3> QED
        BY <2>2, <2>12, <3>1 DEF RetireHysteriaUnit
    <2>13. CASE RemoveHysteriaUnit(s)
      <3>1. CASE Fail(s)
        BY <1>1, <2>2, <2>13, <3>1, Moves DEF RemoveHysteriaUnit, Fail
      <3>2. CASE Become(s, "reload") /\ UNCHANGED <<lock, killed>>
        BY <2>2, <2>13, <3>2 DEF RemoveHysteriaUnit, Fail, Stop, Become, Only, TypeInv, ControlInv
      <3> QED
        BY <2>13, <3>1, <3>2 DEF RemoveHysteriaUnit
    <2>14. CASE DaemonReload(s)
      BY <1>1, <2>2, <2>14, Moves DEF DaemonReload, Reconciled, GoTo, Finish, Fail
    <2>15. CASE ApplyUnit(s)
      <3>1. CASE Fail(s) \/ Reconciled(s)
        <4>1. Only(s) /\ killed' = killed
          BY <1>1, <3>1, Moves DEF Reconciled, GoTo, Finish, Fail
        <4> QED
          BY <2>2, <2>15, <4>1 DEF ApplyUnit
      <3>2. CASE UNCHANGED <<cfdRun, lock, pc, killed>> /\ ~Reconciled(s) /\ ~Fail(s)
        <4>1. Only(s)
          BY <2>15, <3>2 DEF ApplyUnit, Only, TypeInv, ControlInv
        <4> QED
          BY <2>2, <2>15, <3>2, <4>1 DEF ApplyUnit
      <3> QED
        BY <2>15, <3>1, <3>2 DEF ApplyUnit
    <2> QED
      BY <1>4, <2>3, <2>4, <2>5, <2>6, <2>7, <2>8, <2>9, <2>10, <2>11, <2>12, <2>13, <2>14, <2>15
      DEF Command
  <1> QED
    BY <1>2, <1>3, <1>4

\* What a step of the timer or the agent leaves alone.
LEMMA CertificateFrame ==
    ASSUME TypeInv, NEW p \in {Timer, Agent},
           \/ p = Timer /\ (RenewRead \/ RenewLock \/ Renewal)
           \/ p = Agent /\ ((\E h \in Hosts : Rotate(h)) \/ Rotation)
    PROVE  /\ Only(p) /\ UNCHANGED <<xray, cfd, xrayRun, cfdRun, systemd, history, killed>>
           /\ NoFault \/ Fault
           /\ \/ env' = env
              \/ \E h \in Hosts : env' = [env EXCEPT !.host = h]
           /\ \/ lock \in {None, p}
              \/ UNCHANGED <<env, hyRun, certs, faults, lock>>
  <1>1. p \in Actors /\ p \notin Sessions
    BY SessionsApart
  <1>2. CASE p = Timer /\ RenewRead
    <2>1. Only(p)
      BY <1>2 DEF RenewRead, Become, Only, TypeInv, ControlInv
    <2> QED
      BY <1>2, <2>1 DEF RenewRead, NoFault, config, running, certs
  <1>3. CASE p = Timer /\ RenewLock
    <2>1. Only(p)
      BY <1>3 DEF RenewLock, Become, Only, TypeInv, ControlInv
    <2> QED
      BY <1>3, <2>1 DEF RenewLock, config, running
  <1>4. CASE p = Agent /\ \E h \in Hosts : Rotate(h)
    <2>1. Only(p)
      BY <1>4 DEF Rotate, Become, Only, TypeInv, ControlInv
    <2> QED
      BY <1>4, <2>1 DEF Rotate, config, running
  <1>5. CASE Lego(p)
    <2>1. p \in Actors /\ lock = p
      BY <1>5, InHand DEF Lego, At, Free
    <2>2. Only(p) /\ killed' = killed
      BY <1>5, <2>1, Moves DEF Lego, CertFail, GoTo, Fail
    <2> QED
      BY <1>5, <2>1, <2>2 DEF Lego, config, running
  <1>6. CASE CopyCert(p)
    <2>1. p \in Actors /\ lock = p
      BY <1>6, InHand DEF CopyCert, At, Free
    <2>2. Only(p) /\ killed' = killed
      BY <1>6, <2>1, Moves DEF CopyCert, CertFail, GoTo, Fail
    <2> QED
      BY <1>6, <2>1, <2>2 DEF CopyCert, config, running
  <1>7. CASE CopyKey(p)
    <2>1. p \in Actors /\ lock = p
      BY <1>7, InHand DEF CopyKey, At, Free
    <2>2. Only(p) /\ killed' = killed
      BY <1>7, <2>1, Moves DEF CopyKey, GoTo
    <2> QED
      BY <1>7, <2>1, <2>2 DEF CopyKey, config, running
  <1>8. CASE RestorePair(p)
    <2>1. p \in Actors /\ lock = p
      BY <1>8, InHand DEF RestorePair, At, Free
    <2>2. Only(p) /\ killed' = killed
      BY <1>8, <2>1, Moves DEF RestorePair, CertFail, GoTo, Fail
    <2> QED
      BY <1>8, <2>1, <2>2 DEF RestorePair, config, running
  <1>9. CASE p = Timer /\ ReloadHysteria
    <2>1. p \in Actors /\ lock = p
      BY <1>9, InHand DEF ReloadHysteria, At, Free
    <2>2. Only(p) /\ killed' = killed
      BY <1>9, <2>1, Moves DEF ReloadHysteria, Finish, Fail
    <2> QED
      BY <1>9, <2>1, <2>2 DEF ReloadHysteria, config
  <1>10. CASE p = Agent /\ Move
    <2>1. p \in Actors /\ lock = p
      BY <1>10, InHand DEF Move, At, Free
    <2>2. Only(p) /\ killed' = killed
      BY <1>10, <2>1, Moves DEF Move, GoTo
    <2> QED
      BY <1>10, <2>1, <2>2 DEF Move, config, running
  <1>11. CASE p = Agent /\ RestoreHy2Cert
    <2>1. p \in Actors /\ lock = p
      BY <1>11, InHand DEF RestoreHy2Cert, At, Free
    <2>2. Only(p) /\ killed' = killed
      BY <1>11, <2>1, Moves DEF RestoreHy2Cert, Fail
    <2> QED
      BY <1>11, <2>1, <2>2 DEF RestoreHy2Cert, config, running
  <1>12. CASE p = Agent /\ RotateHy2Config
    <2>1. p \in Actors /\ lock = p
      BY <1>12, InHand DEF RotateHy2Config, At, Free
    <2>2. Only(p) /\ killed' = killed
      BY <1>12, <2>1, Moves DEF RotateHy2Config, GoTo, Fail
    <2> QED
      BY <1>12, <2>1, <2>2 DEF RotateHy2Config, config
  <1>13. CASE p = Agent /\ SaveHost
    <2>1. p \in Actors /\ lock = p /\ local[p].host \in Hosts
      BY <1>13, InHand DEF SaveHost, At, Free
    <2>2. Only(p) /\ killed' = killed
      BY <1>13, <2>1, Moves DEF SaveHost, GoTo, Fail
    <2> QED
      BY <1>13, <2>1, <2>2 DEF SaveHost, running
  <1>14. CASE p = Agent /\ RegenerateSubscriptions(Agent)
    <2>1. p \in Actors /\ lock = p
      BY <1>14, InHand DEF RegenerateSubscriptions, At, Free
    <2>2. Only(p) /\ killed' = killed
      BY <1>14, <2>1, Moves DEF RegenerateSubscriptions, Finish, Fail
    <2> QED
      BY <1>14, <2>1, <2>2 DEF RegenerateSubscriptions, running
  <1> QED
    BY <1>2, <1>3, <1>4, <1>5, <1>6, <1>7, <1>8, <1>9, <1>10, <1>11, <1>12, <1>13, <1>14,
       SessionsApart
    DEF Renewal, Rotation, Certificate

LEMMA KillFrame ==
    ASSUME TypeInv, NEW p \in Actors, Kill(p)
    PROVE  /\ Only(p) /\ lock = p /\ Fault /\ killed' = TRUE /\ Stop(p)
           /\ UNCHANGED <<config, running, systemd, certs, history>>
  BY Moves DEF Kill

\* While a holder of the lock goes on, nobody else is in the middle of something.
LEMMA Alone ==
    ASSUME TypeInv, NEW p \in Actors, lock \in {None, p}, Only(p)
    PROVE  \A q \in Actors : q # p => pc[q] \in Free /\ pc'[q] \in Free
  BY SessionsApart DEF TypeInv, ControlInv, Only

LEMMA FaultCounts ==
    ASSUME TypeInv
    PROVE  /\ faults \in Nat
           /\ NoFault => faults' = faults
           /\ Fault => faults' = faults + 1 /\ faults' # 0
  BY DEF TypeInv, DataInv, NoFault, Fault

-----------------------------------------------------------------------------
(* Certificate and key belong together.                                    *)

LEMMA InitPair ==
    ASSUME Init
    PROVE  PairInv
  BY SessionsApart DEF Init, PairInv, RenewSteps, RotateSteps, CertSteps

\* The certificates, and who is at them, stay as they are.
LEMMA PairFrame ==
    ASSUME TypeInv, PairInv, UNCHANGED <<pair, store, killed>>, NoFault \/ Fault,
           \A p \in {Timer, Agent} : pc'[p] = pc[p] /\ local'[p] = local[p]
    PROVE  PairInv'
  BY FaultCounts DEF PairInv, Leaf

\* Nobody is at the certificates.
LEMMA PairAtRest ==
    ASSUME TypeInv, PairInv, NEW p \in {Timer, Agent}, lock \in {None, p},
           pc[p] \in Free \cup {"lego", "copy_cert", "reload_hy2", "move", "rotate_hy2",
                                "save_host", "subs", "rollback"},
           faults <= 1, ~killed
    PROVE  pair.cert = pair.key
  BY SessionsApart DEF PairInv, TypeInv, ControlInv, Free

\* p takes a step.
LEMMA PairStep ==
    ASSUME TypeInv, PairInv, NEW p \in {Timer, Agent}, lock \in {None, p}, Only(p),
           killed' = killed, NoFault \/ Fault,
           pc'[p] \in {"restore_pair", "rollback"} => faults' # 0,
           faults' <= 1 /\ ~killed =>
               /\ pc'[p] \notin {"copy_key", "restore_pair"} => pair'.cert = pair'.key
               /\ pc'[p] \in RenewSteps \cup RotateSteps =>
                    local'[p].before.cert = local'[p].before.key
               /\ pc'[p] = "copy_key" => pair'.cert = Leaf(p)'
    PROVE  PairInv'
  <1>1. \A q \in {Timer, Agent} : q # p => pc'[q] \in Free
    BY Alone, SessionsApart
  <1>2. \A q \in {Timer, Agent} : q # p =>
          pc'[q] \notin RenewSteps \cup RotateSteps \cup {"copy_key", "restore_pair", "rollback"}
    BY <1>1 DEF Free, RenewSteps, RotateSteps, CertSteps
  <1>3. faults = 0 => ~killed
    BY DEF PairInv
  <1>4. faults' = 0 => faults = 0
    BY FaultCounts
  <1> QED
    BY <1>2, <1>3, <1>4 DEF PairInv

\* What is known of the pair while p works on it.
LEMMA PairKnown ==
    ASSUME TypeInv, PairInv, NEW p \in {Timer, Agent}, pc[p] \notin Free
    PROVE  /\ lock = p /\ p \in Actors
           /\ faults \in Nat
           /\ pc[p] \in {"restore_pair", "rollback"} => faults # 0
           /\ faults <= 1 /\ ~killed =>
               /\ pc[p] \notin {"copy_key", "restore_pair"} => pair.cert = pair.key
               /\ local[p].before.cert = local[p].before.key
               /\ pc[p] = "copy_key" => pair.cert = Leaf(p)
  <1>1. lock = p /\ p \in Actors /\ pc[p] \in RenewSteps \cup RotateSteps
    BY InHand
  <1>2. \A q \in {Timer, Agent} : q # p => pc[q] \notin {"copy_key", "restore_pair"}
    BY <1>1, OthersWait, SessionsApart DEF Free
  <1> QED
    BY <1>1, <1>2, FaultCounts DEF PairInv

LEMMA TakePair ==
    ASSUME TypeInv, PairInv, NEW p \in {Timer, Agent}, NEW h, lock = None, NoFault,
           killed' = killed, pair' = pair, Only(p),
           local' = [local EXCEPT ![p] = [host |-> h, before |-> pair]],
           Become(p, "lego")
    PROVE  PairInv'
  <1>1. pc'[p] = "lego" /\ local'[p].before = pair
    BY SessionsApart DEF Become, TypeInv, ControlInv
  <1>2. pc[p] \in Free
    BY SessionsApart DEF TypeInv, ControlInv
  <1>3. faults' <= 1 /\ ~killed => pair.cert = pair.key
    BY <1>2, PairAtRest, FaultCounts
  <1> QED
    BY <1>1, <1>3, PairStep

\* Where the holder of the lock is after a step.
LEMMA Lands ==
    ASSUME TypeInv, NEW p \in Actors
    PROVE  /\ \A step : GoTo(p, step) => pc'[p] = step /\ local' = local
           /\ Finish(p) => pc'[p] = "idle"
           /\ Stop(p) => pc'[p] \in {"idle", "failed"}
           /\ Stop(p) /\ p \in Sessions => pc'[p] = "failed"
  BY DEF GoTo, Finish, Stop, Become, TypeInv, ControlInv

LEMMA PairCertFail ==
    ASSUME TypeInv, NEW p \in {Timer, Agent}, CertFail(p)
    PROVE  /\ p = Agent => pc'[p] = "rollback" /\ local' = local
           /\ p = Timer => pc'[p] = "idle"
  BY Lands, SessionsApart DEF CertFail, Fail, Stop, Become, TypeInv, ControlInv

LEMMA NotAtPair ==
    /\ "idle" \notin RenewSteps \cup RotateSteps \cup {"copy_key", "restore_pair", "rollback"}
    /\ "failed" \notin RenewSteps \cup RotateSteps \cup {"copy_key", "restore_pair", "rollback"}
    /\ "lock" \notin RenewSteps \cup RotateSteps \cup {"copy_key", "restore_pair", "rollback"}
  BY DEF RenewSteps, RotateSteps, CertSteps

LEMMA CertificatePair ==
    ASSUME TypeInv, PairInv, NEW p \in {Timer, Agent}, Certificate(p), Only(p), killed' = killed
    PROVE  PairInv'
  <1>1. pc[p] \notin Free /\ pc[p] \in CertSteps
    BY DEF Certificate, Lego, CopyCert, CopyKey, RestorePair, At, Free, CertSteps
  <1>2. pair \in Pairs /\ local[p].before \in Pairs
    BY <1>1, InHand DEF DataInv
  <1>3. CASE Lego(p)
    <2>1. pc[p] = "lego" /\ pair' = pair
      BY <1>3 DEF Lego, At
    <2>2. CASE GoTo(p, "copy_cert") /\ NoFault
      BY <1>1, <2>1, <2>2, PairKnown, Lands, PairStep, FaultCounts
    <2>3. CASE CertFail(p) /\ Fault
      BY <1>1, <2>1, <2>3, PairKnown, PairCertFail, NotAtPair, PairStep, FaultCounts
    <2> QED
      BY <1>3, <2>2, <2>3 DEF Lego
  <1>4. CASE CopyCert(p)
    <2>1. pc[p] = "copy_cert"
      BY <1>4 DEF CopyCert, At
    <2>2. CASE NoFault /\ pair' = [pair EXCEPT !.cert = Leaf(p)] /\ GoTo(p, "copy_key")
      <3>1. pc'[p] = "copy_key" /\ local' = local /\ store' = store
        BY <1>1, <1>4, <2>2, PairKnown, Lands DEF CopyCert
      <3>2. pair'.cert = Leaf(p) /\ Leaf(p)' = Leaf(p)
        BY <1>2, <2>2, <3>1 DEF Pairs, Leaf
      <3> QED
        BY <1>1, <2>1, <2>2, <3>1, <3>2, PairKnown, PairStep, FaultCounts
    <2>3. CASE Fault /\ UNCHANGED pair /\ CertFail(p)
      BY <1>1, <2>1, <2>3, PairKnown, PairCertFail, NotAtPair, PairStep, FaultCounts
    <2> QED
      BY <1>4, <2>2, <2>3 DEF CopyCert
  <1>5. CASE CopyKey(p)
    <2>1. pc[p] = "copy_key"
      BY <1>5 DEF CopyKey, At
    <2>2. CASE NoFault /\ pair' = [pair EXCEPT !.key = Leaf(p)]
               /\ GoTo(p, IF p = Timer THEN "reload_hy2" ELSE "move")
      <3>1. pc'[p] \in {"reload_hy2", "move"} /\ local' = local
        BY <1>1, <2>2, PairKnown, Lands
      <3>2. pair'.key = Leaf(p) /\ pair'.cert = pair.cert
        BY <1>2, <2>2 DEF Pairs
      <3> QED
        BY <1>1, <2>1, <2>2, <3>1, <3>2, PairKnown, PairStep, FaultCounts
    <2>3. CASE Fault /\ UNCHANGED pair /\ GoTo(p, "restore_pair")
      BY <1>1, <2>1, <2>3, PairKnown, Lands, PairStep, FaultCounts
    <2> QED
      BY <1>5, <2>2, <2>3 DEF CopyKey
  <1>6. CASE RestorePair(p)
    <2>1. pc[p] = "restore_pair"
      BY <1>6 DEF RestorePair, At
    <2>2. CASE NoFault /\ pair' = local[p].before
      BY <1>1, <1>6, <2>1, <2>2, PairKnown, PairCertFail, NotAtPair, PairStep, FaultCounts
      DEF RestorePair
    <2>3. CASE Fault
      <3>1. faults' > 1
        BY <1>1, <2>1, <2>3, PairKnown, FaultCounts
      <3> QED
        BY <1>1, <2>3, <3>1, PairKnown, PairStep, FaultCounts
    <2> QED
      BY <1>6, <2>2, <2>3 DEF RestorePair
  <1> QED
    BY <1>3, <1>4, <1>5, <1>6 DEF Certificate

\* The rest of a renewal and of a rotation leaves the pair alone, or puts it back.
LEMMA AfterPair ==
    ASSUME TypeInv, PairInv, NEW p \in {Timer, Agent}, pc[p] \notin Free, Only(p), killed' = killed,
           \/ pc[p] \notin {"copy_key", "restore_pair", "rollback"} /\ pair' = pair
              /\ (NoFault \/ Fault)
           \/ pc[p] = "rollback" /\ NoFault /\ pair' = local[p].before
           \/ pc[p] = "rollback" /\ Fault,
           \/ pc'[p] \in {"idle", "failed"}
           \/ /\ \/ pc'[p] \notin {"copy_key", "restore_pair", "rollback"}
                 \/ pc'[p] = "rollback" /\ Fault
              /\ local'[p] = local[p]
    PROVE  PairInv'
  <1>1. NoFault \/ Fault
    OBVIOUS
  <1>2. CASE faults' <= 1 /\ ~killed
    <2>1. faults <= 1 /\ (pc[p] = "rollback" => NoFault)
      BY <1>1, <1>2, PairKnown, FaultCounts
    <2>2. pair'.cert = pair'.key
      BY <1>2, <2>1, PairKnown, FaultCounts
    <2> QED
      BY <1>1, <1>2, <2>1, <2>2, PairKnown, NotAtPair, PairStep, FaultCounts
  <1>3. CASE ~(faults' <= 1 /\ ~killed)
    BY <1>1, <1>3, PairKnown, NotAtPair, PairStep, FaultCounts
  <1> QED
    BY <1>2, <1>3

LEMMA AgePair ==
    ASSUME TypeInv, PairInv, Age
    PROVE  PairInv'
  <1>1. \A p \in {Timer, Agent} : pc[p] \in Free
    BY SessionsApart DEF Age, TypeInv, ControlInv
  <1>2. \A p \in {Timer, Agent} :
          pc[p] \notin RenewSteps \cup RotateSteps \cup {"copy_key", "restore_pair", "rollback"}
    BY <1>1, NotAtPair DEF Free
  <1>3. pair'.cert = Aged(pair.cert) /\ pair'.key = Aged(pair.key)
    BY DEF Age
  <1> QED
    BY <1>2, <1>3 DEF Age, NoFault, PairInv, control

LEMMA KillPair ==
    ASSUME TypeInv, PairInv, NEW p \in Actors, Kill(p)
    PROVE  PairInv'
  <1>1. Only(p) /\ killed' = TRUE /\ Fault
    BY KillFrame
  <1>2. pc'[p] \in {"idle", "failed"}
    BY Lands, KillFrame
  <1>3. faults' # 0
    BY <1>1, FaultCounts
  <1> QED
    BY <1>1, <1>3 DEF PairInv

LEMMA PairNext ==
    ASSUME TypeInv, PairInv, [Next]_vars
    PROVE  PairInv'
  <1>1. CASE \E s \in Sessions : (\E c \in Commands : Start(s, c)) \/ Rerun(s) \/ Command(s)
    BY <1>1, SessionFrame, PairFrame, SessionsApart DEF Only, certs
  <1>2. CASE RenewRead
    <2>1. Only(Timer) /\ UNCHANGED <<pair, store, killed>>
      BY <1>2, CertificateFrame DEF RenewRead, certs
    <2>2. pc[Timer] = "idle" /\ pc'[Timer] = "lock" /\ pc'[Agent] = pc[Agent]
          /\ local'[Agent] = local[Agent]
      BY <1>2, <2>1, SessionsApart DEF RenewRead, At, Become, Only, TypeInv, ControlInv
    <2> QED
      BY <1>2, <2>1, <2>2, NotAtPair, SessionsApart DEF RenewRead, NoFault, PairInv, Leaf
  <1>3. CASE RenewLock
    <2>1. Only(Timer) /\ killed' = killed
      BY <1>3, CertificateFrame
    <2>2. local' = [local EXCEPT ![Timer] = [host |-> local[Timer].host, before |-> pair]]
      BY <1>3, SessionsApart DEF RenewLock, TypeInv, ControlInv
    <2> QED
      BY <1>3, <2>1, <2>2, TakePair DEF RenewLock, certs
  <1>4. CASE \E h \in Hosts : Rotate(h)
    <2>1. Only(Agent) /\ killed' = killed
      BY <1>4, CertificateFrame
    <2> QED
      BY <1>4, <2>1, TakePair DEF Rotate, certs
  <1>5. CASE Renewal
    <2>1. Only(Timer) /\ killed' = killed
      BY <1>5, CertificateFrame
    <2>2. CASE ReloadHysteria
      <3>1. pc[Timer] = "reload_hy2" /\ pair' = pair /\ (NoFault \/ Fault)
        BY <2>2 DEF ReloadHysteria, At, certs
      <3>2. pc'[Timer] \in {"idle", "failed"}
        BY <2>2, Lands, SessionsApart DEF ReloadHysteria, Fail
      <3> QED
        BY <2>1, <3>1, <3>2, AfterPair DEF Free
    <2> QED
      BY <1>5, <2>1, <2>2, CertificatePair DEF Renewal
  <1>6. CASE Rotation
    <2>1. Only(Agent) /\ killed' = killed
      BY <1>6, CertificateFrame
    <2>2. CASE Move
      <3>1. pc[Agent] = "move" /\ pair' = pair /\ (NoFault \/ Fault)
        BY <2>2 DEF Move, At, certs
      <3>2. /\ pc'[Agent] = "rotate_hy2" \/ (pc'[Agent] = "rollback" /\ Fault)
            /\ local' = local
        <4>1. GoTo(Agent, "rotate_hy2") \/ (GoTo(Agent, "rollback") /\ Fault)
          BY <2>2 DEF Move
        <4> QED
          BY <4>1, Lands, SessionsApart
      <3> QED
        BY <2>1, <3>1, <3>2, AfterPair DEF Free
    <2>3. CASE RestoreHy2Cert
      <3>1. pc[Agent] = "rollback" /\ ((NoFault /\ pair' = local[Agent].before) \/ Fault)
        BY <2>3 DEF RestoreHy2Cert, At
      <3>2. pc'[Agent] \in {"idle", "failed"}
        BY <2>3, Lands, SessionsApart DEF RestoreHy2Cert, Fail
      <3> QED
        BY <2>1, <3>1, <3>2, AfterPair DEF Free
    <2>4. CASE RotateHy2Config
      <3>1. pc[Agent] = "rotate_hy2" /\ pair' = pair /\ (NoFault \/ Fault)
        BY <2>4 DEF RotateHy2Config, At, certs
      <3>2. pc'[Agent] \in {"idle", "failed"} \/ (pc'[Agent] = "save_host" /\ local' = local)
        <4>1. Stop(Agent) \/ GoTo(Agent, "save_host")
          BY <2>4 DEF RotateHy2Config, Fail
        <4> QED
          BY <4>1, Lands, SessionsApart
      <3> QED
        BY <2>1, <3>1, <3>2, AfterPair DEF Free
    <2>5. CASE SaveHost
      <3>1. pc[Agent] = "save_host" /\ pair' = pair /\ (NoFault \/ Fault)
        BY <2>5 DEF SaveHost, At, certs
      <3>2. pc'[Agent] \in {"idle", "failed"} \/ (pc'[Agent] = "subs" /\ local' = local)
        <4>1. Stop(Agent) \/ GoTo(Agent, "subs")
          BY <2>5 DEF SaveHost, Fail
        <4> QED
          BY <4>1, Lands, SessionsApart
      <3> QED
        BY <2>1, <3>1, <3>2, AfterPair DEF Free
    <2>6. CASE RegenerateSubscriptions(Agent)
      <3>1. pc[Agent] = "subs" /\ pair' = pair /\ (NoFault \/ Fault)
        BY <2>6 DEF RegenerateSubscriptions, At, certs
      <3>2. pc'[Agent] \in {"idle", "failed"}
        BY <2>6, Lands, SessionsApart DEF RegenerateSubscriptions, Fail
      <3> QED
        BY <2>1, <3>1, <3>2, AfterPair DEF Free
    <2> QED
      BY <1>6, <2>1, <2>2, <2>3, <2>4, <2>5, <2>6, CertificatePair DEF Rotation
  <1>7. CASE \E p \in Actors : Kill(p)
    BY <1>7, KillPair
  <1>8. CASE Reboot
    BY <1>8, PairFrame DEF Reboot, certs, control
  <1>9. CASE Age
    BY <1>9, AgePair
  <1>10. CASE UNCHANGED vars
    BY <1>10, PairFrame DEF vars, certs, control, NoFault
  <1> QED
    BY <1>1, <1>2, <1>3, <1>4, <1>5, <1>6, <1>7, <1>8, <1>9, <1>10 DEF Next

-----------------------------------------------------------------------------
(* The units and hysteria.                                                 *)

LEMMA InitSystem ==
    ASSUME Init
    PROVE  UnitInv /\ HysteriaInv
  <1>1. \A s \in Sessions : pc[s] = "idle"
    BY SessionsApart DEF Init
  <1>2. pair \in Pairs /\ pair.cert \in Leaves /\ env \in Envs
    BY InitType DEF TypeInv, DataInv, Pairs
  <1>3. units["hysteria"] = "gone" <=> ~env.hy2
    BY DEF Init
  <1>4. enabled = env.hy2 /\ applied = units
    BY DEF Init
  <1>5. hyRun = Down <=> ~env.hy2
    BY <1>2, DownAssumption DEF Init
  <1> QED
    BY <1>1, <1>3, <1>4, <1>5
    DEF UnitInv, HysteriaInv, UnitAt, HysteriaAt, Written, UnitSteps

LEMMA UnitsTyped ==
    ASSUME TypeInv
    PROVE  /\ "xray" \in Units /\ "hysteria" \in Units
           /\ \A u \in Units : u = "xray" \/ u = "hysteria"
           /\ units \in [Units -> {"gone", "old", "new"}]
           /\ applied \in [Units -> {"gone", "old", "new"}]
           /\ faults \in Nat /\ enabled \in BOOLEAN
  BY DEF Units, TypeInv, DataInv

\* No session does anything, and nothing it looks at changes.
LEMMA SystemFrame ==
    ASSUME TypeInv, UnitInv, HysteriaInv, UNCHANGED <<units, applied, enabled>>, env'.hy2 = env.hy2,
           hyRun' = Down <=> hyRun = Down, NoFault \/ Fault,
           \A s \in Sessions : pc'[s] = pc[s] /\ local'[s] = local[s]
    PROVE  UnitInv' /\ HysteriaInv'
  <1>1. faults' = 0 => faults = 0
    BY FaultCounts
  <1>2. \A s \in Sessions, u \in Units : Written(s, u)' <=> Written(s, u)
    BY DEF Written
  <1>3. \A s \in Sessions : Changes(s)' <=> Changes(s)
    BY DEF Changes, Written
  <1>4. \A s \in Sessions : UnitAt(s) => UnitAt(s)'
    BY DEF UnitAt, Written
  <1>5. \A s \in Sessions : HysteriaAt(s) => HysteriaAt(s)'
    BY DEF HysteriaAt
  <1>6. UnitInv'
    BY <1>1, <1>2, <1>4 DEF UnitInv
  <1>7. HysteriaInv'
    BY <1>1, <1>3, <1>5 DEF HysteriaInv
  <1> QED
    BY <1>6, <1>7

\* What holds of a session at rest.
LEMMA AtNothing ==
    ASSUME NEW s, pc[s] \in Free
    PROVE  UnitAt(s) /\ HysteriaAt(s) /\ ~Changes(s) /\ \A u : ~Written(s, u)
  BY DEF UnitAt, HysteriaAt, Changes, Written, Free, UnitSteps

\* Without a session at work.
LEMMA SystemAtRest ==
    ASSUME UnitInv, HysteriaInv, \A s \in Sessions : pc[s] \in Free, faults = 0
    PROVE  /\ \A u \in Units : units[u] # "gone" => applied[u] = units[u]
           /\ units["hysteria"] # "gone" => hyRun # Down /\ enabled
  BY AtNothing DEF UnitInv, HysteriaInv

LEMMA SystemRests ==
    ASSUME \A s \in Sessions : pc'[s] \in Free,
           units'["xray"] # "new" => applied'["xray"] = units'["xray"],
           units'["hysteria"] = "gone" => hyRun' = Down /\ ~enabled',
           faults' = 0 =>
               /\ \A u \in Units : units'[u] # "gone" => applied'[u] = units'[u]
               /\ units'["hysteria"] # "gone" => hyRun' # Down /\ enabled'
    PROVE  UnitInv' /\ HysteriaInv'
  <1>1. \A s \in Sessions : UnitAt(s)' /\ HysteriaAt(s)'
    BY DEF UnitAt, HysteriaAt, Written, Free, UnitSteps
  <1> QED
    BY <1>1 DEF UnitInv, HysteriaInv

\* The session s takes a step.
LEMMA SystemStep ==
    ASSUME TypeInv, NEW s \in Sessions, lock \in {None, s}, Only(s),
           units'["xray"] # "new" => applied'["xray"] = units'["xray"],
           UnitAt(s)',
           faults' = 0 => \A u \in Units :
               units'[u] # "gone" => applied'[u] = units'[u] \/ Written(s, u)',
           units'["hysteria"] = "gone" => hyRun' = Down /\ ~enabled',
           HysteriaAt(s)',
           faults' = 0 /\ units'["hysteria"] # "gone" =>
               (hyRun' # Down /\ enabled') \/ Changes(s)'
    PROVE  UnitInv' /\ HysteriaInv'
  <1>1. \A q \in Sessions : q # s => pc'[q] \in Free
    BY Alone, SessionsApart
  <1>2. \A q \in Sessions : q # s => UnitAt(q)' /\ HysteriaAt(q)'
    BY <1>1 DEF UnitAt, HysteriaAt, Written, Free, UnitSteps
  <1>3. UnitInv'
    BY <1>2 DEF UnitInv
  <1>4. HysteriaInv'
    BY <1>2 DEF HysteriaInv
  <1> QED
    BY <1>3, <1>4

\* What is known while s is at work, or nobody is.
LEMMA SystemKnown ==
    ASSUME TypeInv, UnitInv, HysteriaInv, NEW s \in Sessions, lock \in {None, s}
    PROVE  /\ units["xray"] # "new" => applied["xray"] = units["xray"]
           /\ UnitAt(s) /\ HysteriaAt(s)
           /\ faults = 0 => \A u \in Units :
                units[u] # "gone" => applied[u] = units[u] \/ Written(s, u)
           /\ units["hysteria"] = "gone" => hyRun = Down /\ ~enabled
           /\ faults = 0 /\ units["hysteria"] # "gone" => (hyRun # Down /\ enabled) \/ Changes(s)
  <1>1. \A q \in Sessions : q # s => pc[q] \in Free
    BY SessionsApart DEF TypeInv, ControlInv
  <1>2. \A q \in Sessions : q # s => ~Changes(q) /\ \A u : ~Written(q, u)
    BY <1>1, AtNothing
  <1>3. /\ faults = 0 => \A u \in Units :
             units[u] # "gone" => applied[u] = units[u] \/ Written(s, u)
        /\ units["xray"] # "new" => applied["xray"] = units["xray"]
        /\ UnitAt(s)
    BY <1>2 DEF UnitInv
  <1>4. /\ units["hysteria"] = "gone" => hyRun = Down /\ ~enabled
        /\ faults = 0 /\ units["hysteria"] # "gone" => (hyRun # Down /\ enabled) \/ Changes(s)
        /\ HysteriaAt(s)
    BY <1>2 DEF HysteriaInv
  <1> QED
    BY <1>3, <1>4

\* s steps between the steps that do not look at the units, or fails.
LEMMA SystemAway ==
    ASSUME TypeInv, UnitInv, HysteriaInv, NEW s \in Sessions, lock \in {None, s}, Only(s),
           UNCHANGED <<units, applied, enabled, hyRun>>, NoFault \/ Fault,
           pc[s] \notin UnitSteps, pc'[s] \notin UnitSteps, UnitAt(s)', HysteriaAt(s)'
    PROVE  UnitInv' /\ HysteriaInv'
  <1>1. faults' = 0 => faults = 0
    BY FaultCounts
  <1>2. ~Changes(s) /\ \A u : ~Written(s, u)
    BY DEF Changes, Written, UnitSteps
  <1> QED
    BY <1>1, <1>2, SystemKnown, SystemStep

LEMMA SystemFails ==
    ASSUME TypeInv, UnitInv, HysteriaInv, NEW s \in Sessions, lock = s, Only(s), Fault,
           pc'[s] \in Free,
           units'["xray"] # "new" => applied'["xray"] = units'["xray"],
           units'["hysteria"] = "gone" => hyRun' = Down /\ ~enabled'
    PROVE  UnitInv' /\ HysteriaInv'
  <1>1. \A q \in Sessions : pc'[q] \in Free
    BY Alone, SessionsApart
  <1> QED
    BY <1>1, FaultCounts, SystemRests

\* A route command, up to the subscription files.
RouteStep(s) ==
    \/ WriteXray(s) \/ WriteCloudflared(s) \/ RestartXray(s) \/ RestartCloudflared(s)
    \/ RestoreConfigs(s) \/ RestartRestored(s)

LEMMA RouteStepSystem ==
    ASSUME TypeInv, UnitInv, HysteriaInv, NEW s \in Sessions, RouteStep(s)
    PROVE  UnitInv' /\ HysteriaInv'
  <1>1. pc[s] \in RouteSteps
    BY DEF RouteStep, WriteXray, WriteCloudflared, RestartXray, RestartCloudflared,
           RestoreConfigs, RestartRestored, At, RouteSteps
  <1>2. lock = s /\ s \in Actors /\ pc[s] \notin Free /\ pc[s] \notin UnitSteps
    BY <1>1, AtWork DEF CommandSteps, RouteSteps, UnitSteps
  <1>3. Command(s)
    BY DEF RouteStep, Command
  <1>4. Only(s) /\ (NoFault \/ Fault)
    BY <1>3, SessionFrame
  <1>5. UNCHANGED <<units, applied, enabled, hyRun>>
    BY DEF RouteStep, WriteXray, WriteCloudflared, RestartXray, RestartCloudflared,
           RestoreConfigs, RestartRestored, running, systemd
  <1>6. \/ \E step \in RouteSteps : Become(s, step)
        \/ Stop(s)
    <2>1. CASE WriteXray(s)
      BY <2>1 DEF WriteXray, GoTo, Fail, RouteSteps
    <2>2. CASE WriteCloudflared(s)
      BY <2>2 DEF WriteCloudflared, GoTo, RouteSteps
    <2>3. CASE RestartXray(s)
      BY <2>3 DEF RestartXray, GoTo, Restore, RouteSteps
    <2>4. CASE RestartCloudflared(s)
      BY <2>4 DEF RestartCloudflared, GoTo, Restore, RouteSteps
    <2>5. CASE RestoreConfigs(s)
      BY <2>5 DEF RestoreConfigs, GoTo, Fail, RouteSteps
    <2>6. CASE RestartRestored(s)
      BY <2>6 DEF RestartRestored, Fail
    <2> QED
      BY <2>1, <2>2, <2>3, <2>4, <2>5, <2>6 DEF RouteStep
  <1>7. pc'[s] \in RouteSteps \cup {"failed"}
    BY <1>2, <1>6, Lands DEF Become, TypeInv, ControlInv
  <1>8. UnitAt(s)' /\ HysteriaAt(s)' /\ pc'[s] \notin UnitSteps
    BY <1>7 DEF UnitAt, HysteriaAt, Written, RouteSteps, UnitSteps
  <1> QED
    BY <1>2, <1>4, <1>5, <1>8, SystemAway

LEMMA BeginSystem ==
    ASSUME TypeInv, UnitInv, HysteriaInv, NEW s \in Sessions, NEW c \in Commands, Begin(s, c),
           Only(s)
    PROVE  UnitInv' /\ HysteriaInv'
  <1>1. /\ lock = None /\ UNCHANGED <<units, applied, enabled, hyRun, env>> /\ NoFault
        /\ local'[s].cmd = c /\ local'[s].changed = {} /\ local'[s].env = Asked(c)
    BY SessionsApart DEF Begin, running, systemd, config, TypeInv, ControlInv
  <1>2. /\ c.kind = "hy2" => pc'[s] = "save_flag"
        /\ c.kind = "reconcile" => pc'[s] = "write_units"
        /\ c.kind \in RouteKinds \cup {"reality"} => pc'[s] = "write_xray"
    BY SessionsApart DEF Begin, Become, RouteKinds, TypeInv, ControlInv
  <1>3. c.kind \in RouteKinds \cup {"hy2", "reality", "reconcile"}
    BY DEF Commands
  <1>4. pc[s] \in Free /\ s \in Actors
    BY <1>1, SessionsApart DEF TypeInv, ControlInv
  <1>5. ~Changes(s) /\ \A u \in Units : ~Written(s, u)
    BY <1>4, AtNothing
  <1>6. c.kind = "hy2" => Asked(c).hy2 = c.on
    BY DEF Asked, RouteKinds, TypeInv, DataInv, Envs
  <1>7. UnitAt(s)'
    BY <1>1, <1>2, <1>3 DEF UnitAt, Written, UnitSteps, RouteKinds
  <1>8. HysteriaAt(s)'
    BY <1>1, <1>2, <1>3, <1>6 DEF HysteriaAt, UnitSteps, RouteKinds
  <1>9. faults' = faults
    BY <1>1 DEF NoFault
  <1> QED
    BY <1>1, <1>5, <1>7, <1>8, <1>9, SystemKnown, SystemStep

LEMMA SaveEnvSystem ==
    ASSUME TypeInv, UnitInv, HysteriaInv, RouteInv, NEW s \in Sessions, SaveEnv(s)
    PROVE  UnitInv' /\ HysteriaInv'
  <1>1. pc[s] \in {"save_env", "save_flag"}
    BY DEF SaveEnv
  <1>2. lock = s /\ s \in Actors /\ pc[s] \notin Free /\ pc[s] \notin UnitSteps
    BY <1>1, AtWork DEF CommandSteps, RouteSteps, UnitSteps
  <1>3. Only(s)
    BY SessionFrame DEF Command
  <1>4. UNCHANGED <<units, applied, enabled, hyRun>>
    BY DEF SaveEnv, running, systemd
  <1>5. CASE Fault /\ Fail(s)
    <2>1. pc'[s] \in Free
      BY <1>2, <1>5, Lands DEF Fail, Free
    <2> QED
      BY <1>2, <1>3, <1>4, <1>5, <2>1, SystemKnown, SystemFails
  <1>6. CASE NoFault /\ At(s, "save_flag") /\ env' = local[s].env /\ GoTo(s, "write_units")
    <2>1. pc'[s] = "write_units" /\ local' = local
      BY <1>2, <1>6, Lands
    <2>2. /\ local[s].cmd.kind = "hy2" /\ local[s].env.hy2 = local[s].cmd.on
          /\ local[s].changed = {}
      BY <1>2, <1>6, SystemKnown DEF At, HysteriaAt, UnitAt
    <2>3. UnitAt(s)'
      BY <2>1, <2>2 DEF UnitAt, Written
    <2>4. HysteriaAt(s)'
      BY <1>6, <2>1, <2>2 DEF HysteriaAt
    <2>5. ~Changes(s) /\ \A u \in Units : ~Written(s, u)
      BY <1>6 DEF At, Changes, Written, UnitSteps
    <2>6. faults' = faults
      BY <1>6 DEF NoFault
    <2> QED
      BY <1>2, <1>3, <1>4, <2>3, <2>4, <2>5, <2>6, SystemKnown, SystemStep
  <1>7. CASE NoFault /\ At(s, "save_env") /\ GoTo(s, "subs")
    <2>1. pc'[s] = "subs" /\ local' = local
      BY <1>2, <1>7, Lands
    <2>2. local[s].cmd.kind # "hy2"
      BY <1>7 DEF At, RouteInv, RouteOf, RouteAt, RouteSteps, RouteKinds
    <2>3. UnitAt(s)' /\ HysteriaAt(s)' /\ pc'[s] \notin UnitSteps
      BY <2>1, <2>2 DEF UnitAt, HysteriaAt, Written, UnitSteps
    <2> QED
      BY <1>2, <1>3, <1>4, <1>7, <2>3, SystemAway
  <1> QED
    BY <1>5, <1>6, <1>7 DEF SaveEnv, At

LEMMA SubscriptionsSystem ==
    ASSUME TypeInv, UnitInv, HysteriaInv, NEW s \in Sessions, RegenerateSubscriptions(s)
    PROVE  UnitInv' /\ HysteriaInv'
  <1>1. pc[s] = "subs"
    BY DEF RegenerateSubscriptions, At
  <1>2. lock = s /\ s \in Actors /\ pc[s] \notin Free /\ pc[s] \notin UnitSteps
    BY <1>1, AtWork DEF CommandSteps, UnitSteps
  <1>3. Only(s) /\ (NoFault \/ Fault)
    BY SessionFrame DEF Command
  <1>4. UNCHANGED <<units, applied, enabled, hyRun>>
    BY DEF RegenerateSubscriptions, running, systemd
  <1>5. pc'[s] \in {"idle", "failed"}
    BY <1>2, Lands DEF RegenerateSubscriptions, Fail
  <1>6. UnitAt(s)' /\ HysteriaAt(s)' /\ pc'[s] \notin UnitSteps
    BY <1>5 DEF UnitAt, HysteriaAt, Written, UnitSteps
  <1> QED
    BY <1>2, <1>3, <1>4, <1>6, SystemAway

LEMMA WriteUnitSystem ==
    ASSUME TypeInv, UnitInv, HysteriaInv, NEW s \in Sessions, NEW u \in Units, WriteUnit(s, u)
    PROVE  UnitInv' /\ HysteriaInv'
  <1>1. pc[s] = "write_units" /\ u \in Canonical /\ units[u] # "new"
    BY DEF WriteUnit, At, Drifted
  <1>2. lock = s /\ s \in Actors /\ pc[s] \notin Free
    BY <1>1, AtWork DEF CommandSteps, UnitSteps
  <1>3. Only(s)
    BY SessionFrame DEF Command
  <1>4. UNCHANGED <<applied, enabled, hyRun, env>>
    BY DEF WriteUnit, running, config
  <1>5. u = "hysteria" => env.hy2
    BY <1>1 DEF Canonical
  <1> DEFINE written == [units EXCEPT ![u] = "new"]
  <1>6. /\ written[u] = "new" /\ \A v \in Units : v # u => written[v] = units[v]
    BY UnitsTyped
  <1> HIDE DEF written
  <1>7. CASE Fault /\ units' \in {units, written} /\ Fail(s)
    <2>1. pc'[s] \in Free
      BY <1>2, <1>7, Lands DEF Fail, Free
    <2>2. units'["xray"] # "new" => applied["xray"] = units'["xray"]
      BY <1>2, <1>6, <1>7, SystemKnown, UnitsTyped
    <2>3. units'["hysteria"] = "gone" => units["hysteria"] = "gone"
      BY <1>6, <1>7, UnitsTyped
    <2> QED
      BY <1>2, <1>3, <1>4, <1>7, <2>1, <2>2, <2>3, SystemKnown, SystemFails
  <1>8. CASE NoFault /\ units' = written /\ UNCHANGED pc
             /\ local' = [local EXCEPT ![s].changed = @ \cup {u},
                                       ![s].created = IF units[u] = "gone" THEN @ \cup {u} ELSE @]
    <2> DEFINE l == local[s]
    <2>1. /\ local'[s].changed = local[s].changed \cup {u}
          /\ local'[s].created = IF units[u] = "gone" THEN local[s].created \cup {u}
                                 ELSE local[s].created
          /\ local'[s].cmd = local[s].cmd
      <3>1. local[s] \in Runs /\ local \in [Actors -> Locals]
        BY <1>1, AtWork DEF CommandSteps, UnitSteps
      <3> QED
        BY <1>2, <1>8, <3>1 DEF Runs
    <2>2. /\ UnitAt(s) /\ HysteriaAt(s)
          /\ units["xray"] # "new" => applied["xray"] = units["xray"]
          /\ units["hysteria"] = "gone" => hyRun = Down /\ ~enabled
          /\ faults = 0 => \A v \in Units : units[v] # "gone" =>
                applied[v] = units[v] \/ Written(s, v)
          /\ faults = 0 /\ units["hysteria"] # "gone" => (hyRun # Down /\ enabled) \/ Changes(s)
      BY <1>2, SystemKnown
    <2>3. \A v : Written(s, v)' <=> Written(s, v) \/ v = u
      BY <1>1, <1>8, <2>1 DEF Written, UnitSteps
    <2>4. UnitAt(s)'
      <3>1. /\ local[s].cmd.kind \in {"hy2", "reconcile"}
            /\ \A v \in Units : Written(s, v) => units[v] = "new"
            /\ Written(s, "xray") => applied["xray"] # "new"
            /\ Written(s, "hysteria") => env.hy2
        BY <1>1, <2>2 DEF UnitAt, UnitSteps
      <3>2. \A v \in Units : Written(s, v)' => units'[v] = "new"
        BY <1>6, <1>8, <2>3, <3>1
      <3>3. Written(s, "xray")' => applied'["xray"] # "new"
        BY <1>1, <1>4, <2>2, <2>3, <3>1
      <3>4. Written(s, "hysteria")' => env'.hy2
        BY <1>4, <1>5, <2>3, <3>1
      <3> QED
        BY <1>1, <1>8, <2>1, <3>1, <3>2, <3>3, <3>4 DEF UnitAt
    <2>5. HysteriaAt(s)'
      BY <1>1, <1>4, <1>8, <2>1, <2>2 DEF HysteriaAt
    <2>6. faults' = faults
      BY <1>8 DEF NoFault
    <2>7. units'["xray"] # "new" => applied'["xray"] = units'["xray"]
      BY <1>4, <1>6, <1>8, <2>2, UnitsTyped
    <2>8. faults' = 0 => \A v \in Units :
            units'[v] # "gone" => applied'[v] = units'[v] \/ Written(s, v)'
      BY <1>4, <1>6, <1>8, <2>2, <2>3, <2>6
    <2>9. units'["hysteria"] = "gone" => hyRun' = Down /\ ~enabled'
      BY <1>4, <1>6, <1>8, <2>2, UnitsTyped
    <2>10. ASSUME faults' = 0, units'["hysteria"] # "gone"
           PROVE  (hyRun' # Down /\ enabled') \/ Changes(s)'
      <3>1. CASE units["hysteria"] = "gone"
        <4>1. u = "hysteria"
          BY <1>6, <1>8, <2>10, <3>1, UnitsTyped
        <4> QED
          BY <2>1, <2>3, <3>1, <4>1 DEF Changes
      <3>2. CASE units["hysteria"] # "gone" /\ Changes(s)
        <4>1. Written(s, "hysteria") /\ (enabled \/ "hysteria" \in local[s].created)
          BY <1>1, <3>2 DEF Changes
        <4>2. Written(s, "hysteria")' /\ (enabled' \/ "hysteria" \in local'[s].created)
          BY <1>4, <2>1, <2>3, <4>1
        <4> QED
          BY <4>2 DEF Changes
      <3> QED
        BY <1>4, <2>2, <2>6, <2>10, <3>1, <3>2
    <2> QED
      BY <1>2, <1>3, <2>4, <2>5, <2>7, <2>8, <2>9, <2>10, SystemStep
  <1> QED
    BY <1>7, <1>8 DEF WriteUnit, written

LEMMA RetireSystem ==
    ASSUME TypeInv, UnitInv, HysteriaInv, NEW s \in Sessions, RetireHysteriaUnit(s)
    PROVE  UnitInv' /\ HysteriaInv'
  <1>1. pc[s] = "write_units" /\ Drifted = {}
    BY DEF RetireHysteriaUnit, At
  <1>2. lock = s /\ s \in Actors /\ pc[s] \notin Free
    BY <1>1, AtWork DEF CommandSteps, UnitSteps
  <1>3. Only(s)
    BY SessionFrame DEF Command
  <1>4. UNCHANGED <<applied, units, env>>
    BY DEF RetireHysteriaUnit, config
  <1>5. env.hy2 => units["hysteria"] = "new"
    BY <1>1, UnitsTyped DEF Drifted, Canonical
  <1>6. \/ /\ env.hy2 \/ units["hysteria"] = "gone"
           /\ NoFault /\ GoTo(s, "reload") /\ UNCHANGED <<hyRun, enabled>>
        \/ /\ ~env.hy2 /\ units["hysteria"] # "gone"
           /\ NoFault /\ hyRun' = Down /\ ~enabled' /\ GoTo(s, "remove")
        \/ units["hysteria"] # "gone" /\ Fault /\ Fail(s)
    BY DEF RetireHysteriaUnit
  <1>7. CASE units["hysteria"] # "gone" /\ Fault /\ Fail(s)
    <2>1. pc'[s] \in Free
      BY <1>2, <1>7, Lands DEF Fail, Free
    <2> QED
      BY <1>2, <1>3, <1>4, <1>7, <2>1, SystemKnown, SystemFails
  <1>8. CASE NoFault /\ \E step \in {"reload", "remove"} : GoTo(s, step)
    <2>1. pc'[s] \in {"reload", "remove"} /\ local' = local
      BY <1>2, <1>8, Lands
    <2>2. faults' = faults
      BY <1>8 DEF NoFault
    <2>3. \A u : Written(s, u)' <=> Written(s, u)
      BY <1>1, <2>1 DEF Written, UnitSteps
    <2>4. UnitAt(s)'
      <3>1. units["xray"] = "new"
        BY <1>1, UnitsTyped DEF Drifted, Canonical
      <3> QED
        BY <1>1, <1>2, <1>4, <2>1, <2>3, <3>1, SystemKnown DEF UnitAt, UnitSteps
    <2>5. /\ HysteriaAt(s)
          /\ units["hysteria"] = "gone" => hyRun = Down /\ ~enabled
          /\ faults = 0 /\ units["hysteria"] # "gone" => (hyRun # Down /\ enabled) \/ Changes(s)
      BY <1>2, SystemKnown
    <2>6. local[s].cmd.kind = "hy2" => env.hy2 = local[s].cmd.on
      BY <1>1, <2>5 DEF HysteriaAt, UnitSteps
    <2>7. CASE /\ env.hy2 \/ units["hysteria"] = "gone"
               /\ GoTo(s, "reload") /\ UNCHANGED <<hyRun, enabled>>
      <3>1. pc'[s] = "reload"
        BY <1>2, <2>7, Lands
      <3>2. HysteriaAt(s)'
        BY <1>4, <1>5, <2>1, <2>5, <2>6, <2>7, <3>1 DEF HysteriaAt
      <3>3. Changes(s) => Changes(s)'
        BY <1>1, <2>1, <2>3, <2>7 DEF Changes
      <3> QED
        BY <1>2, <1>3, <1>4, <2>2, <2>3, <2>4, <2>5, <2>7, <3>2, <3>3, SystemKnown, SystemStep
    <2>8. CASE /\ ~env.hy2 /\ units["hysteria"] # "gone"
               /\ hyRun' = Down /\ ~enabled' /\ GoTo(s, "remove")
      <3>1. pc'[s] = "remove"
        BY <1>2, <2>8, Lands
      <3>2. HysteriaAt(s)'
        BY <1>4, <2>1, <2>6, <2>8, <3>1 DEF HysteriaAt
      <3>3. Changes(s)'
        BY <3>1 DEF Changes
      <3> QED
        BY <1>2, <1>3, <1>4, <2>2, <2>3, <2>4, <2>5, <2>8, <3>2, <3>3, SystemKnown, SystemStep
    <2>9. pc'[s] = "reload" \/ pc'[s] = "remove"
      BY <2>1
    <2> QED
      BY <1>2, <1>6, <1>7, <2>7, <2>8
  <1> QED
    BY <1>6, <1>7, <1>8

LEMMA RemoveSystem ==
    ASSUME TypeInv, UnitInv, HysteriaInv, NEW s \in Sessions, RemoveHysteriaUnit(s)
    PROVE  UnitInv' /\ HysteriaInv'
  <1>1. pc[s] = "remove"
    BY DEF RemoveHysteriaUnit, At
  <1>2. lock = s /\ s \in Actors /\ pc[s] \notin Free
    BY <1>1, AtWork DEF CommandSteps, UnitSteps
  <1>3. Only(s)
    BY SessionFrame DEF Command
  <1>4. UNCHANGED <<applied, enabled, hyRun, env>>
    BY DEF RemoveHysteriaUnit, running, config
  <1>5. CASE Fault /\ UNCHANGED units /\ Fail(s)
    <2>1. pc'[s] \in Free
      BY <1>2, <1>5, Lands DEF Fail, Free
    <2> QED
      BY <1>2, <1>3, <1>4, <1>5, <2>1, SystemKnown, SystemFails
  <1>6. CASE /\ NoFault /\ units' = [units EXCEPT !["hysteria"] = "gone"]
             /\ local' = [local EXCEPT ![s].retired = TRUE]
             /\ Become(s, "reload")
    <2>1. /\ local'[s].changed = local[s].changed /\ local'[s].cmd = local[s].cmd
          /\ local'[s].created = local[s].created
      <3>1. local[s] \in Runs /\ local \in [Actors -> Locals]
        BY <1>1, AtWork DEF CommandSteps, UnitSteps
      <3> QED
        BY <1>2, <1>6, <3>1 DEF Runs
    <2>2. pc'[s] = "reload"
      BY <1>2, <1>6 DEF Become, TypeInv, ControlInv
    <2>3. units'["hysteria"] = "gone" /\ units'["xray"] = units["xray"]
      BY <1>6, UnitsTyped
    <2>4. \A u : Written(s, u)' <=> Written(s, u)
      BY <1>1, <2>1, <2>2 DEF Written, UnitSteps
    <2>5. hyRun = Down /\ ~enabled /\ ~env.hy2
      BY <1>1, <1>2, SystemKnown DEF HysteriaAt
    <2>6. ~Written(s, "hysteria")
      BY <1>2, <2>5, SystemKnown DEF UnitAt
    <2>7. UnitAt(s)'
      BY <1>1, <1>2, <1>4, <2>1, <2>2, <2>3, <2>4, <2>6, SystemKnown, UnitsTyped
      DEF UnitAt, UnitSteps
    <2>8. HysteriaAt(s)'
      BY <1>1, <1>2, <1>4, <2>1, <2>2, <2>5, SystemKnown DEF HysteriaAt, UnitSteps
    <2>9. faults' = faults
      BY <1>6 DEF NoFault
    <2>10. faults' = 0 => \A v \in Units :
            units'[v] # "gone" => applied'[v] = units'[v] \/ Written(s, v)'
      BY <1>2, <1>4, <2>3, <2>4, <2>9, SystemKnown, UnitsTyped
    <2> QED
      BY <1>2, <1>3, <1>4, <2>3, <2>5, <2>7, <2>8, <2>10, SystemKnown, SystemStep
  <1> QED
    BY <1>5, <1>6 DEF RemoveHysteriaUnit

\* The units are done.
LEMMA ReconciledSystem ==
    ASSUME TypeInv, UnitInv, HysteriaInv, NEW s \in Sessions, pc[s] \in {"reload", "apply"},
           local[s].changed = {}, NoFault, Reconciled(s), Only(s),
           UNCHANGED <<units, applied, enabled, hyRun, env>>
    PROVE  UnitInv' /\ HysteriaInv'
  <1>1. lock = s /\ s \in Actors /\ pc[s] \notin Free /\ pc[s] \in UnitSteps
    BY AtWork DEF CommandSteps, UnitSteps
  <1>2. ~Changes(s) /\ \A u \in Units : ~Written(s, u)
    BY DEF Changes, Written
  <1>3. faults' = faults
    BY DEF NoFault
  <1>4. UnitAt(s) /\ HysteriaAt(s)
    BY <1>1, SystemKnown
  <1>5. CASE local[s].cmd.kind = "hy2"
    <2>1. GoTo(s, "subs")
      BY <1>5 DEF Reconciled
    <2>2. pc'[s] = "subs" /\ local' = local
      BY <1>1, <2>1, Lands
    <2>3. UnitAt(s)'
      BY <1>4, <2>2 DEF UnitAt, Written, UnitSteps
    <2>4. HysteriaAt(s)'
      BY <1>1, <1>4, <1>5, <2>2 DEF HysteriaAt
    <2> QED
      BY <1>1, <1>2, <1>3, <2>3, <2>4, SystemKnown, SystemStep
  <1>6. CASE local[s].cmd.kind # "hy2"
    <2>1. Finish(s)
      BY <1>6 DEF Reconciled
    <2>2. pc'[s] = "idle"
      BY <1>1, <2>1, Lands
    <2>3. UnitAt(s)' /\ HysteriaAt(s)'
      BY <2>2 DEF UnitAt, HysteriaAt, Written, UnitSteps
    <2> QED
      BY <1>1, <1>2, <1>3, <2>3, SystemKnown, SystemStep
  <1> QED
    BY <1>5, <1>6

LEMMA ReloadSystem ==
    ASSUME TypeInv, UnitInv, HysteriaInv, NEW s \in Sessions, DaemonReload(s)
    PROVE  UnitInv' /\ HysteriaInv'
  <1>1. pc[s] = "reload"
    BY DEF DaemonReload, At
  <1>2. lock = s /\ s \in Actors /\ pc[s] \notin Free
    BY <1>1, AtWork DEF CommandSteps, UnitSteps
  <1>3. Only(s)
    BY SessionFrame DEF Command
  <1>4. UNCHANGED <<units, applied, enabled, hyRun, env>>
    BY DEF DaemonReload, running, config, systemd
  <1>5. CASE local[s].changed = {} /\ NoFault /\ Reconciled(s)
    BY <1>1, <1>3, <1>4, <1>5, ReconciledSystem
  <1>6. CASE NoFault /\ GoTo(s, "apply")
    <2>1. pc'[s] = "apply" /\ local' = local
      BY <1>2, <1>6, Lands
    <2>2. \A u : Written(s, u)' <=> Written(s, u)
      BY <1>1, <2>1 DEF Written, UnitSteps
    <2>3. UnitAt(s)'
      BY <1>1, <1>2, <1>4, <2>1, <2>2, SystemKnown DEF UnitAt, UnitSteps
    <2>4. HysteriaAt(s)'
      BY <1>1, <1>2, <1>4, <2>1, SystemKnown DEF HysteriaAt, UnitSteps
    <2>5. Changes(s) => Changes(s)'
      BY <1>1, <1>4, <2>1, <2>2 DEF Changes
    <2>6. faults' = faults
      BY <1>6 DEF NoFault
    <2> QED
      BY <1>2, <1>3, <1>4, <2>2, <2>3, <2>4, <2>5, <2>6, SystemKnown, SystemStep
  <1>7. CASE Fault /\ Fail(s)
    <2>1. pc'[s] \in Free
      BY <1>2, <1>7, Lands DEF Fail, Free
    <2> QED
      BY <1>2, <1>3, <1>4, <1>7, <2>1, SystemKnown, SystemFails
  <1> QED
    BY <1>5, <1>6, <1>7 DEF DaemonReload

\* hysteria starts: certificate and key match as long as nothing has failed.
LEMMA LoadedRuns ==
    ASSUME TypeInv, PairInv, NEW p \in Actors, lock \in {None, p}, faults = 0,
           p \in {Timer, Agent} => pc[p] \in {"reload_hy2", "rotate_hy2"}
    PROVE  Loaded(pair) # Down
  <1>1. pair.cert \in Leaves
    BY DEF TypeInv, DataInv, Pairs
  <1>2. ~killed
    BY DEF PairInv
  <1>3. \A q \in {Timer, Agent} : pc[q] \notin {"copy_key", "restore_pair"}
    BY SessionsApart DEF TypeInv, ControlInv, Free
  <1>4. pair.cert = pair.key
    BY <1>2, <1>3 DEF PairInv
  <1> QED
    BY <1>1, <1>4, DownAssumption DEF Loaded

LEMMA ApplySystem ==
    ASSUME TypeInv, UnitInv, HysteriaInv, PairInv, NEW s \in Sessions, ApplyUnit(s)
    PROVE  UnitInv' /\ HysteriaInv'
  <1>1. pc[s] = "apply" /\ local[s] \in Runs /\ local \in [Actors -> Locals]
    BY AtWork DEF ApplyUnit, At, CommandSteps, UnitSteps
  <1>2. lock = s /\ s \in Actors /\ pc[s] \notin Free
    BY <1>1, AtWork DEF CommandSteps, UnitSteps
  <1>3. Only(s)
    BY SessionFrame DEF Command
  <1>4. UNCHANGED <<units, env>>
    BY DEF ApplyUnit, config
  <1> DEFINE u == IF "hysteria" \in local[s].changed THEN "hysteria" ELSE "xray"
  <1>5. u \in Units /\ (u = "xray" => "hysteria" \notin local[s].changed)
        /\ (local[s].changed # {} => u \in local[s].changed)
    BY <1>1 DEF Runs, Units
  <1>6. \/ /\ local[s].changed = {} /\ NoFault /\ Reconciled(s)
           /\ UNCHANGED <<running, applied, enabled>>
        \/ /\ local[s].changed # {} /\ NoFault
           /\ applied' = [applied EXCEPT ![u] = units[u]]
           /\ enabled' = (enabled \/ (u = "hysteria" /\ u \in local[s].created))
           /\ hyRun' = IF u = "hysteria" THEN Loaded(pair) ELSE hyRun
           /\ local' = [local EXCEPT ![s].changed = @ \ {u}]
           /\ UNCHANGED pc
        \/ /\ local[s].changed # {} /\ Fault
           /\ enabled' \in {enabled, enabled \/ (u = "hysteria" /\ u \in local[s].created)}
           /\ hyRun' \in IF u = "hysteria" THEN Broken(hyRun) ELSE {hyRun}
           /\ Fail(s) /\ UNCHANGED applied
    BY DEF ApplyUnit
  <1> HIDE DEF u
  <1>7. CASE /\ local[s].changed = {} /\ NoFault /\ Reconciled(s)
             /\ UNCHANGED <<running, applied, enabled>>
    BY <1>1, <1>3, <1>4, <1>7, ReconciledSystem DEF running
  <1>8. /\ UnitAt(s) /\ HysteriaAt(s)
        /\ units["xray"] # "new" => applied["xray"] = units["xray"]
        /\ units["hysteria"] = "gone" => hyRun = Down /\ ~enabled
        /\ faults = 0 => \A v \in Units : units[v] # "gone" =>
              applied[v] = units[v] \/ Written(s, v)
        /\ faults = 0 /\ units["hysteria"] # "gone" => (hyRun # Down /\ enabled) \/ Changes(s)
    BY <1>2, SystemKnown
  <1>9. /\ \A v : Written(s, v) <=> v \in local[s].changed
        /\ local[s].cmd.kind \in {"hy2", "reconcile"}
        /\ \A v \in Units : Written(s, v) => units[v] = "new"
        /\ Written(s, "xray") => applied["xray"] # "new"
        /\ Written(s, "hysteria") => env.hy2
        /\ units["xray"] = "new"
    BY <1>1, <1>8 DEF UnitAt, Written, UnitSteps
  <1>10. CASE /\ local[s].changed # {} /\ NoFault
              /\ applied' = [applied EXCEPT ![u] = units[u]]
              /\ enabled' = (enabled \/ (u = "hysteria" /\ u \in local[s].created))
              /\ hyRun' = IF u = "hysteria" THEN Loaded(pair) ELSE hyRun
              /\ local' = [local EXCEPT ![s].changed = @ \ {u}]
              /\ UNCHANGED pc
    <2>1. /\ local'[s].changed = local[s].changed \ {u} /\ local'[s].cmd = local[s].cmd
          /\ local'[s].created = local[s].created
      BY <1>1, <1>2, <1>10 DEF Runs
    <2>2. \A v : Written(s, v)' <=> v \in local[s].changed /\ v # u
      BY <1>1, <1>10, <2>1 DEF Written, UnitSteps
    <2>3. applied'[u] = units[u] /\ units[u] = "new"
          /\ \A v \in Units : v # u => applied'[v] = applied[v]
      BY <1>5, <1>9, <1>10, UnitsTyped
    <2>4. faults' = faults
      BY <1>10 DEF NoFault
    <2>5. UnitAt(s)'
      <3>1. \A v \in Units : Written(s, v)' => units'[v] = "new"
        BY <1>4, <1>9, <2>2
      <3>2. Written(s, "xray")' => applied'["xray"] # "new"
        BY <1>9, <2>2, <2>3, UnitsTyped
      <3>3. Written(s, "hysteria")' => env'.hy2
        BY <1>4, <1>9, <2>2
      <3> QED
        BY <1>1, <1>4, <1>9, <1>10, <2>1, <3>1, <3>2, <3>3 DEF UnitAt
    <2>6. IF env.hy2 THEN units["hysteria"] = "new" ELSE hyRun' = Down /\ ~enabled'
      <3>1. IF env.hy2 THEN units["hysteria"] = "new" ELSE hyRun = Down /\ ~enabled
        BY <1>1, <1>8 DEF HysteriaAt
      <3>2. u = "hysteria" => env.hy2
        BY <1>5, <1>9, <1>10
      <3> QED
        BY <1>10, <3>1, <3>2
    <2>7. HysteriaAt(s)'
      BY <1>1, <1>4, <1>8, <1>10, <2>1, <2>6 DEF HysteriaAt, UnitSteps
    <2>8. units'["xray"] # "new" => applied'["xray"] = units'["xray"]
      BY <1>4, <1>8, <2>3, UnitsTyped
    <2>9. faults' = 0 => \A v \in Units :
            units'[v] # "gone" => applied'[v] = units'[v] \/ Written(s, v)'
      BY <1>4, <1>8, <1>9, <2>2, <2>3, <2>4
    <2>10. units'["hysteria"] = "gone" => hyRun' = Down /\ ~enabled'
      <3>1. units["hysteria"] = "gone" => u # "hysteria"
        BY <2>3
      <3> QED
        BY <1>4, <1>8, <1>10, <3>1
    <2>11. ASSUME faults' = 0, units'["hysteria"] # "gone"
           PROVE  hyRun' # Down /\ enabled'
      <3>1. CASE u = "hysteria"
        <4>1. Loaded(pair) # Down
          BY <1>2, <2>4, <2>11, LoadedRuns, SessionsApart
        <4>2. "hysteria" \in local[s].changed
          BY <1>5, <1>10, <3>1
        <4>3. enabled \/ "hysteria" \in local[s].created
          BY <1>1, <1>4, <1>8, <2>4, <2>11 DEF Changes
        <4> QED
          BY <1>10, <3>1, <4>1, <4>3
      <3>2. CASE u # "hysteria"
        <4>1. ~Changes(s)
          BY <1>1, <1>5, <1>9, <3>2 DEF Changes, u
        <4> QED
          BY <1>4, <1>8, <1>10, <2>4, <2>11, <3>2, <4>1
      <3> QED
        BY <3>1, <3>2
    <2> QED
      BY <1>2, <1>3, <2>5, <2>7, <2>8, <2>9, <2>10, <2>11, SystemStep
  <1>11. CASE /\ local[s].changed # {} /\ Fault
              /\ enabled' \in {enabled, enabled \/ (u = "hysteria" /\ u \in local[s].created)}
              /\ hyRun' \in IF u = "hysteria" THEN Broken(hyRun) ELSE {hyRun}
              /\ Fail(s) /\ UNCHANGED applied
    <2>1. pc'[s] \in Free
      BY <1>2, <1>11, Lands DEF Fail, Free
    <2>2. units["hysteria"] = "gone" => u # "hysteria"
      BY <1>5, <1>9, <1>11
    <2>3. units["hysteria"] = "gone" => hyRun' = Down /\ ~enabled'
      <3>1. u # "hysteria" => (enabled' <=> enabled)
        BY <1>11
      <3> QED
        BY <1>8, <1>11, <2>2, <3>1
    <2> QED
      BY <1>2, <1>3, <1>4, <1>8, <1>11, <2>1, <2>3, SystemFails
  <1> QED
    BY <1>6, <1>7, <1>10, <1>11

\* The timer or the agent restarts hysteria.
LEMMA RestartSystem ==
    ASSUME TypeInv, UnitInv, HysteriaInv, PairInv, NEW p \in {Timer, Agent}, lock = p, Only(p),
           UNCHANGED <<units, applied, enabled>>, units["hysteria"] # "gone",
           pc[p] \in {"reload_hy2", "rotate_hy2"},
           (NoFault /\ hyRun' = Loaded(pair)) \/ Fault
    PROVE  UnitInv' /\ HysteriaInv'
  <1>1. p \in Actors /\ \A s \in Sessions : s # p
    BY SessionsApart
  <1>2. \A s \in Sessions : pc[s] \in Free /\ pc'[s] \in Free
    BY <1>1, Alone, SessionsApart
  <1>3. /\ units["xray"] # "new" => applied["xray"] = units["xray"]
        /\ units["hysteria"] = "gone" => hyRun = Down /\ ~enabled
    BY DEF UnitInv, HysteriaInv
  <1>4. ASSUME faults' = 0
        PROVE  /\ \A u \in Units : units'[u] # "gone" => applied'[u] = units'[u]
               /\ units'["hysteria"] # "gone" => hyRun' # Down /\ enabled'
    <2>1. NoFault /\ hyRun' = Loaded(pair) /\ faults = 0
      BY <1>4, FaultCounts
    <2>2. Loaded(pair) # Down
      BY <1>1, <2>1, LoadedRuns
    <2> QED
      BY <1>2, <2>1, <2>2, SystemAtRest
  <1> QED
    BY <1>2, <1>3, <1>4, SystemRests

LEMMA CertificateSystem ==
    ASSUME TypeInv, UnitInv, HysteriaInv, PairInv, NEW p \in {Timer, Agent},
           \/ p = Timer /\ (RenewRead \/ RenewLock \/ Renewal)
           \/ p = Agent /\ ((\E h \in Hosts : Rotate(h)) \/ Rotation)
    PROVE  UnitInv' /\ HysteriaInv'
  <1>1. /\ Only(p) /\ UNCHANGED <<units, applied, enabled>> /\ (NoFault \/ Fault)
        /\ env' = env \/ \E h \in Hosts : env' = [env EXCEPT !.host = h]
    BY CertificateFrame DEF systemd
  <1>2. env'.hy2 = env.hy2
    BY <1>1 DEF TypeInv, DataInv, Envs
  <1>3. \A s \in Sessions : pc'[s] = pc[s] /\ local'[s] = local[s]
    BY <1>1, SessionsApart DEF Only
  <1>4. CASE hyRun' = hyRun
    BY <1>1, <1>2, <1>3, <1>4, SystemFrame
  <1>5. CASE hyRun' # hyRun /\ p = Timer
    <2>1. ReloadHysteria
      BY <1>5, SessionsApart
      DEF RenewRead, RenewLock, Renewal, Rotate, Rotation, Certificate, Lego, CopyCert, CopyKey,
          RestorePair, running
    <2>2. /\ pc[p] = "reload_hy2" /\ units["hysteria"] # "gone"
          /\ (NoFault /\ hyRun' = Loaded(pair)) \/ Fault
      BY <1>5, <2>1 DEF ReloadHysteria, At
    <2>3. lock = p
      BY <2>2, InHand DEF Free
    <2> QED
      BY <1>1, <2>2, <2>3, RestartSystem
  <1>6. CASE hyRun' # hyRun /\ p = Agent
    <2>1. RotateHy2Config
      BY <1>6, SessionsApart
      DEF RenewRead, RenewLock, Renewal, Rotate, Rotation, Certificate, Lego, CopyCert, CopyKey,
          RestorePair, Move, RestoreHy2Cert, SaveHost, RegenerateSubscriptions, running
    <2>2. /\ pc[p] = "rotate_hy2" /\ units["hysteria"] # "gone"
          /\ (NoFault /\ hyRun' = Loaded(pair)) \/ Fault
      BY <1>6, <2>1 DEF RotateHy2Config, At
    <2>3. lock = p
      BY <2>2, InHand DEF Free
    <2> QED
      BY <1>1, <2>2, <2>3, RestartSystem
  <1> QED
    BY <1>4, <1>5, <1>6

LEMMA KillSystem ==
    ASSUME TypeInv, UnitInv, HysteriaInv, NEW p \in Actors, Kill(p)
    PROVE  UnitInv' /\ HysteriaInv'
  <1>1. /\ Only(p) /\ lock = p /\ Fault /\ Stop(p)
        /\ UNCHANGED <<units, applied, enabled, hyRun>>
    BY KillFrame DEF running, systemd
  <1>2. pc'[p] \in Free
    BY <1>1, Lands DEF Free
  <1>3. \A s \in Sessions : pc'[s] \in Free
    BY <1>1, <1>2, Alone, SessionsApart
  <1>4. /\ units["xray"] # "new" => applied["xray"] = units["xray"]
        /\ units["hysteria"] = "gone" => hyRun = Down /\ ~enabled
    BY DEF UnitInv, HysteriaInv
  <1> QED
    BY <1>1, <1>3, <1>4, FaultCounts, SystemRests

LEMMA RebootSystem ==
    ASSUME TypeInv, UnitInv, HysteriaInv, Reboot
    PROVE  UnitInv' /\ HysteriaInv'
  <1>1. /\ lock = None /\ Fault /\ applied' = units /\ UNCHANGED <<pc, units, enabled>>
        /\ units["hysteria"] = "gone" => hyRun' = Down
    BY DEF Reboot, control
  <1>2. \A s \in Sessions : pc'[s] \in Free
    BY <1>1, SessionsApart DEF TypeInv, ControlInv
  <1>3. units["hysteria"] = "gone" => ~enabled
    BY DEF HysteriaInv
  <1> QED
    BY <1>1, <1>2, <1>3, FaultCounts, SystemRests

LEMMA AgeSystem ==
    ASSUME TypeInv, UnitInv, HysteriaInv, Age
    PROVE  UnitInv' /\ HysteriaInv'
  <1>1. hyRun' = Down <=> hyRun = Down
    <2>1. \A leaf \in Leaves : Aged(leaf) # Down
      BY AgedType, DownAssumption
    <2> QED
      BY <2>1 DEF Age, TypeInv, DataInv
  <1> QED
    BY <1>1, SystemFrame DEF Age, systemd, config, control

LEMMA SystemNext ==
    ASSUME TypeInv, UnitInv, HysteriaInv, PairInv, RouteInv, [Next]_vars
    PROVE  UnitInv' /\ HysteriaInv'
  <1>1. ASSUME NEW s \in Sessions, NEW c \in Commands, Start(s, c)
        PROVE  UnitInv' /\ HysteriaInv'
    BY <1>1, SessionFrame, BeginSystem DEF Start
  <1>2. ASSUME NEW s \in Sessions, Rerun(s)
        PROVE  UnitInv' /\ HysteriaInv'
    <2>1. local[s].cmd \in Commands
      BY <1>2, SessionsApart DEF Rerun, At, TypeInv, ControlInv, FitsAt, Given
    <2> QED
      BY <1>2, <2>1, SessionFrame, BeginSystem DEF Rerun
  <1>3. ASSUME NEW s \in Sessions, Command(s)
        PROVE  UnitInv' /\ HysteriaInv'
    BY <1>3, RouteStepSystem, SaveEnvSystem, SubscriptionsSystem, WriteUnitSystem, RetireSystem,
       RemoveSystem, ReloadSystem, ApplySystem
    DEF Command, RouteStep
  <1>4. CASE RenewRead \/ RenewLock \/ Renewal
    BY <1>4, CertificateSystem
  <1>5. CASE (\E h \in Hosts : Rotate(h)) \/ Rotation
    BY <1>5, CertificateSystem
  <1>6. CASE \E p \in Actors : Kill(p)
    BY <1>6, KillSystem
  <1>7. CASE UNCHANGED vars
    BY <1>7, SystemFrame DEF vars, systemd, config, running, control, NoFault
  <1> QED
    BY <1>1, <1>2, <1>3, <1>4, <1>5, <1>6, <1>7, RebootSystem, AgeSystem DEF Next

-----------------------------------------------------------------------------
(* The routes.                                                             *)

LEMMA RenderFields ==
    ASSUME NEW e
    PROVE  /\ RenderXray(e).routes = e.routes /\ RenderXray(e).key = e.key
           /\ RenderCloudflared(e) = ("xhttp" \in e.routes)
           /\ \A f : e.routes = f.routes /\ e.key = f.key => RenderXray(e) = RenderXray(f)
  BY DEF RenderXray, RenderCloudflared

LEMMA NeverDown ==
    /\ \A c \in XrayConfigs : c # Down
    /\ \A b \in BOOLEAN : b # Down
  BY DownAssumption

LEMMA RoutesTyped ==
    ASSUME TypeInv
    PROVE  /\ xray \in XrayConfigs /\ cfd \in BOOLEAN /\ env \in Envs
           /\ xrayRun \in XrayConfigs \cup {Down} /\ cfdRun \in BOOLEAN \cup {Down}
           /\ RenderXray(env) \in XrayConfigs /\ RenderCloudflared(env) \in BOOLEAN
           /\ faults \in Nat
  BY RenderType DEF TypeInv, DataInv

LEMMA InitRoutes ==
    ASSUME Init
    PROVE  RouteInv /\ SettledInv /\ SavedInv
  <1>1. \A s \in Sessions : pc[s] = "idle"
    BY SessionsApart DEF Init
  <1>2. xrayRun # Down /\ cfdRun # Down
    BY NeverDown, InitType, RoutesTyped DEF Init
  <1>3. InTune /\ wanted = env.routes /\ xray.routes = env.routes /\ xrayRun = xray
    BY RenderFields DEF Init, InTune
  <1>4. Settled
    BY <1>2, <1>3 DEF Settled, Most, Due
  <1> QED
    BY <1>1, <1>4 DEF RouteInv, RouteOf, RouteSteps, SettledInv, SavedInv

\* Nothing that counts for the routes changes.
RoutesKept ==
    /\ UNCHANGED <<xray, cfd, xrayRun, cfdRun, wanted>>
    /\ env'.routes = env.routes /\ env'.key = env.key

LEMMA KeptRendered ==
    ASSUME RoutesKept
    PROVE  /\ RenderXray(env') = RenderXray(env) /\ RenderCloudflared(env') = RenderCloudflared(env)
           /\ Due' = Due
  BY RenderFields DEF RoutesKept, Due

LEMMA SettledStays ==
    ASSUME TypeInv, Settled, RoutesKept, NoFault \/ Fault,
           xrayRun = Down /\ applied["xray"] # units["xray"] => applied'["xray"] # units'["xray"]
    PROVE  Settled'
  <1>1. faults' <= 1 => faults <= 1
    BY FaultCounts
  <1>2. faults' = 0 => faults = 0
    BY FaultCounts
  <1>3. InTune => InTune'
    BY KeptRendered DEF InTune, RoutesKept
  <1>4. Due' = Due /\ UNCHANGED <<xray, xrayRun, cfdRun>>
    BY KeptRendered DEF RoutesKept
  <1> QED
    BY <1>1, <1>2, <1>3, <1>4 DEF Settled, Most

\* No session does anything, and nothing that counts for the routes changes.
LEMMA RoutesFrame ==
    ASSUME TypeInv, RouteInv, SettledInv, SavedInv, RoutesKept, UNCHANGED <<units, applied>>,
           \A s \in Sessions : pc'[s] = pc[s] /\ local'[s] = local[s],
           env' = env \/ \A s \in Sessions : pc[s] \in Free,
           NoFault \/ (Fault /\ \A s \in Sessions : pc[s] \in Free)
    PROVE  RouteInv' /\ SettledInv' /\ SavedInv'
  <1>1. Busy' <=> Busy
    BY DEF Busy
  <1>2. SettledInv'
    BY <1>1, SettledStays DEF SettledInv
  <1>3. ASSUME NEW s \in Sessions
        PROVE  RouteOf(s)'
    <2>1. RouteOf(s)
      BY DEF RouteInv
    <2>2. CASE pc[s] \in Free
      <3>1. pc[s] \notin RouteSteps /\ pc[s] # "save_flag"
        BY <2>2 DEF Free, RouteSteps
      <3> QED
        BY <2>1, <3>1, FaultCounts DEF RouteOf
    <2>3. CASE pc[s] \notin Free
      <3>1. env' = env /\ faults' = faults
        BY <2>3 DEF NoFault
      <3>2. RouteAt(s) => RouteAt(s)'
        BY <3>1, KeptRendered
        DEF RouteAt, Untroubled, Returning, Proceeding, IsXhttp, RoutesKept
      <3> QED
        BY <2>1, <3>1, <3>2 DEF RouteOf
    <2> QED
      BY <2>2, <2>3
  <1>4. SavedInv'
    <2>1. ASSUME NEW s \in Sessions, pc[s] = "subs"
          PROVE  env' = env
      BY <2>1 DEF Free
    <2>2. ASSUME NEW s \in Sessions, pc'[s] = "subs"
          PROVE  Saved(s)'
      <3>1. pc[s] = "subs" /\ local'[s] = local[s] /\ env' = env
        BY <2>1, <2>2
      <3> QED
        BY <3>1 DEF SavedInv, Saved, RoutesKept, RenderXray, RenderCloudflared, IsXhttp
    <2> QED
      BY <2>2 DEF SavedInv
  <1> QED
    BY <1>2, <1>3, <1>4 DEF RouteInv

\* The session s takes a step.
LEMMA RoutesStep ==
    ASSUME TypeInv, RouteInv, NEW s \in Sessions, lock \in {None, s}, Only(s), NoFault \/ Fault,
           RouteOf(s)', pc'[s] \notin RouteSteps => Settled',
           pc'[s] = "subs" => Saved(s)'
    PROVE  RouteInv' /\ SettledInv' /\ SavedInv'
  <1>1. \A q \in Sessions : q # s => pc'[q] = pc[q] /\ pc[q] \in Free
    BY Alone, SessionsApart DEF Only
  <1>2. ASSUME NEW q \in Sessions, q # s
        PROVE  RouteOf(q)' /\ pc'[q] # "subs"
    <2>1. pc'[q] \notin RouteSteps /\ pc'[q] # "save_flag" /\ pc'[q] # "subs"
      BY <1>1, <1>2 DEF Free, RouteSteps
    <2>2. pc'[q] = "failed" => faults' # 0
      BY <1>1, <1>2, FaultCounts DEF RouteInv, RouteOf
    <2> QED
      BY <2>1, <2>2 DEF RouteOf
  <1>3. RouteInv'
    BY <1>2 DEF RouteInv
  <1>4. SettledInv'
    BY DEF SettledInv, Busy
  <1>5. SavedInv'
    BY <1>2 DEF SavedInv
  <1> QED
    BY <1>3, <1>4, <1>5

\* s at a step outside the route commands, or at rest.
LEMMA RoutesQuiet ==
    ASSUME TypeInv, SettledInv, NEW s \in Sessions, lock \in {None, s}, pc[s] \notin RouteSteps
    PROVE  Settled
  <1>1. \A q \in Sessions : q # s => pc[q] \in Free
    BY SessionsApart DEF TypeInv, ControlInv
  <1>2. ~Busy
    BY <1>1 DEF Busy, Free, RouteSteps
  <1> QED
    BY <1>2 DEF SettledInv

\* s steps outside the route commands.
LEMMA RoutesAway ==
    ASSUME TypeInv, RouteInv, SettledInv, NEW s \in Sessions, lock \in {None, s}, Only(s),
           NoFault \/ Fault, pc'[s] = "failed" => faults' # 0,
           pc'[s] \notin RouteSteps \cup {"save_flag"}, Settled',
           pc'[s] = "subs" => local'[s].cmd.kind = "hy2"
    PROVE  RouteInv' /\ SettledInv' /\ SavedInv'
  <1>1. RouteOf(s)'
    BY DEF RouteOf
  <1>2. pc'[s] = "subs" => Saved(s)'
    BY DEF Saved, IsXhttp, RouteKinds
  <1> QED
    BY <1>1, <1>2, RoutesStep

\* What holds while s is at work on the routes.
LEMMA RoutesKnown ==
    ASSUME TypeInv, RouteInv, NEW s \in Sessions, pc[s] \in RouteSteps
    PROVE  /\ lock = s /\ s \in Actors /\ pc[s] \notin Free /\ RouteAt(s)
           /\ local[s] \in Runs /\ local \in [Actors -> Locals]
           /\ local[s].env \in Envs /\ local[s].xray \in XrayConfigs /\ local[s].cfd \in BOOLEAN
           /\ local[s].restored \in {"none", "xray", "cloudflared"}
           /\ RenderXray(local[s].env) \in XrayConfigs
           /\ RenderXray(local[s].env).routes = local[s].env.routes
           /\ RenderCloudflared(local[s].env) \in BOOLEAN
           /\ ~IsXhttp(s) => RenderCloudflared(local[s].env) = RenderCloudflared(env)
  <1>1. /\ lock = s /\ s \in Actors /\ pc[s] \notin Free
        /\ local[s] \in Runs /\ local \in [Actors -> Locals]
    BY AtWork DEF CommandSteps
  <1>2. RouteAt(s)
    BY DEF RouteInv, RouteOf
  <1>3. local[s].env.routes \ {local[s].cmd.kind} = env.routes \ {local[s].cmd.kind}
    BY <1>2 DEF RouteAt
  <1>4. ~IsXhttp(s) => ("xhttp" \in local[s].env.routes <=> "xhttp" \in env.routes)
    BY <1>3 DEF IsXhttp
  <1>5. ~IsXhttp(s) => RenderCloudflared(local[s].env) = RenderCloudflared(env)
    BY <1>4 DEF RenderCloudflared
  <1>6. /\ local[s].env \in Envs /\ local[s].xray \in XrayConfigs /\ local[s].cfd \in BOOLEAN
        /\ local[s].restored \in {"none", "xray", "cloudflared"}
    BY <1>1, RunFields
  <1>7. /\ RenderXray(local[s].env) \in XrayConfigs
        /\ RenderXray(local[s].env).routes = local[s].env.routes
        /\ RenderCloudflared(local[s].env) \in BOOLEAN
    BY <1>6, RenderType, RenderFields
  <1> QED
    BY <1>1, <1>2, <1>5, <1>6, <1>7

\* A route command that is stopped before anything else has failed.
LEMMA UntroubledStops ==
    ASSUME TypeInv, RouteInv, NEW s \in Sessions, pc[s] \in RouteSteps, Fault,
           UNCHANGED <<xray, cfd, xrayRun, cfdRun, wanted>>,
           env' = env \/ (pc[s] = "save_env" /\ env' = local[s].env)
    PROVE  Settled'
  <1>1. SUFFICES ASSUME faults' <= 1
                 PROVE  Settled'
    BY DEF Settled
  <1>2. faults = 0 /\ faults' = 1
    BY <1>1, FaultCounts
  <1>3. Untroubled(s)
    BY <1>2, RoutesKnown DEF RouteAt
  <1>4. xray # Down /\ xrayRun # Down /\ cfdRun # Down
    BY <1>3, RoutesKnown, NeverDown DEF Untroubled
  <1>5. Due \subseteq env.routes /\ Due \subseteq local[s].env.routes
    BY <1>3 DEF Untroubled, Due
  <1>6. local[s].xray.routes = env.routes
    BY <1>3, RenderFields DEF Untroubled
  <1>7. Most(Due, xray.routes) /\ Most(Due, xrayRun.routes)
    BY <1>3, <1>5, <1>6, RoutesKnown DEF Untroubled, Most
  <1>8. CASE env' = env
    <2>1. Due' = Due
      BY <1>8 DEF Due
    <2> QED
      BY <1>2, <1>4, <1>7, <2>1 DEF Settled, Most
  <1>9. CASE pc[s] = "save_env" /\ env' = local[s].env
    <2>1. xray.routes = local[s].env.routes /\ xrayRun.routes = local[s].env.routes
      BY <1>3, <1>9, RoutesKnown DEF Untroubled
    <2>2. Due' \subseteq local[s].env.routes
      BY <1>9 DEF Due
    <2> QED
      BY <1>2, <1>4, <2>1, <2>2 DEF Settled, Most
  <1> QED
    BY <1>8, <1>9

LEMMA FailRoutes ==
    ASSUME TypeInv, RouteInv, NEW s \in Sessions, pc[s] \in RouteSteps, Fault, Stop(s), Settled'
    PROVE  RouteInv' /\ SettledInv' /\ SavedInv'
  <1>1. lock = s /\ s \in Actors
    BY RoutesKnown
  <1>2. pc'[s] = "failed" /\ Only(s)
    BY <1>1, Lands, Moves
  <1>3. RouteOf(s)'
    BY <1>2, FaultCounts DEF RouteOf, RouteSteps
  <1> QED
    BY <1>1, <1>2, <1>3, RoutesStep

\* A command is given, for the first time or again.
LEMMA BeginRoutes ==
    ASSUME TypeInv, RouteInv, SettledInv, NEW s \in Sessions, NEW c \in Commands, Begin(s, c),
           Only(s),
           wanted' \ {c.kind} = wanted \ {c.kind},
           c.kind \notin RouteKinds => wanted' = wanted,
           faults = 0 /\ c.kind \in RouteKinds =>
               wanted' = IF c.on THEN wanted \cup {c.kind} ELSE wanted \ {c.kind}
    PROVE  RouteInv' /\ SettledInv' /\ SavedInv'
  <1>1. /\ lock = None /\ faults' = faults /\ NoFault
        /\ UNCHANGED <<env, xray, cfd, xrayRun, cfdRun, units, applied>>
    BY DEF Begin, NoFault, running, systemd, config
  <1>2. /\ local'[s].cmd = c /\ local'[s].env = Asked(c) /\ local'[s].xray = xray
        /\ local'[s].cfd = cfd /\ local'[s].restored = "none"
    BY SessionsApart DEF Begin, TypeInv, ControlInv
  <1>3. /\ c.kind = "hy2" => pc'[s] = "save_flag"
        /\ c.kind = "reconcile" => pc'[s] = "write_units"
        /\ c.kind \in RouteKinds \cup {"reality"} => pc'[s] = "write_xray"
    BY SessionsApart DEF Begin, Become, RouteKinds, TypeInv, ControlInv
  <1>4. c.kind \in RouteKinds \cup {"hy2", "reality", "reconcile"} /\ c.on \in BOOLEAN
    BY DEF Commands
  <1>5. env \in Envs
    BY RoutesTyped
  <1>6. Settled
    <2>1. pc[s] \in Free
      BY <1>1, SessionsApart DEF TypeInv, ControlInv
    <2>2. pc[s] \notin RouteSteps
      BY <2>1 DEF Free, RouteSteps
    <2> QED
      BY <1>1, <2>2, RoutesQuiet
  <1>7. CASE c.kind \notin RouteKinds \cup {"reality"}
    <2>1. RoutesKept
      BY <1>1, <1>7 DEF RoutesKept, RouteKinds
    <2>2. Settled'
      BY <1>1, <1>6, <2>1, SettledStays
    <2>3. pc'[s] \in {"save_flag", "write_units"}
      BY <1>3, <1>4, <1>7 DEF RouteKinds
    <2>4. pc'[s] = "save_flag" => c.kind = "hy2"
      BY <1>3, <1>4, <1>7 DEF RouteKinds
    <2>5. c.kind = "hy2" => Asked(c).routes = env.routes /\ Asked(c).key = env.key
      BY <1>5 DEF Asked, RouteKinds, Envs
    <2>6. pc'[s] = "save_flag" => RenderXray(Asked(c)) = RenderXray(env)
      BY <2>4, <2>5, RenderFields
    <2>7. RouteOf(s)'
      BY <1>1, <1>2, <2>3, <2>6 DEF RouteOf, RouteSteps
    <2> QED
      BY <1>1, <2>2, <2>3, <2>7, RoutesStep
  <1>8. CASE c.kind \in RouteKinds \cup {"reality"}
    <2>1. pc'[s] = "write_xray"
      BY <1>3, <1>8
    <2>2. Asked(c).routes = IF c.kind = "reality" THEN env.routes
                            ELSE IF c.on THEN env.routes \cup {c.kind} ELSE env.routes \ {c.kind}
      <3>1. CASE c.kind = "reality"
        <4>1. Asked(c) = [env EXCEPT !.key = FreshKey]
          BY <3>1 DEF Asked, RouteKinds
        <4> QED
          BY <1>5, <3>1, <4>1 DEF Envs
      <3>2. CASE c.kind \in RouteKinds
        <4>1. Asked(c) = [env EXCEPT !.routes = IF c.on THEN @ \cup {c.kind} ELSE @ \ {c.kind}]
          BY <3>2 DEF Asked, RouteKinds
        <4> QED
          BY <1>5, <3>2, <4>1 DEF Envs, RouteKinds
      <3> QED
        BY <1>8, <3>1, <3>2
    <2>3. Asked(c).routes \ {c.kind} = env.routes \ {c.kind}
      BY <2>2
    <2>4. faults = 0 => Due' \subseteq Asked(c).routes
      <3>1. CASE c.kind = "reality"
        BY <1>1, <2>2, <3>1 DEF Due
      <3>2. CASE c.kind # "reality"
        <4>1. faults = 0 => wanted' = IF c.on THEN wanted \cup {c.kind} ELSE wanted \ {c.kind}
          BY <1>8, <3>2
        <4> QED
          BY <1>1, <2>2, <3>2, <4>1 DEF Due
      <3> QED
        BY <3>1, <3>2
    <2>5. faults = 0 => Untroubled(s)'
      <3>1. faults = 0 => InTune
        BY <1>6 DEF Settled
      <3> QED
        BY <1>1, <1>2, <2>1, <2>4, <3>1 DEF Untroubled, InTune
    <2>6. faults = 1 => Proceeding(s)'
      <3>1. Due' \ {c.kind} \subseteq Due
        BY <1>1 DEF Due
      <3> QED
        BY <1>1, <1>2, <1>6, <2>1, <3>1 DEF Settled, Proceeding, Most
    <2>7. RouteAt(s)'
      BY <1>1, <1>2, <1>8, <2>1, <2>3, <2>5, <2>6 DEF RouteAt
    <2>8. RouteOf(s)'
      BY <2>1, <2>7 DEF RouteOf
    <2> QED
      BY <1>1, <2>1, <2>8, RoutesStep DEF RouteSteps
  <1> QED
    BY <1>7, <1>8

\* What RouteOf asks of s while it goes on with its command.
LEMMA GoesOn ==
    ASSUME TypeInv, RouteInv, SavedInv, NEW s \in Sessions, pc[s] \in RouteSteps, NoFault \/ Fault,
           Only(s), pc'[s] \in RouteSteps, RouteAt(s)'
    PROVE  RouteInv' /\ SettledInv' /\ SavedInv'
  <1>1. RouteOf(s)'
    BY DEF RouteOf, RouteSteps
  <1> QED
    BY <1>1, RoutesKnown, RoutesStep DEF RouteSteps

LEMMA WriteXrayRoutes ==
    ASSUME TypeInv, RouteInv, SettledInv, SavedInv, NEW s \in Sessions, WriteXray(s)
    PROVE  RouteInv' /\ SettledInv' /\ SavedInv'
  <1>1. pc[s] = "write_xray" /\ pc[s] \in RouteSteps
    BY DEF WriteXray, At, RouteSteps
  <1>2. UNCHANGED <<env, cfd, xrayRun, cfdRun, wanted, units, applied>>
    BY DEF WriteXray, running, systemd, history
  <1>3. CASE Fault /\ UNCHANGED xray /\ Fail(s)
    <2>1. Settled'
      BY <1>1, <1>2, <1>3, UntroubledStops
    <2> QED
      BY <1>1, <1>3, <2>1, FailRoutes DEF Fail
  <1>4. CASE /\ NoFault /\ xray' = RenderXray(local[s].env)
             /\ GoTo(s, IF IsXhttp(s) THEN "write_cfd" ELSE "restart_xray")
    <2>1. /\ Only(s) /\ local' = local /\ faults' = faults
          /\ pc'[s] = IF IsXhttp(s) THEN "write_cfd" ELSE "restart_xray"
      BY <1>1, <1>4, RoutesKnown, Moves, Lands DEF NoFault
    <2>2. RouteAt(s)
      BY <1>1, RoutesKnown
    <2>3. ~IsXhttp(s) => RenderCloudflared(local[s].env) = RenderCloudflared(env)
      BY <1>1, RoutesKnown
    <2>4. faults = 0 => Untroubled(s)'
      <3>1. faults = 0 => Untroubled(s)
        BY <2>2 DEF RouteAt
      <3> QED
        BY <1>1, <1>2, <1>4, <2>1, <2>3, <3>1 DEF Untroubled, Due
    <2>5. faults = 1 => Proceeding(s)'
      BY <1>1, <1>2, <2>1, <2>2 DEF RouteAt, Proceeding, Due, IsXhttp
    <2>6. RouteAt(s)'
      BY <1>1, <1>2, <1>4, <2>1, <2>2, <2>4, <2>5 DEF RouteAt, IsXhttp
    <2> QED
      BY <1>1, <1>4, <2>1, <2>6, GoesOn DEF RouteSteps
  <1> QED
    BY <1>3, <1>4 DEF WriteXray

LEMMA WriteCloudflaredRoutes ==
    ASSUME TypeInv, RouteInv, SettledInv, SavedInv, NEW s \in Sessions, WriteCloudflared(s)
    PROVE  RouteInv' /\ SettledInv' /\ SavedInv'
  <1>1. pc[s] = "write_cfd" /\ pc[s] \in RouteSteps
    BY DEF WriteCloudflared, At, RouteSteps
  <1>2. UNCHANGED <<env, xray, xrayRun, cfdRun, wanted, units, applied>>
    BY DEF WriteCloudflared, running, systemd, history
  <1>3. RouteAt(s)
    BY <1>1, RoutesKnown
  <1>4. faults = 0 => Untroubled(s)
    BY <1>3 DEF RouteAt
  <1>5. CASE NoFault /\ cfd' = RenderCloudflared(local[s].env) /\ GoTo(s, "restart_xray")
    <2>1. /\ Only(s) /\ local' = local /\ faults' = faults /\ pc'[s] = "restart_xray"
      BY <1>1, <1>5, RoutesKnown, Moves, Lands DEF NoFault
    <2>2. faults = 0 => Untroubled(s)'
      BY <1>1, <1>2, <1>4, <1>5, <2>1 DEF Untroubled, Due
    <2>3. faults = 1 => Proceeding(s)'
      BY <1>1, <1>2, <1>3, <2>1 DEF RouteAt, Proceeding, Due, IsXhttp
    <2>4. RouteAt(s)'
      BY <1>1, <1>2, <1>3, <1>5, <2>1, <2>2, <2>3 DEF RouteAt, IsXhttp
    <2> QED
      BY <1>1, <1>5, <2>1, <2>4, GoesOn DEF RouteSteps
  <1>6. CASE Fault /\ GoTo(s, "restore")
    <2>1. /\ Only(s) /\ local' = local /\ faults' = faults + 1 /\ pc'[s] = "restore"
      BY <1>1, <1>6, RoutesKnown, Moves, Lands, FaultCounts
    <2>2. faults' = 1 => Returning(s)'
      <3>1. SUFFICES ASSUME faults' = 1
                     PROVE  Returning(s)'
        OBVIOUS
      <3>2. Untroubled(s)
        BY <1>4, <2>1, <3>1, RoutesTyped
      <3>3. local[s].restored = "none"
        BY <1>1, <1>3 DEF RouteAt
      <3>4. xrayRun = RenderXray(env) /\ cfdRun = local[s].cfd /\ local[s].xray = RenderXray(env)
        BY <1>1, <3>2 DEF Untroubled
      <3>5. xrayRun # Down /\ cfdRun # Down /\ xrayRun.routes = env.routes
        BY <1>1, <3>4, RoutesKnown, RoutesTyped, NeverDown, RenderFields
      <3> QED
        BY <1>2, <2>1, <3>3, <3>4, <3>5, RenderFields DEF Returning, Most
    <2>3. faults' # 0
      BY <1>6, FaultCounts
    <2>4. RouteAt(s)'
      BY <1>2, <1>3, <2>1, <2>2, <2>3 DEF RouteAt, IsXhttp
    <2> QED
      BY <1>1, <1>6, <2>1, <2>4, GoesOn DEF RouteSteps
  <1> QED
    BY <1>5, <1>6 DEF WriteCloudflared

\* A restart has failed.
LEMMA RestoreRoutes ==
    ASSUME TypeInv, RouteInv, SavedInv, NEW s \in Sessions, pc[s] \in RouteSteps,
           NEW unit \in {"xray", "cloudflared"}, Restore(s, unit), Fault,
           UNCHANGED <<env, xray, cfd, wanted>>,
           unit = "xray" => cfdRun' = cfdRun,
           unit = "cloudflared" => xrayRun' = xrayRun /\ IsXhttp(s) /\ pc[s] = "restart_cfd"
    PROVE  RouteInv' /\ SettledInv' /\ SavedInv'
  <1>1. lock = s /\ s \in Actors /\ RouteAt(s)
    BY RoutesKnown
  <1>2. Only(s) /\ faults' = faults + 1 /\ faults' # 0
    BY <1>1, Moves, FaultCounts
  <1>3. /\ pc'[s] = "restore" /\ local'[s].restored = unit /\ local'[s].cmd = local[s].cmd
        /\ local'[s].env = local[s].env /\ local'[s].xray = local[s].xray
    BY <1>1, RoutesKnown DEF Restore, Become, Runs, TypeInv, ControlInv
  <1>4. faults' = 1 => Returning(s)'
    <2>1. SUFFICES ASSUME faults' = 1
                   PROVE  Returning(s)'
      OBVIOUS
    <2>2. Untroubled(s)
      BY <1>1, <1>2, <2>1, RoutesTyped DEF RouteAt
    <2>3. local[s].xray.routes = env.routes
      BY <2>2, RenderFields DEF Untroubled
    <2>4. CASE unit = "xray"
      <3>1. cfdRun # Down
        BY <2>2, RoutesKnown, NeverDown DEF Untroubled
      <3> QED
        BY <1>3, <2>3, <2>4, <3>1 DEF Returning
    <2>5. CASE unit = "cloudflared"
      <3>1. xrayRun = RenderXray(local[s].env)
        BY <2>2, <2>5 DEF Untroubled
      <3>2. xrayRun # Down /\ xrayRun.routes = local[s].env.routes
        BY <3>1, RoutesKnown, NeverDown
      <3>3. Most(env.routes, xrayRun.routes)
        BY <1>1, <2>5, <3>2 DEF RouteAt, Most, IsXhttp
      <3> QED
        BY <1>3, <2>3, <2>5, <3>2, <3>3 DEF Returning, Most, IsXhttp
    <2> QED
      BY <2>4, <2>5
  <1>5. RouteAt(s)'
    BY <1>1, <1>2, <1>3, <1>4 DEF RouteAt, IsXhttp
  <1> QED
    BY <1>2, <1>3, <1>5, GoesOn DEF RouteSteps

LEMMA RestartXrayRoutes ==
    ASSUME TypeInv, RouteInv, SettledInv, SavedInv, NEW s \in Sessions, RestartXray(s)
    PROVE  RouteInv' /\ SettledInv' /\ SavedInv'
  <1>1. pc[s] = "restart_xray" /\ pc[s] \in RouteSteps
    BY DEF RestartXray, At, RouteSteps
  <1>2. UNCHANGED <<env, xray, cfd, cfdRun, wanted, units, applied>>
    BY DEF RestartXray, systemd, config, history
  <1>3. RouteAt(s) /\ xray = RenderXray(local[s].env)
    BY <1>1, RoutesKnown DEF RouteAt
  <1>4. xray # Down /\ xray.routes = local[s].env.routes
    BY <1>1, <1>3, RoutesKnown, NeverDown
  <1>5. faults = 0 => Untroubled(s)
    BY <1>3 DEF RouteAt
  <1> DEFINE next == IF IsXhttp(s) THEN "restart_cfd" ELSE "save_env"
  <1>6. CASE /\ NoFault /\ GoTo(s, next)
             /\ \/ xrayRun' = xray
                \/ IsXhttp(s) /\ local[s].xray = xray /\ UNCHANGED xrayRun
    <2>1. /\ Only(s) /\ local' = local /\ faults' = faults /\ pc'[s] = next
      BY <1>1, <1>6, RoutesKnown, Moves, Lands DEF NoFault
    <2>2. faults = 0 => Untroubled(s)'
      <3>1. faults = 0 => xrayRun' = xray
        BY <1>1, <1>5, <1>6 DEF Untroubled
      <3>2. ~IsXhttp(s) => RenderCloudflared(local[s].env) = RenderCloudflared(env)
        BY <1>1, RoutesKnown
      <3> QED
        BY <1>1, <1>2, <1>3, <1>5, <2>1, <3>1, <3>2 DEF Untroubled, Due
    <2>3. faults = 1 => Proceeding(s)'
      <3>1. SUFFICES ASSUME faults = 1
                     PROVE  Proceeding(s)'
        OBVIOUS
      <3>2. Proceeding(s)
        BY <1>1, <1>3, <3>1 DEF RouteAt
      <3>3. CASE UNCHANGED xrayRun
        BY <1>1, <1>2, <1>6, <2>1, <3>2, <3>3 DEF Proceeding, Due, IsXhttp
      <3>4. CASE xrayRun' = xray
        <4>1. Most(Due \ {local[s].cmd.kind}, xray.routes)
          BY <1>3, <1>4 DEF RouteAt, Most, Due
        <4> QED
          BY <1>2, <1>4, <2>1, <3>2, <3>4, <4>1 DEF Proceeding, Due, Most
      <3> QED
        BY <1>6, <3>3, <3>4
    <2>4. RouteAt(s)'
      BY <1>1, <1>2, <1>3, <1>6, <2>1, <2>2, <2>3 DEF RouteAt, IsXhttp
    <2> QED
      BY <1>1, <1>6, <2>1, <2>4, GoesOn DEF RouteSteps
  <1>7. CASE Fault /\ Restore(s, "xray")
    BY <1>1, <1>2, <1>7, RestoreRoutes
  <1> QED
    BY <1>6, <1>7 DEF RestartXray

LEMMA RestartCloudflaredRoutes ==
    ASSUME TypeInv, RouteInv, SettledInv, SavedInv, NEW s \in Sessions, RestartCloudflared(s)
    PROVE  RouteInv' /\ SettledInv' /\ SavedInv'
  <1>1. pc[s] = "restart_cfd" /\ pc[s] \in RouteSteps
    BY DEF RestartCloudflared, At, RouteSteps
  <1>2. UNCHANGED <<env, xray, cfd, xrayRun, wanted, units, applied>>
    BY DEF RestartCloudflared, systemd, config, history
  <1>3. RouteAt(s) /\ xray = RenderXray(local[s].env) /\ IsXhttp(s)
    BY <1>1, RoutesKnown DEF RouteAt
  <1>4. faults = 0 => Untroubled(s)
    BY <1>3 DEF RouteAt
  <1>5. CASE /\ NoFault /\ GoTo(s, "save_env")
             /\ cfdRun' = cfd \/ (local[s].cfd = cfd /\ UNCHANGED cfdRun)
    <2>1. /\ Only(s) /\ local' = local /\ faults' = faults /\ pc'[s] = "save_env"
      BY <1>1, <1>5, RoutesKnown, Moves, Lands DEF NoFault
    <2>2. faults = 0 => Untroubled(s)'
      <3>1. faults = 0 => cfdRun' = cfd
        BY <1>1, <1>4, <1>5 DEF Untroubled
      <3> QED
        BY <1>1, <1>2, <1>4, <2>1, <3>1 DEF Untroubled, Due
    <2>3. faults = 1 => Proceeding(s)'
      <3>1. cfd # Down
        BY RoutesTyped, NeverDown
      <3>2. faults = 1 => Proceeding(s)
        BY <1>1, <1>3 DEF RouteAt
      <3> QED
        BY <1>1, <1>2, <1>3, <1>5, <2>1, <3>1, <3>2 DEF Proceeding, Due, IsXhttp
    <2>4. RouteAt(s)'
      BY <1>1, <1>2, <1>3, <2>1, <2>2, <2>3 DEF RouteAt, IsXhttp
    <2> QED
      BY <1>1, <1>5, <2>1, <2>4, GoesOn DEF RouteSteps
  <1>6. CASE Fault /\ Restore(s, "cloudflared")
    BY <1>1, <1>2, <1>3, <1>6, RestoreRoutes
  <1> QED
    BY <1>5, <1>6 DEF RestartCloudflared

LEMMA RestoreConfigsRoutes ==
    ASSUME TypeInv, RouteInv, SettledInv, SavedInv, NEW s \in Sessions, RestoreConfigs(s)
    PROVE  RouteInv' /\ SettledInv' /\ SavedInv'
  <1>1. pc[s] = "restore" /\ pc[s] \in RouteSteps
    BY DEF RestoreConfigs, At, RouteSteps
  <1>2. UNCHANGED <<env, xrayRun, cfdRun, wanted, units, applied>> /\ (NoFault \/ Fault)
    BY DEF RestoreConfigs, running, systemd, history
  <1>3. RouteAt(s)
    BY <1>1, RoutesKnown
  <1>4. faults # 0
    BY <1>1, <1>3 DEF RouteAt, Untroubled
  <1>5. faults' # 0 /\ (faults' <= 1 => faults = 1 /\ NoFault /\ faults' = 1)
    BY <1>2, <1>4, FaultCounts
  <1>6. NoFault => xray' = local[s].xray
    <2>1. NoFault /\ Fault => FALSE
      BY FaultCounts
    <2> QED
      BY <2>1 DEF RestoreConfigs
  <1>7. faults' <= 1 => Returning(s)
    BY <1>1, <1>3, <1>5 DEF RouteAt
  <1>8. CASE Fail(s) /\ (faults' <= 1 => local[s].restored = "none")
    <2>1. faults' <= 1 => xray'.routes = env.routes
      BY <1>5, <1>6, <1>7 DEF Returning
    <2>2. Settled'
      BY <1>2, <1>5, <1>7, <1>8, <2>1 DEF Settled, Returning, Most, Due
    <2>3. pc'[s] = "failed" /\ Only(s) /\ lock = s
      BY <1>1, <1>8, RoutesKnown, Lands, Moves DEF Fail
    <2>4. RouteOf(s)'
      BY <1>5, <2>3 DEF RouteOf, RouteSteps
    <2> QED
      BY <1>2, <2>2, <2>3, <2>4, RoutesStep
  <1>9. CASE GoTo(s, "restart_old") /\ local[s].restored # "none"
    <2>1. /\ Only(s) /\ local' = local /\ pc'[s] = "restart_old"
      BY <1>1, <1>9, RoutesKnown, Moves, Lands
    <2>2. faults' = 1 => Returning(s)'
      BY <1>1, <1>2, <1>5, <1>6, <1>7, <1>9, <2>1 DEF Returning, Most, IsXhttp
    <2>3. RouteAt(s)'
      BY <1>2, <1>3, <1>5, <2>1, <2>2 DEF RouteAt, IsXhttp
    <2> QED
      BY <1>1, <1>2, <2>1, <2>3, GoesOn DEF RouteSteps
  <1>10. \/ Fail(s) /\ (faults' <= 1 => local[s].restored = "none")
         \/ GoTo(s, "restart_old") /\ local[s].restored # "none"
    <2>1. NoFault /\ Fault => FALSE
      BY FaultCounts
    <2> QED
      BY <1>5, <2>1 DEF RestoreConfigs
  <1> QED
    BY <1>8, <1>9, <1>10

LEMMA RestartRestoredRoutes ==
    ASSUME TypeInv, RouteInv, SettledInv, SavedInv, NEW s \in Sessions, RestartRestored(s)
    PROVE  RouteInv' /\ SettledInv' /\ SavedInv'
  <1>1. pc[s] = "restart_old" /\ pc[s] \in RouteSteps
    BY DEF RestartRestored, At, RouteSteps
  <1>2. UNCHANGED <<env, xray, cfd, wanted, units, applied>> /\ (NoFault \/ Fault) /\ Stop(s)
    BY DEF RestartRestored, Fail, config, systemd, history
  <1>3. RouteAt(s)
    BY <1>1, RoutesKnown
  <1>4. faults # 0
    BY <1>1, <1>3 DEF RouteAt, Untroubled
  <1>5. faults' # 0 /\ (faults' <= 1 => faults = 1 /\ NoFault /\ ~Fault)
    BY <1>2, <1>4, FaultCounts
  <1>6. Settled'
    <2>1. SUFFICES ASSUME faults' <= 1
                   PROVE  Settled'
      BY DEF Settled
    <2>2. Returning(s)
      BY <1>1, <1>3, <1>5, <2>1 DEF RouteAt
    <2>3. /\ xrayRun' = IF local[s].restored = "xray" THEN xray ELSE xrayRun
          /\ cfdRun' = IF local[s].restored = "cloudflared" THEN cfd ELSE cfdRun
      BY <1>5, <2>1 DEF RestartRestored
    <2>4. xray # Down /\ cfd # Down /\ xray.routes = env.routes
      BY <1>1, <2>2, RoutesTyped, NeverDown DEF Returning
    <2>5. xrayRun' # Down /\ Most(env.routes, xrayRun'.routes)
      BY <2>2, <2>3, <2>4 DEF Returning, Most
    <2>6. cfdRun' # Down
      BY <2>2, <2>3, <2>4 DEF Returning
    <2> QED
      BY <1>2, <1>5, <2>4, <2>5, <2>6 DEF Settled, Most, Due
  <1>7. pc'[s] = "failed" /\ Only(s) /\ lock = s
    BY <1>1, <1>2, RoutesKnown, Lands, Moves
  <1>8. RouteOf(s)'
    BY <1>5, <1>7 DEF RouteOf, RouteSteps
  <1> QED
    BY <1>2, <1>6, <1>7, <1>8, RoutesStep

LEMMA SaveEnvRoutes ==
    ASSUME TypeInv, RouteInv, SettledInv, SavedInv, HysteriaInv, NEW s \in Sessions, SaveEnv(s)
    PROVE  RouteInv' /\ SettledInv' /\ SavedInv'
  <1>1. UNCHANGED <<xray, cfd, xrayRun, cfdRun, wanted, units, applied>>
        /\ env' \in {env, local[s].env} /\ (NoFault \/ Fault)
    BY DEF SaveEnv, running, systemd, history
  <1>2. Only(s)
    BY SessionFrame DEF Command
  <1>3. CASE pc[s] = "save_flag"
    <2>1. pc[s] \in CommandSteps /\ pc[s] \notin RouteSteps
      BY <1>3 DEF CommandSteps, RouteSteps
    <2>2. lock = s /\ s \in Actors
      BY <2>1, AtWork
    <2>3. RoutesKept
      <3>1. RenderXray(local[s].env) = RenderXray(env)
        BY <1>3 DEF RouteInv, RouteOf
      <3>2. local[s].env.routes = env.routes /\ local[s].env.key = env.key
        BY <3>1, RenderFields
      <3> QED
        BY <1>1, <3>2 DEF RoutesKept
    <2>4. Settled'
      BY <1>1, <2>1, <2>2, <2>3, RoutesQuiet, SettledStays
    <2>5. (pc'[s] = "failed" /\ Fault) \/ pc'[s] = "write_units"
      BY <1>3, <2>2, Lands DEF SaveEnv, At, Fail
    <2> QED
      BY <1>1, <1>2, <2>2, <2>4, <2>5, FaultCounts, RoutesAway DEF RouteSteps
  <1>4. CASE pc[s] = "save_env"
    <2>1. pc[s] \in RouteSteps
      BY <1>4 DEF RouteSteps
    <2>2. CASE Fault /\ Fail(s)
      <3>1. Settled'
        BY <1>1, <1>4, <2>1, <2>2, UntroubledStops
      <3> QED
        BY <2>1, <2>2, <3>1, FailRoutes DEF Fail
    <2>3. CASE NoFault /\ env' = local[s].env /\ GoTo(s, "subs")
      <3>1. lock = s /\ pc'[s] = "subs" /\ local' = local /\ faults' = faults
        BY <2>1, <2>3, RoutesKnown, Lands DEF NoFault
      <3>2. RouteAt(s)
        BY <2>1, RoutesKnown
      <3>3. xray = RenderXray(local[s].env) /\ xray.routes = local[s].env.routes
        BY <1>4, <2>1, <3>2, RoutesKnown DEF RouteAt
      <3>4. ~IsXhttp(s) => xrayRun = xray
        BY <1>4, <3>2 DEF RouteAt
      <3>5. Settled'
        <4>1. CASE faults = 0
          <5>1. Untroubled(s)
            BY <3>2, <4>1 DEF RouteAt
          <5>2. xrayRun = xray /\ cfd = RenderCloudflared(local[s].env) /\ cfdRun = cfd
            BY <1>4, <3>3, <5>1 DEF Untroubled
          <5>3. InTune'
            BY <1>1, <2>3, <3>3, <5>2 DEF InTune
          <5>4. xrayRun # Down /\ cfdRun # Down
            BY <5>2, RoutesTyped, NeverDown
          <5>5. Most(Due', xray.routes)
            BY <2>3, <3>3 DEF Due, Most
          <5> QED
            BY <1>1, <3>1, <4>1, <5>2, <5>3, <5>4, <5>5 DEF Settled
        <4>2. CASE faults = 1
          <5>1. Proceeding(s)
            BY <1>4, <3>2, <4>2 DEF RouteAt
          <5>2. Most(Due', xray.routes)
            BY <2>3, <3>3 DEF Due, Most
          <5>3. xrayRun # Down => Most(Due', xrayRun.routes)
            <6>1. CASE ~IsXhttp(s)
              BY <3>4, <5>2, <6>1
            <6>2. CASE IsXhttp(s)
              <7>1. Due' \ {"xhttp"} = Due \ {"xhttp"}
                BY <1>1, <2>3, <3>2, <6>2 DEF RouteAt, IsXhttp, Due
              <7>2. xrayRun # Down => Most(Due \ {"xhttp"}, xrayRun.routes)
                BY <5>1, <6>2 DEF Proceeding, IsXhttp
              <7> QED
                BY <7>1, <7>2 DEF Most
            <6> QED
              BY <6>1, <6>2
          <5> QED
            BY <1>1, <3>1, <4>2, <5>1, <5>2, <5>3 DEF Settled, Proceeding
        <4>3. faults = 0 \/ faults = 1 \/ ~(faults <= 1)
          BY RoutesTyped
        <4>4. CASE ~(faults <= 1)
          BY <3>1, <4>4 DEF Settled
        <4> QED
          BY <4>1, <4>2, <4>3, <4>4
      <3>6. RouteOf(s)'
        BY <3>1 DEF RouteOf, RouteSteps
      <3>7. local[s].cmd.kind \in {"h3", "xhttp_direct", "reality"} => xrayRun = xray
        BY <3>4 DEF IsXhttp
      <3>8. Saved(s)'
        BY <1>1, <1>4, <2>3, <3>1, <3>2, <3>3, <3>7
        DEF Saved, RouteAt, RouteKinds, IsXhttp, RenderXray, RenderCloudflared
      <3> QED
        BY <1>2, <2>3, <3>1, <3>5, <3>6, <3>7, <3>8, RoutesStep
    <2> QED
      BY <1>4, <2>2, <2>3 DEF SaveEnv, At
  <1> QED
    BY <1>3, <1>4 DEF SaveEnv

\* The other commands do not touch the routes, but for an xray they restart.
LEMMA SubscriptionsRoutes ==
    ASSUME TypeInv, RouteInv, SettledInv, NEW s \in Sessions, RegenerateSubscriptions(s)
    PROVE  RouteInv' /\ SettledInv' /\ SavedInv'
  <1>1. pc[s] = "subs" /\ pc[s] \notin RouteSteps
    BY DEF RegenerateSubscriptions, At, RouteSteps
  <1>2. lock = s /\ s \in Actors
    BY <1>1, AtWork DEF CommandSteps
  <1>3. Only(s) /\ (NoFault \/ Fault)
    BY SessionFrame DEF Command
  <1>4. RoutesKept /\ UNCHANGED <<units, applied>>
    BY DEF RegenerateSubscriptions, RoutesKept, running, systemd, history
  <1>5. Settled'
    BY <1>1, <1>2, <1>3, <1>4, RoutesQuiet, SettledStays
  <1>6. pc'[s] = "idle" \/ (pc'[s] = "failed" /\ Fault)
    BY <1>2, Lands DEF RegenerateSubscriptions, Fail
  <1> QED
    BY <1>2, <1>3, <1>5, <1>6, FaultCounts, RoutesAway DEF RouteSteps

\* Where a step on the units leads.
LEMMA UnitLands ==
    ASSUME TypeInv, UnitInv, NEW s \in Sessions, pc[s] \in UnitSteps, NoFault \/ Fault,
           \/ \E step \in UnitSteps : Become(s, step)
           \/ UNCHANGED pc
           \/ Fault /\ Stop(s)
           \/ Reconciled(s)
    PROVE  /\ pc'[s] \in UnitSteps \cup {"idle", "failed", "subs"}
           /\ pc'[s] = "failed" => Fault
           /\ pc'[s] = "subs" => local'[s].cmd.kind = "hy2"
  <1>1. s \in Actors /\ pc \in [Actors -> Steps]
    BY AtWork DEF CommandSteps
  <1>2. CASE \E step \in UnitSteps : Become(s, step)
    BY <1>1, <1>2 DEF Become, UnitSteps
  <1>3. CASE UNCHANGED pc
    BY <1>3 DEF UnitSteps
  <1>4. CASE Fault /\ Stop(s)
    BY <1>1, <1>4, Lands
  <1>5. CASE Reconciled(s)
    <2>1. (local[s].cmd.kind = "hy2" /\ GoTo(s, "subs")) \/ Finish(s)
      BY <1>5 DEF Reconciled
    <2> QED
      BY <1>1, <2>1, Lands
  <1> QED
    BY <1>2, <1>3, <1>4, <1>5

LEMMA UnitRoutes ==
    ASSUME TypeInv, RouteInv, SettledInv, UnitInv, NEW s \in Sessions, pc[s] \in UnitSteps,
           Only(s), NoFault \/ Fault,
           \/ \E step \in UnitSteps : Become(s, step)
           \/ UNCHANGED pc
           \/ Fault /\ Stop(s)
           \/ Reconciled(s),
           Settled'
    PROVE  RouteInv' /\ SettledInv' /\ SavedInv'
  <1>1. lock = s
    BY AtWork DEF CommandSteps
  <1>2. /\ pc'[s] \in UnitSteps \cup {"idle", "failed", "subs"}
        /\ pc'[s] = "failed" => Fault
        /\ pc'[s] = "subs" => local'[s].cmd.kind = "hy2"
    BY UnitLands
  <1>3. pc'[s] \notin RouteSteps \cup {"save_flag"}
    BY <1>2 DEF UnitSteps, RouteSteps
  <1> QED
    BY <1>1, <1>2, <1>3, FaultCounts, RoutesAway

LEMMA WriteUnitRoutes ==
    ASSUME TypeInv, RouteInv, SettledInv, UnitInv, NEW s \in Sessions, NEW u \in Units,
           WriteUnit(s, u)
    PROVE  RouteInv' /\ SettledInv' /\ SavedInv'
  <1>1. pc[s] = "write_units" /\ pc[s] \in UnitSteps /\ pc[s] \notin RouteSteps /\ units[u] # "new"
    BY DEF WriteUnit, At, Drifted, UnitSteps, RouteSteps
  <1>2. lock = s
    BY <1>1, AtWork DEF CommandSteps
  <1>3. Only(s) /\ (NoFault \/ Fault)
    BY SessionFrame DEF Command
  <1>4. RoutesKept /\ UNCHANGED applied
    BY DEF WriteUnit, RoutesKept, config, running, history
  <1>5. applied["xray"] # units["xray"] => applied'["xray"] # units'["xray"]
    <2>1. u = "xray" => applied["xray"] = units["xray"]
      BY <1>1 DEF UnitInv
    <2>2. u # "xray" => units'["xray"] = units["xray"]
      BY UnitsTyped DEF WriteUnit
    <2> QED
      BY <1>4, <2>1, <2>2
  <1>6. Settled'
    BY <1>1, <1>2, <1>3, <1>4, <1>5, RoutesQuiet, SettledStays
  <1>7. UNCHANGED pc \/ (Fault /\ Stop(s))
    BY DEF WriteUnit, Fail
  <1> QED
    BY <1>1, <1>3, <1>6, <1>7, UnitRoutes

LEMMA UnitStepRoutes ==
    ASSUME TypeInv, RouteInv, SettledInv, UnitInv, NEW s \in Sessions,
           RetireHysteriaUnit(s) \/ RemoveHysteriaUnit(s) \/ DaemonReload(s)
    PROVE  RouteInv' /\ SettledInv' /\ SavedInv'
  <1>1. pc[s] \in UnitSteps /\ pc[s] \notin RouteSteps
    BY DEF RetireHysteriaUnit, RemoveHysteriaUnit, DaemonReload, At, UnitSteps, RouteSteps
  <1>2. lock = s
    BY <1>1, AtWork DEF CommandSteps
  <1>3. Only(s) /\ (NoFault \/ Fault)
    BY SessionFrame DEF Command
  <1>4. RoutesKept /\ UNCHANGED applied
    BY DEF RetireHysteriaUnit, RemoveHysteriaUnit, DaemonReload, RoutesKept, config, running,
           systemd, history
  <1>5. units'["xray"] = units["xray"]
    BY UnitsTyped DEF RetireHysteriaUnit, RemoveHysteriaUnit, DaemonReload, systemd
  <1>6. Settled'
    BY <1>1, <1>2, <1>3, <1>4, <1>5, RoutesQuiet, SettledStays
  <1>7. \/ \E step \in UnitSteps : Become(s, step)
        \/ Fault /\ Stop(s)
        \/ Reconciled(s)
    <2>1. CASE RetireHysteriaUnit(s)
      BY <2>1 DEF RetireHysteriaUnit, GoTo, Fail, UnitSteps
    <2>2. CASE RemoveHysteriaUnit(s)
      BY <2>2 DEF RemoveHysteriaUnit, Fail, UnitSteps
    <2>3. CASE DaemonReload(s)
      BY <2>3 DEF DaemonReload, GoTo, Fail, UnitSteps
    <2> QED
      BY <2>1, <2>2, <2>3
  <1> QED
    BY <1>1, <1>3, <1>6, <1>7, UnitRoutes

LEMMA ApplyRoutes ==
    ASSUME TypeInv, RouteInv, SettledInv, UnitInv, NEW s \in Sessions, ApplyUnit(s)
    PROVE  RouteInv' /\ SettledInv' /\ SavedInv'
  <1>1. pc[s] = "apply" /\ pc[s] \in UnitSteps /\ pc[s] \notin RouteSteps
    BY DEF ApplyUnit, At, UnitSteps, RouteSteps
  <1>2. lock = s /\ local[s] \in Runs
    BY <1>1, AtWork DEF CommandSteps
  <1>3. Only(s) /\ (NoFault \/ Fault)
    BY SessionFrame DEF Command
  <1>4. UNCHANGED <<env, xray, cfd, wanted, units>>
    BY DEF ApplyUnit, config, history
  <1>5. Settled
    BY <1>1, <1>2, RoutesQuiet
  <1>6. UNCHANGED pc \/ (Fault /\ Stop(s)) \/ Reconciled(s)
    BY DEF ApplyUnit, Fail
  <1> DEFINE u == IF "hysteria" \in local[s].changed THEN "hysteria" ELSE "xray"
  <1>7. local[s].changed # {} => u \in local[s].changed /\ u \in Units
    BY <1>2 DEF Runs, Units
  <1>8. \/ local[s].changed = {} /\ UNCHANGED <<running, applied>>
        \/ /\ local[s].changed # {} /\ NoFault
           /\ applied' = [applied EXCEPT ![u] = units[u]]
           /\ xrayRun' = IF u = "xray" THEN xray ELSE xrayRun
           /\ UNCHANGED cfdRun
        \/ /\ local[s].changed # {} /\ Fault
           /\ xrayRun' \in IF u = "xray" THEN Broken(xrayRun) ELSE {xrayRun}
           /\ UNCHANGED <<cfdRun, applied>>
    BY DEF ApplyUnit
  <1> HIDE DEF u
  <1>9. CASE RoutesKept /\ applied'["xray"] = applied["xray"]
    BY <1>1, <1>3, <1>4, <1>5, <1>6, <1>9, SettledStays, UnitRoutes
  <1>10. CASE local[s].changed # {} /\ u = "xray"
    <2>1. units["xray"] = "new" /\ applied["xray"] # "new"
      BY <1>1, <1>7, <1>10 DEF UnitInv, UnitAt, Written
    <2>2. Settled'
      <3>1. Due' = Due
        BY <1>4 DEF Due
      <3>2. xray # Down
        BY RoutesTyped, NeverDown
      <3>3. CASE NoFault /\ xrayRun' = xray /\ UNCHANGED cfdRun
        <4>1. faults' = faults
          BY <3>3 DEF NoFault
        <4>2. InTune => InTune'
          BY <1>4, <3>3 DEF InTune
        <4> QED
          BY <1>4, <1>5, <3>1, <3>2, <3>3, <4>1, <4>2 DEF Settled, Most
      <3>4. CASE Fault /\ xrayRun' \in Broken(xrayRun) /\ UNCHANGED <<cfdRun, applied>>
        <4>1. faults' # 0 /\ (faults' <= 1 => faults <= 1)
          BY <3>4, FaultCounts
        <4> QED
          BY <1>4, <1>5, <2>1, <3>1, <3>4, <4>1 DEF Settled, Most, Broken
      <3> QED
        BY <1>8, <1>10, <3>3, <3>4
    <2> QED
      BY <1>1, <1>3, <1>6, <2>2, UnitRoutes
  <1>11. local[s].changed = {} \/ u # "xray" => RoutesKept /\ applied'["xray"] = applied["xray"]
    <2>1. CASE local[s].changed = {}
      BY <1>4, <1>8, <2>1 DEF RoutesKept, running
    <2>2. CASE local[s].changed # {} /\ u # "xray"
      BY <1>4, <1>7, <1>8, <2>2, UnitsTyped DEF RoutesKept
    <2> QED
      BY <2>1, <2>2
  <1> QED
    BY <1>9, <1>10, <1>11

LEMMA CertificateRoutes ==
    ASSUME TypeInv, RouteInv, SettledInv, SavedInv, NEW p \in {Timer, Agent},
           \/ p = Timer /\ (RenewRead \/ RenewLock \/ Renewal)
           \/ p = Agent /\ ((\E h \in Hosts : Rotate(h)) \/ Rotation)
    PROVE  RouteInv' /\ SettledInv' /\ SavedInv'
  <1>1. /\ Only(p) /\ UNCHANGED <<xray, cfd, xrayRun, cfdRun, systemd, history>>
        /\ NoFault \/ Fault
        /\ env' = env \/ \E h \in Hosts : env' = [env EXCEPT !.host = h]
        /\ lock \in {None, p} \/ UNCHANGED <<env, faults>>
    BY CertificateFrame
  <1>2. p \in Actors /\ \A s \in Sessions : s # p /\ s \in Actors
    BY SessionsApart
  <1>3. \A s \in Sessions : pc'[s] = pc[s] /\ local'[s] = local[s]
    BY <1>1, <1>2 DEF Only
  <1>4. lock \in {None, p} => \A s \in Sessions : pc[s] \in Free
    BY <1>1, <1>2, Alone
  <1>5. RoutesKept
    BY <1>1, RoutesTyped DEF RoutesKept, history, Envs
  <1>6. NoFault \/ (Fault /\ \A s \in Sessions : pc[s] \in Free)
    BY <1>1, <1>4 DEF NoFault
  <1> QED
    BY <1>1, <1>3, <1>4, <1>5, <1>6, RoutesFrame DEF systemd

LEMMA KillRoutes ==
    ASSUME TypeInv, RouteInv, SettledInv, SavedInv, NEW p \in Actors, Kill(p)
    PROVE  RouteInv' /\ SettledInv' /\ SavedInv'
  <1>1. /\ Only(p) /\ lock = p /\ Fault /\ Stop(p)
        /\ UNCHANGED <<config, running, systemd, history>>
    BY KillFrame
  <1>2. /\ UNCHANGED <<env, xray, cfd, xrayRun, cfdRun, wanted, units, applied>>
        /\ RoutesKept
    BY <1>1 DEF config, running, systemd, history, RoutesKept
  <1>3. CASE p \in Sessions /\ pc[p] \in RouteSteps
    BY <1>1, <1>2, <1>3, UntroubledStops, FailRoutes
  <1>4. CASE p \in Sessions /\ pc[p] \notin RouteSteps
    <2>1. Settled'
      BY <1>1, <1>2, <1>4, RoutesQuiet, SettledStays
    <2>2. pc'[p] = "failed"
      BY <1>1, <1>4, Lands
    <2> QED
      BY <1>1, <1>4, <2>1, <2>2, FaultCounts, RoutesAway DEF RouteSteps
  <1>5. CASE p \notin Sessions
    <2>1. \A s \in Sessions : s \in Actors /\ s # p
      BY <1>5, SessionsApart
    <2>2. \A s \in Sessions : pc'[s] = pc[s] /\ local'[s] = local[s]
      BY <1>1, <2>1 DEF Only
    <2>3. \A s \in Sessions : pc[s] \in Free
      BY <1>1, <2>1, OthersWait
    <2> QED
      BY <1>1, <1>2, <2>2, <2>3, RoutesFrame
  <1> QED
    BY <1>3, <1>4, <1>5

LEMMA RebootRoutes ==
    ASSUME TypeInv, RouteInv, SettledInv, SavedInv, Reboot
    PROVE  RouteInv' /\ SettledInv' /\ SavedInv'
  <1>1. /\ lock = None /\ Fault /\ xrayRun' = xray /\ cfdRun' = cfd
        /\ UNCHANGED <<env, xray, cfd, wanted, pc, local>>
    BY DEF Reboot, config, control, history
  <1>2. \A s \in Sessions : pc[s] \in Free
    BY <1>1, SessionsApart DEF TypeInv, ControlInv
  <1>3. \A s \in Sessions : pc'[s] \notin RouteSteps \cup {"save_flag", "subs"}
    BY <1>1, <1>2 DEF Free, RouteSteps
  <1>4. RouteInv' /\ SavedInv'
    BY <1>1, <1>3, FaultCounts DEF RouteInv, RouteOf, SavedInv
  <1>5. Settled
    BY <1>1, <1>3 DEF SettledInv, Busy
  <1>6. Settled'
    <2>1. faults' # 0 /\ (faults' <= 1 => faults <= 1)
      BY <1>1, FaultCounts
    <2>2. xray # Down /\ cfd # Down
      BY RoutesTyped, NeverDown
    <2> QED
      BY <1>1, <1>5, <2>1, <2>2 DEF Settled, Most, Due
  <1> QED
    BY <1>4, <1>6 DEF SettledInv

LEMMA RoutesNext ==
    ASSUME TypeInv, RouteInv, SettledInv, SavedInv, UnitInv, HysteriaInv, [Next]_vars
    PROVE  RouteInv' /\ SettledInv' /\ SavedInv'
  <1>1. ASSUME NEW s \in Sessions, NEW c \in Commands, Start(s, c)
        PROVE  RouteInv' /\ SettledInv' /\ SavedInv'
    <2>1. Only(s) /\ Begin(s, c)
      BY <1>1, SessionFrame DEF Start
    <2>2. wanted' = IF c.kind \notin RouteKinds THEN wanted
                    ELSE IF c.on THEN wanted \cup {c.kind} ELSE wanted \ {c.kind}
      BY <1>1 DEF Start
    <2>3. wanted' \ {c.kind} = wanted \ {c.kind}
      BY <2>2
    <2> QED
      BY <2>1, <2>2, <2>3, BeginRoutes
  <1>2. ASSUME NEW s \in Sessions, Rerun(s)
        PROVE  RouteInv' /\ SettledInv' /\ SavedInv'
    <2>1. local[s].cmd \in Commands
      BY <1>2, SessionsApart DEF Rerun, At, TypeInv, ControlInv, FitsAt, Given
    <2>2. Only(s) /\ Begin(s, local[s].cmd) /\ wanted' = wanted
      BY <1>2, SessionFrame DEF Rerun, history
    <2>3. faults # 0
      BY <1>2 DEF Rerun, At, RouteInv, RouteOf
    <2> QED
      BY <2>1, <2>2, <2>3, BeginRoutes
  <1>3. ASSUME NEW s \in Sessions, Command(s)
        PROVE  RouteInv' /\ SettledInv' /\ SavedInv'
    BY <1>3, WriteXrayRoutes, WriteCloudflaredRoutes, RestartXrayRoutes, RestartCloudflaredRoutes,
       RestoreConfigsRoutes, RestartRestoredRoutes, SaveEnvRoutes, SubscriptionsRoutes,
       WriteUnitRoutes, UnitStepRoutes, ApplyRoutes
    DEF Command
  <1>4. CASE RenewRead \/ RenewLock \/ Renewal
    BY <1>4, CertificateRoutes
  <1>5. CASE (\E h \in Hosts : Rotate(h)) \/ Rotation
    BY <1>5, CertificateRoutes
  <1>6. CASE \E p \in Actors : Kill(p)
    BY <1>6, KillRoutes
  <1>7. CASE Age
    BY <1>7, RoutesFrame DEF Age, RoutesKept, systemd, config, control, history
  <1>8. CASE UNCHANGED vars
    BY <1>8, RoutesFrame DEF vars, RoutesKept, systemd, config, running, control, history, NoFault
  <1> QED
    BY <1>1, <1>2, <1>3, <1>4, <1>5, <1>6, <1>7, <1>8, RebootRoutes DEF Next

-----------------------------------------------------------------------------
(* The inductive invariant, and what follows from it.                      *)

LEMMA Inductive == Spec => []IInv
  <1>1. Init => IInv
    BY InitType, InitRoutes, InitSystem, InitPair DEF IInv
  <1>2. IInv /\ [Next]_vars => IInv'
    BY TypeStep, PairNext, SystemNext, RoutesNext DEF IInv
  <1> QED
    BY <1>1, <1>2, PTL DEF Spec

\* After any single failure, kill or reboot, once the lock is free: cloudflared runs,
\* xray runs or waits for a unit that reconcile-units could not apply, every wanted
\* route of cfvpn.env that does not need cloudflared is served, and certificate and
\* key belong together unless a holder of the lock was killed.
THEOREM OneFaultContained == Spec => []OneFaultIsContained
  <1>1. IInv => OneFaultIsContained
    <2>1. SUFFICES ASSUME IInv, AtRest, faults <= 1
                   PROVE  /\ xrayRun = Down => applied["xray"] # units["xray"]
                          /\ cfdRun # Down
                          /\ xrayRun # Down => \A r \in (env.routes \cap wanted) :
                               r # "xhttp" \/ faults = 0 => Served(r)
                          /\ ~killed => pair.cert = pair.key
      BY DEF OneFaultIsContained
    <2>2. TypeInv /\ lock = None
      BY <2>1 DEF IInv, AtRest
    <2>3. \A p \in Actors : pc[p] \in Free
      BY <2>2, SessionsApart DEF TypeInv, ControlInv
    <2>4. Settled
      <3>1. ~Busy
        BY <2>3, SessionsApart DEF Busy, Free, RouteSteps
      <3> QED
        BY <2>1, <3>1 DEF IInv, SettledInv
    <2>5. ~killed => pair.cert = pair.key
      BY <2>1, <2>3, SessionsApart DEF IInv, PairInv, Free
    <2>6. ASSUME xrayRun # Down, NEW r \in env.routes \cap wanted, r # "xhttp" \/ faults = 0
          PROVE  Served(r)
      <3>1. CASE r # "xhttp"
        BY <2>1, <2>4, <2>6, <3>1 DEF Settled, Most, Due, Served
      <3>2. CASE faults = 0
        <4>1. xrayRun.routes = env.routes /\ cfdRun = ("xhttp" \in env.routes)
          BY <2>4, <3>2, RenderFields DEF Settled, InTune
        <4> QED
          BY <2>6, <4>1 DEF Served
      <3> QED
        BY <2>6, <3>1, <3>2
    <2> QED
      BY <2>1, <2>4, <2>5, <2>6 DEF Settled
  <1> QED
    BY <1>1, Inductive, PTL

\* A session's command ends well only as it regenerates the subscription files, or
\* as reconcile-units has no unit left.
LEMMA Endings ==
    ASSUME IInv, [Next]_vars, NEW s \in Sessions, lock = s, pc'[s] = "idle"
    PROVE  \/ RegenerateSubscriptions(s) /\ NoFault /\ subs' = env
           \/ /\ pc[s] \in {"reload", "apply"} /\ local[s].changed = {}
              /\ UNCHANGED <<env, units, applied, enabled, hyRun>>
              /\ local[s].cmd.kind = "reconcile"
  <1>1. TypeInv /\ s \in Actors /\ pc[s] \notin Free
    BY SessionsApart DEF IInv, TypeInv, ControlInv
  <1>2. pc[s] # "idle" /\ pc \in [Actors -> Steps]
    BY <1>1 DEF Free, TypeInv, ControlInv
  <1>3. ASSUME NEW p \in Actors, Only(p), lock \in {None, p}
        PROVE  p = s
    BY <1>1, <1>3, SessionsApart
  <1>4. ASSUME NEW q \in Sessions, NEW c \in Commands, Start(q, c)
        PROVE  FALSE
    BY <1>1, <1>4, SessionsApart DEF Start, Begin
  <1>5. ASSUME NEW q \in Sessions, Rerun(q)
        PROVE  FALSE
    BY <1>1, <1>5, SessionsApart DEF Rerun, Begin
  <1>6. ~(RenewRead \/ RenewLock \/ Renewal)
    <2>1. SUFFICES ASSUME RenewRead \/ RenewLock \/ Renewal
                   PROVE  FALSE
      OBVIOUS
    <2>2. Only(Timer)
      BY <1>1, <2>1, CertificateFrame
    <2> QED
      BY <1>1, <1>2, <2>2, SessionsApart DEF Only
  <1>7. ~((\E h \in Hosts : Rotate(h)) \/ Rotation)
    <2>1. SUFFICES ASSUME (\E h \in Hosts : Rotate(h)) \/ Rotation
                   PROVE  FALSE
      OBVIOUS
    <2>2. Only(Agent)
      BY <1>1, <2>1, CertificateFrame
    <2> QED
      BY <1>1, <1>2, <2>2, SessionsApart DEF Only
  <1>8. ~\E p \in Actors : Kill(p)
    <2>1. SUFFICES ASSUME NEW p \in Actors, Kill(p)
                   PROVE  FALSE
      OBVIOUS
    <2>2. p = s /\ Stop(s)
      BY <2>1 DEF Kill
    <2> QED
      BY <1>1, <2>2, Lands
  <1>9. ~Reboot /\ ~Age
    BY <1>1, SessionsApart DEF Reboot, Age
  <1>10. UNCHANGED vars => FALSE
    BY <1>2 DEF vars, control
  <1>11. PICK q \in Sessions : Command(q)
    BY <1>4, <1>5, <1>6, <1>7, <1>8, <1>9, <1>10 DEF Next
  <1>12. q = s
    BY <1>1, <1>3, <1>11, SessionFrame, SessionsApart
  <1>13. Fail(s) => FALSE
    BY <1>1, Lands DEF Fail
  <1>14. \A step : GoTo(s, step) => step = "idle"
    BY <1>1, Lands
  <1>15. CASE RouteStep(s)
    <2>1. /\ ~WriteXray(s) /\ ~RestartRestored(s) /\ ~RestoreConfigs(s)
      BY <1>13, <1>14 DEF WriteXray, RestartRestored, RestoreConfigs
    <2>2. ~WriteCloudflared(s)
      BY <1>14 DEF WriteCloudflared
    <2>3. \A unit : ~Restore(s, unit)
      BY <1>1, <1>2 DEF Restore, Become
    <2>4. ~RestartXray(s) /\ ~RestartCloudflared(s)
      BY <1>14, <2>3 DEF RestartXray, RestartCloudflared
    <2> QED
      BY <1>15, <2>1, <2>2, <2>4 DEF RouteStep
  <1>16. ~SaveEnv(s)
    BY <1>13, <1>14 DEF SaveEnv
  <1>17. ~\E u \in Units : WriteUnit(s, u)
    BY <1>2, <1>13 DEF WriteUnit
  <1>18. ~RetireHysteriaUnit(s)
    BY <1>13, <1>14 DEF RetireHysteriaUnit
  <1>19. ~RemoveHysteriaUnit(s)
    BY <1>1, <1>2, <1>13 DEF RemoveHysteriaUnit, Become
  <1>20. CASE RegenerateSubscriptions(s)
    BY <1>13, <1>20 DEF RegenerateSubscriptions
  <1>21. Reconciled(s) => local[s].cmd.kind # "hy2"
    BY <1>14 DEF Reconciled
  <1>22. pc[s] \in UnitSteps => local[s].cmd.kind \in {"hy2", "reconcile"}
    BY DEF IInv, UnitInv, UnitAt
  <1>23. CASE DaemonReload(s)
    <2>1. pc[s] = "reload" /\ local[s].changed = {} /\ Reconciled(s)
      BY <1>13, <1>14, <1>23 DEF DaemonReload, At
    <2> QED
      BY <1>21, <1>22, <1>23, <2>1 DEF DaemonReload, UnitSteps, config, systemd, running
  <1>24. CASE ApplyUnit(s)
    <2>1. pc[s] = "apply" /\ local[s].changed = {} /\ Reconciled(s)
          /\ UNCHANGED <<running, applied, enabled>>
      BY <1>2, <1>13, <1>24 DEF ApplyUnit, At
    <2> QED
      BY <1>21, <1>22, <1>24, <2>1 DEF ApplyUnit, UnitSteps, config, running
  <1> QED
    BY <1>11, <1>12, <1>15, <1>16, <1>17, <1>18, <1>19, <1>20, <1>23, <1>24
    DEF Command, RouteStep

\* What the answers of the feature commands promise.  Whatever failed before,
\* cfvpn.env, files, units and subscriptions are as asked, what `hy2 disable` and
\* reconcile-units switch off is off, and xray runs what the route commands other
\* than `xhttp` and rotate-reality wrote.  `hy2 enable`, `xhttp` and reconcile-units
\* promise what runs only on a node where nothing has failed.
THEOREM OkIsDone == Spec => OkMeansApplied
  <1> DEFINE P(s) ==
        /\ Succeeds(s, {"hy2"}) => env'.hy2 = local[s].cmd.on /\ subs' = env'
        /\ Succeeds(s, {"hy2", "reconcile"}) =>
             /\ units'["xray"] = "new"
             /\ IF env'.hy2 THEN units'["hysteria"] = "new" ELSE hyRun' = Down /\ ~enabled'
        /\ Succeeds(s, {"hy2"}) /\ local[s].cmd.on /\ faults = 0 => hyRun' # Down /\ enabled'
        /\ Succeeds(s, {"reconcile"}) /\ faults = 0 =>
             \A u \in Units : units'[u] # "gone" => applied'[u] = units'[u]
        /\ Succeeds(s, RouteKinds \cup {"reality"}) =>
             env' = local[s].env /\ xray' = RenderXray(env') /\ subs' = env'
        /\ Succeeds(s, {"h3", "xhttp_direct", "reality"}) => xrayRun' = xray'
        /\ Succeeds(s, {"xhttp"}) =>
             /\ cfd' = RenderCloudflared(env')
             /\ faults = 0 => xrayRun' = xray' /\ cfdRun' = cfd'
  <1>1. ASSUME IInv, [Next]_vars, NEW s \in Sessions
        PROVE  P(s)
    <2>1. TypeInv /\ UnitInv /\ HysteriaInv /\ RouteInv /\ SettledInv /\ SavedInv
      BY <1>1 DEF IInv
    <2>2. CASE ~(lock = s /\ pc'[s] = "idle")
      BY <2>2 DEF Succeeds
    <2>3. CASE lock = s /\ pc'[s] = "idle"
      <3>1. /\ UnitAt(s) /\ HysteriaAt(s)
            /\ faults = 0 => \A u \in Units :
                 units[u] # "gone" => applied[u] = units[u] \/ Written(s, u)
            /\ faults = 0 /\ units["hysteria"] # "gone" => (hyRun # Down /\ enabled) \/ Changes(s)
        BY <2>1, <2>3, SystemKnown
      <3>2. CASE RegenerateSubscriptions(s) /\ NoFault /\ subs' = env
        <4>1. pc[s] = "subs" /\ pc[s] \notin RouteSteps
              /\ UNCHANGED <<env, xray, cfd, xrayRun, cfdRun, hyRun, units, applied, enabled>>
          BY <3>2 DEF RegenerateSubscriptions, At, RouteSteps, running, systemd
        <4>2. ~Changes(s) /\ \A u : ~Written(s, u)
          BY <4>1 DEF Changes, Written, UnitSteps
        <4>3. ASSUME local[s].cmd.kind = "hy2"
              PROVE  /\ env.hy2 = local[s].cmd.on /\ units["xray"] = "new"
                     /\ IF env.hy2 THEN units["hysteria"] = "new" ELSE hyRun = Down /\ ~enabled
          BY <3>1, <4>1, <4>3 DEF UnitAt, HysteriaAt
        <4>4. faults = 0 => xrayRun = xray /\ cfdRun = cfd
          <5>1. Settled
            BY <2>1, <2>3, <4>1, RoutesQuiet
          <5> QED
            BY <5>1 DEF Settled, InTune
        <4>5. Saved(s)
          BY <2>1, <4>1 DEF SavedInv
        <4>6. CASE local[s].cmd.kind = "hy2"
          BY <3>1, <3>2, <4>1, <4>2, <4>3, <4>6 DEF Succeeds, RouteKinds
        <4>7. local[s].cmd.kind \in RouteKinds \cup {"reality"} => P(s)
          BY <3>2, <4>1, <4>4, <4>5
          DEF Succeeds, RouteKinds, Saved, IsXhttp, RenderXray, RenderCloudflared
        <4>8. local[s].cmd.kind # "reconcile"
          BY <4>5 DEF Saved
        <4> QED
          BY <4>6, <4>7, <4>8 DEF Succeeds, RouteKinds
      <3>3. CASE /\ pc[s] \in {"reload", "apply"} /\ local[s].changed = {}
                 /\ UNCHANGED <<env, units, applied, enabled, hyRun>>
                 /\ local[s].cmd.kind = "reconcile"
        <4>1. \A u : ~Written(s, u)
          BY <3>3 DEF Written
        <4>2. /\ units["xray"] = "new"
              /\ IF env.hy2 THEN units["hysteria"] = "new" ELSE hyRun = Down /\ ~enabled
          BY <3>1, <3>3 DEF UnitAt, HysteriaAt
        <4> QED
          BY <3>1, <3>3, <4>1, <4>2 DEF Succeeds, RouteKinds
      <3> QED
        BY <1>1, <2>3, <3>2, <3>3, Endings
    <2> QED
      BY <2>2, <2>3
  <1>2. IInv /\ [Next]_vars => [\A s \in Sessions : P(s)]_vars
    BY <1>1
  <1> QED
    BY <1>2, Inductive, PTL DEF Spec, OkMeansApplied
=============================================================================
