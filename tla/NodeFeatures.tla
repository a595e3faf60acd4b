---------------------------- MODULE NodeFeatures ----------------------------
(***************************************************************************)
(* What keeps a running node in shape: the commands that switch its        *)
(* features (`cfvpnctl hy2`, `xhttp`, `xhttp-direct`, `xhttp-h3`,          *)
(* `rotate-reality`, `reconcile-units`; internal/commands), the daily      *)
(* `cert-renew` with lego (internal/cert/lego.go), and what a rotation by  *)
(* the agent does to Hysteria2's certificate and HY2_HOST (rotate.go).     *)
(*                                                                         *)
(* All of them hold the config lock; cert-renew reads cfvpn.env before it. *)
(* The rest of a rotation is in NodeRotate, the users in NodeUsers.        *)
(*                                                                         *)
(* An operator whose name ends in _<slip> is the definition after it with  *)
(* a plausible slip.                                                       *)
(***************************************************************************)
EXTENDS Naturals, FiniteSets

CONSTANTS
    Sessions,       \* operators at a shell of the node
    Timer, Agent,   \* cfvpn-cert-renew.timer, cfvpn-agent
    Hosts,          \* names Hysteria2 may have
    FirstHost,      \* the one it starts with
    None,           \* no holder, nothing kept, no certificate
    Down,           \* what a service that is not running serves
    MaxEvents       \* bound on commands and failures of the environment, together

Actors == Sessions \cup {Timer, Agent}

ASSUME ActorsAssumption == Timer # Agent /\ {Timer, Agent} \cap Sessions = {}
ASSUME NoneAssumption   == None \notin Actors
ASSUME HostAssumption   == FirstHost \in Hosts
ASSUME BoundsAssumption == MaxEvents \in Nat

VARIABLES
    env,        \* cfvpn.env: MODE, HY2_ENABLED, HY2_HOST, the routes and Reality key
    subs,       \* cfvpn.env as the subscription files were made from it
    xray, cfd,  \* xray's config; whether cloudflared's routes XHTTP
    xrayRun, cfdRun,    \* what each of them was started with
    units,      \* the unit files of xray and hysteria
    applied,    \* the unit systemd last loaded and applied for each of them
    enabled,    \* whether hysteria's unit is in the boot set
    store,      \* lego's certificate for each host: its age
    pair,       \* hysteria's certificate and key on disk
    hyRun,      \* the certificate the running hysteria loaded
    lock,       \* holder of the config lock
    pc, local,  \* per actor: its next step, and what it keeps
    wanted,     \* the routes the operator last asked for
    asked,      \* commands so far
    killed,     \* whether a holder of the lock was ever killed
    faults      \* failures of the environment so far

config == <<env, subs, xray, cfd>>
running == <<xrayRun, cfdRun, hyRun>>
systemd == <<units, applied, enabled>>
certs == <<store, pair>>
history == <<wanted, asked>>
control == <<lock, pc, local, killed>>
vars == <<config, running, systemd, certs, control, history, faults>>

Routes(mode) == IF mode = "direct" THEN {"h3"} ELSE {"xhttp", "xhttp_direct"}
Keys == 0..4
Units == {"xray", "hysteria"}

\* A due certificate has no more than 30 days left, or has expired.
Ages == {"fresh", "due"}

\* What the templates make of cfvpn.env.
RenderXray(e) == [routes |-> e.routes, key |-> e.key]
RenderCloudflared(e) == "xhttp" \in e.routes

\* hysteria does not start on a certificate with another's key.
Loaded(p) == IF p.cert = p.key THEN p.cert ELSE Down

\* A node in agreement with itself, its routes on; after an update of cfvpnctl its
\* units may not be the canonical ones.
Init ==
    /\ \E mode \in {"direct", "cloudflare"}, hy2 \in BOOLEAN, drift \in BOOLEAN :
        /\ env = [mode |-> mode, hy2 |-> hy2, host |-> FirstHost, routes |-> Routes(mode), key |-> 0]
        /\ units = [xray |-> IF drift THEN "old" ELSE "new",
                    hysteria |-> IF ~hy2 THEN "gone" ELSE IF drift THEN "old" ELSE "new"]
        /\ enabled = hy2
    /\ subs = env
    /\ xray = RenderXray(env) /\ xrayRun = xray
    /\ cfd = RenderCloudflared(env) /\ cfdRun = cfd
    /\ applied = units
    /\ store = [h \in Hosts |-> IF h = FirstHost THEN "fresh" ELSE None]
    /\ pair = [cert |-> [host |-> FirstHost, age |-> "fresh"],
               key |-> [host |-> FirstHost, age |-> "fresh"]]
    /\ hyRun = IF env.hy2 THEN pair.cert ELSE Down
    /\ lock = None
    /\ pc = [p \in Actors |-> "idle"]
    /\ local = [p \in Actors |-> None]
    /\ wanted = env.routes
    /\ asked = 0
    /\ killed = FALSE
    /\ faults = 0

NoFault == faults' = faults
Bounded == asked + faults < MaxEvents
Fault == Bounded /\ faults' = faults + 1

At(p, step) == pc[p] = step
Become(p, step) == pc' = [pc EXCEPT ![p] = step]
GoTo(p, step) == Become(p, step) /\ UNCHANGED <<lock, local, killed>>

\* Success forgets to unlock.
Finish_locked(p) == Become(p, "idle") /\ UNCHANGED <<lock, local, killed>>

\* The command, the run of the timer or the request returns, and unlocks.
Finish(p) ==
    /\ Become(p, "idle") /\ local' = [local EXCEPT ![p] = None]
    /\ lock' = None /\ UNCHANGED killed

\* A failed command is kept, to be given again.
Stop(p) ==
    /\ IF p \in Sessions THEN Become(p, "failed") /\ local' = [local EXCEPT ![p] = [cmd |-> @.cmd]]
       ELSE Become(p, "idle") /\ local' = [local EXCEPT ![p] = None]
    /\ lock' = None
Fail(p) ==
    /\ Stop(p) /\ UNCHANGED killed

\* A `systemctl restart` that failed found the service running or stopped it.
Broken(run) == {run, Down}

-----------------------------------------------------------------------------
(* The commands.                                                           *)

RouteKinds == {"xhttp", "xhttp_direct", "h3"}
Commands == [kind : RouteKinds \cup {"hy2"}, on : BOOLEAN]
              \cup [kind : {"reality", "reconcile"}, on : {TRUE}]

\* Each of the xray commands insists on its mode.
Possible(c) ==
    /\ c.kind \in RouteKinds => c.kind \in Routes(env.mode)
    /\ c.kind = "reality" => env.mode = "direct"

\* A keypair that is not in use anywhere.
FreshKey ==
    LET used == {env.key, subs.key, xray.key} \cup (IF xrayRun = Down THEN {} ELSE {xrayRun.key})
    IN  CHOOSE k \in Keys : k \notin used /\ \A j \in Keys \ used : k <= j

\* cfvpn.env as the command means to leave it.
Asked(c) ==
    CASE c.kind = "hy2" -> [env EXCEPT !.hy2 = c.on]
      [] c.kind = "reality" -> [env EXCEPT !.key = FreshKey]
      [] c.kind = "reconcile" -> env
      [] c.kind \in RouteKinds ->
            [env EXCEPT !.routes = IF c.on THEN @ \cup {c.kind} ELSE @ \ {c.kind}]

\* Take the lock, read cfvpn.env, and render.
Begin(s, c) ==
    /\ lock = None /\ lock' = s
    /\ local' = [local EXCEPT ![s] =
         [cmd |-> c, env |-> Asked(c), xray |-> xray, cfd |-> cfd,
          restored |-> "none", changed |-> {}, created |-> {}, retired |-> FALSE]]
    /\ Become(s, CASE c.kind = "hy2" -> "save_flag"
                   [] c.kind = "reconcile" -> "write_units"
                   [] c.kind \in RouteKinds \cup {"reality"} -> "write_xray")
    /\ NoFault
    /\ UNCHANGED <<config, running, systemd, certs, killed>>

Start(s, c) ==
    /\ At(s, "idle") /\ Bounded /\ Possible(c)
    /\ asked' = asked + 1
    /\ wanted' = IF c.kind \notin RouteKinds THEN wanted
                 ELSE IF c.on THEN wanted \cup {c.kind} ELSE wanted \ {c.kind}
    /\ Begin(s, c)

\* A command that failed, or was killed, is given again.
Rerun(s) ==
    /\ At(s, "failed")
    /\ Begin(s, local[s].cmd)
    /\ UNCHANGED history

IsXhttp(s) == local[s].cmd.kind = "xhttp"

\* xray refuses the candidate, or the file cannot be written: nothing changed.
\* A rename whose durability is unproven counts as written.
WriteXray(s) ==
    /\ At(s, "write_xray")
    /\ \/ NoFault /\ xray' = RenderXray(local[s].env)
          /\ GoTo(s, IF IsXhttp(s) THEN "write_cfd" ELSE "restart_xray")
       \/ Fault /\ UNCHANGED xray /\ Fail(s)
    /\ UNCHANGED <<env, subs, cfd, running, systemd, certs, history>>

WriteCloudflared(s) ==
    /\ At(s, "write_cfd")
    /\ \/ NoFault /\ cfd' = RenderCloudflared(local[s].env) /\ GoTo(s, "restart_xray")
       \/ Fault /\ cfd' \in {cfd, RenderCloudflared(local[s].env)} /\ GoTo(s, "restore")
    /\ UNCHANGED <<env, subs, xray, running, systemd, certs, history>>

\* Which restart failed is the one to repeat on the restored files.
Restore(s, unit) ==
    /\ local' = [local EXCEPT ![s].restored = unit]
    /\ Become(s, "restore") /\ UNCHANGED <<lock, killed>>

\* `xhttp` restarts only what it changed.
RestartXray(s) ==
    LET next == IF IsXhttp(s) THEN "restart_cfd" ELSE "save_env" IN
    /\ At(s, "restart_xray")
    /\ \/ /\ IsXhttp(s) /\ local[s].xray = xray
          /\ NoFault /\ GoTo(s, next) /\ UNCHANGED xrayRun
       \/ /\ IsXhttp(s) => local[s].xray # xray
          /\ \/ NoFault /\ xrayRun' = xray /\ GoTo(s, next)
             \/ Fault /\ xrayRun' \in Broken(xrayRun) /\ Restore(s, "xray")
    /\ UNCHANGED <<config, cfdRun, hyRun, systemd, certs, history>>

RestartCloudflared(s) ==
    /\ At(s, "restart_cfd")
    /\ \/ local[s].cfd = cfd /\ NoFault /\ GoTo(s, "save_env") /\ UNCHANGED cfdRun
       \/ /\ local[s].cfd # cfd
          /\ \/ NoFault /\ cfdRun' = cfd /\ GoTo(s, "save_env")
             \/ Fault /\ cfdRun' \in Broken(cfdRun) /\ Restore(s, "cloudflared")
    /\ UNCHANGED <<config, xrayRun, hyRun, systemd, certs, history>>

\* The previous bytes are put back.  A write that fails is warned about; but for
\* `xhttp`, it spares the restart.
RestoreConfigs(s) ==
    LET l == local[s]
        restart == IF l.restored = "none" THEN Fail(s) ELSE GoTo(s, "restart_old")
    IN  /\ At(s, "restore")
        /\ \/ NoFault /\ xray' = l.xray /\ cfd' = (IF IsXhttp(s) THEN l.cfd ELSE cfd) /\ restart
           \/ Fault /\ ~IsXhttp(s) /\ UNCHANGED <<xray, cfd>> /\ Fail(s)
           \/ Fault /\ IsXhttp(s) /\ restart
              /\ \/ UNCHANGED xray /\ cfd' = l.cfd
                 \/ xray' = l.xray /\ UNCHANGED cfd
        /\ UNCHANGED <<env, subs, running, systemd, certs, history>>

RestartRestored(s) ==
    LET unit == local[s].restored IN
    /\ At(s, "restart_old")
    /\ \/ /\ NoFault
          /\ xrayRun' = IF unit = "xray" THEN xray ELSE xrayRun
          /\ cfdRun' = IF unit = "cloudflared" THEN cfd ELSE cfdRun
       \/ /\ Fault
          /\ xrayRun' \in IF unit = "xray" THEN Broken(xrayRun) ELSE {xrayRun}
          /\ cfdRun' \in IF unit = "cloudflared" THEN Broken(cfdRun) ELSE {cfdRun}
    /\ Fail(s)
    /\ UNCHANGED <<config, hyRun, systemd, certs, history>>

\* SaveAtomic may fail after the rename.  The route commands save what their xray
\* runs by now; `hy2` saves its flag first.
SaveEnv(s) ==
    /\ pc[s] \in {"save_env", "save_flag"}
    /\ \/ NoFault /\ env' = local[s].env /\ GoTo(s, IF At(s, "save_flag") THEN "write_units" ELSE "subs")
       \/ Fault /\ env' \in {env, local[s].env} /\ Fail(s)
    /\ UNCHANGED <<subs, xray, cfd, running, systemd, certs, history>>

RegenerateSubscriptions(p) ==
    /\ At(p, "subs")
    /\ \/ NoFault /\ subs' = env /\ Finish(p)
       \/ Fault /\ subs' \in {subs, env} /\ Fail(p)
    /\ UNCHANGED <<env, xray, cfd, running, systemd, certs, history>>

-----------------------------------------------------------------------------
(* runReconcileUnitsLocked, also the second half of `hy2`.                 *)

Canonical == {"xray"} \cup (IF env.hy2 THEN {"hysteria"} ELSE {})
Drifted == {u \in Canonical : units[u] # "new"}

\* In the order of a Go map.
WriteUnit(s, u) ==
    LET written == [units EXCEPT ![u] = "new"] IN
    /\ At(s, "write_units") /\ u \in Drifted
    /\ \/ /\ NoFault /\ units' = written
          /\ local' = [local EXCEPT ![s].changed = @ \cup {u},
                                    ![s].created = IF units[u] = "gone" THEN @ \cup {u} ELSE @]
          /\ UNCHANGED <<lock, pc, killed>>
       \/ Fault /\ units' \in {units, written} /\ Fail(s)
    /\ UNCHANGED <<config, running, applied, enabled, certs, history>>

\* The unit is removed while its service runs on.
RetireHysteriaUnit_running(s) ==
    /\ At(s, "write_units") /\ Drifted = {}
    /\ NoFault /\ UNCHANGED <<hyRun, enabled>>
    /\ GoTo(s, IF env.hy2 \/ units["hysteria"] = "gone" THEN "reload" ELSE "remove")
    /\ UNCHANGED <<config, xrayRun, cfdRun, units, applied, certs, history>>

\* Stop and disable hysteria, if it is switched off and its unit is still there.
RetireHysteriaUnit(s) ==
    /\ At(s, "write_units") /\ Drifted = {}
    /\ \/ /\ env.hy2 \/ units["hysteria"] = "gone"
          /\ NoFault /\ GoTo(s, "reload") /\ UNCHANGED <<hyRun, enabled>>
       \/ /\ ~env.hy2 /\ units["hysteria"] # "gone"
          /\ \/ NoFault /\ hyRun' = Down /\ enabled' = FALSE /\ GoTo(s, "remove")
             \/ Fault /\ hyRun' \in Broken(hyRun) /\ enabled' \in {enabled, FALSE} /\ Fail(s)
    /\ UNCHANGED <<config, xrayRun, cfdRun, units, applied, certs, history>>

RemoveHysteriaUnit(s) ==
    /\ At(s, "remove")
    /\ \/ /\ NoFault /\ units' = [units EXCEPT !["hysteria"] = "gone"]
          /\ local' = [local EXCEPT ![s].retired = TRUE]
          /\ Become(s, "reload") /\ UNCHANGED <<lock, killed>>
       \/ Fault /\ UNCHANGED units /\ Fail(s)
    /\ UNCHANGED <<config, running, applied, enabled, certs, history>>

\* `hy2` goes on to the subscription files, `reconcile-units` is done.
Reconciled(s) == IF local[s].cmd.kind = "hy2" THEN GoTo(s, "subs") ELSE Finish(s)

\* Units in sync: no call to systemd, whatever is running.
DaemonReload(s) ==
    LET l == local[s] IN
    /\ At(s, "reload")
    /\ \/ l.changed = {} /\ ~l.retired /\ NoFault /\ Reconciled(s)
       \/ (l.changed # {} \/ l.retired) /\ NoFault /\ GoTo(s, "apply")
       \/ (l.changed # {} \/ l.retired) /\ Fault /\ Fail(s)
    /\ UNCHANGED <<config, running, systemd, certs, history>>

\* Sorted: hysteria before xray.  A unit that was not there is enabled, others are
\* restarted.
ApplyUnit(s) ==
    LET l == local[s]
        u == IF "hysteria" \in l.changed THEN "hysteria" ELSE "xray"
    IN  /\ At(s, "apply")
        /\ \/ l.changed = {} /\ NoFault /\ Reconciled(s) /\ UNCHANGED <<running, applied, enabled>>
           \/ /\ l.changed # {} /\ NoFault
              /\ applied' = [applied EXCEPT ![u] = units[u]]
              /\ enabled' = (enabled \/ (u = "hysteria" /\ u \in l.created))
              /\ hyRun' = IF u = "hysteria" THEN Loaded(pair) ELSE hyRun
              /\ xrayRun' = IF u = "xray" THEN xray ELSE xrayRun
              /\ local' = [local EXCEPT ![s].changed = @ \ {u}]
              /\ UNCHANGED <<cfdRun, lock, pc, killed>>
           \/ /\ l.changed # {} /\ Fault
              /\ enabled' \in {enabled, enabled \/ (u = "hysteria" /\ u \in l.created)}
              /\ hyRun' \in IF u = "hysteria" THEN Broken(hyRun) ELSE {hyRun}
              /\ xrayRun' \in IF u = "xray" THEN Broken(xrayRun) ELSE {xrayRun}
              /\ Fail(s) /\ UNCHANGED <<cfdRun, applied>>
        /\ UNCHANGED <<config, units, certs, history>>

-----------------------------------------------------------------------------
(* Certificates.                                                           *)

\* cert-renew reads cfvpn.env before it waits for the lock.
RenewRead ==
    /\ At(Timer, "idle") /\ env.hy2
    /\ local' = [local EXCEPT ![Timer] = [host |-> env.host]]
    /\ Become(Timer, "lock") /\ NoFault
    /\ UNCHANGED <<lock, killed, config, running, systemd, certs, history>>

RenewLock ==
    /\ At(Timer, "lock") /\ lock = None
    /\ lock' = Timer
    /\ local' = [local EXCEPT ![Timer] = [host |-> @.host, before |-> pair]]
    /\ Become(Timer, "lego") /\ NoFault
    /\ UNCHANGED <<killed, config, running, systemd, certs, history>>

\* A rotation to a name Hysteria2 has not had.
Rotate(h) ==
    /\ At(Agent, "idle") /\ lock = None /\ store[h] = None
    /\ lock' = Agent
    /\ local' = [local EXCEPT ![Agent] = [host |-> h, before |-> pair]]
    /\ Become(Agent, "lego") /\ NoFault
    /\ UNCHANGED <<killed, config, running, systemd, certs, history>>

\* A rotation that fails here puts the pair back, once more.
CertFail(p) == IF p = Agent THEN GoTo(p, "rollback") ELSE Fail(p)

\* `lego run`, or `lego renew --days 30`, which leaves a fresh certificate alone.
Lego(p) ==
    LET done == [store EXCEPT ![local[p].host] = "fresh"] IN
    /\ At(p, "lego")
    /\ \/ NoFault /\ store' = done /\ GoTo(p, "copy_cert")
       \/ Fault /\ store' \in {store, done} /\ CertFail(p)
    /\ UNCHANGED <<config, running, systemd, pair, history>>

Leaf(p) == [host |-> local[p].host, age |-> store[local[p].host]]

CopyCert(p) ==
    /\ At(p, "copy_cert")
    /\ \/ NoFault /\ pair' = [pair EXCEPT !.cert = Leaf(p)] /\ GoTo(p, "copy_key")
       \/ Fault /\ UNCHANGED pair /\ CertFail(p)
    /\ UNCHANGED <<config, running, systemd, store, history>>

CopyKey(p) ==
    /\ At(p, "copy_key")
    /\ \/ NoFault /\ pair' = [pair EXCEPT !.key = Leaf(p)]
          /\ GoTo(p, IF p = Timer THEN "reload_hy2" ELSE "move")
       \/ Fault /\ UNCHANGED pair /\ GoTo(p, "restore_pair")
    /\ UNCHANGED <<config, running, systemd, store, history>>

\* The pair that could not be completed stays.
RestorePair_kept(p) ==
    /\ At(p, "restore_pair")
    /\ NoFault /\ UNCHANGED pair
    /\ CertFail(p)
    /\ UNCHANGED <<config, running, systemd, store, history>>

\* copyResult's restore: an error of it is dropped.
RestorePair(p) ==
    /\ At(p, "restore_pair")
    /\ \/ NoFault /\ pair' = local[p].before
       \/ Fault /\ UNCHANGED pair
    /\ CertFail(p)
    /\ UNCHANGED <<config, running, systemd, store, history>>

\* hysteria is restarted if this run changed the pair.
ReloadHysteria ==
    /\ At(Timer, "reload_hy2")
    /\ \/ pair = local[Timer].before /\ NoFault /\ UNCHANGED hyRun /\ Finish(Timer)
       \/ pair # local[Timer].before /\ units["hysteria"] = "gone"
          /\ NoFault /\ UNCHANGED hyRun /\ Fail(Timer)
       \/ pair # local[Timer].before /\ units["hysteria"] # "gone"
          /\ NoFault /\ hyRun' = Loaded(pair) /\ Finish(Timer)
       \/ pair # local[Timer].before /\ units["hysteria"] # "gone"
          /\ Fault /\ hyRun' \in Broken(hyRun) /\ Fail(Timer)
    /\ UNCHANGED <<config, xrayRun, cfdRun, systemd, certs, history>>

\* The rest of the rotation up to Hysteria2.  It renders xray's and cloudflared's
\* configs for the new names and restarts both; neither the routes nor the key in
\* them change, and what becomes of names, configs and services is in NodeRotate.
Move ==
    /\ At(Agent, "move")
    /\ \/ NoFault /\ GoTo(Agent, "rotate_hy2")
       \/ Fault /\ GoTo(Agent, "rollback")
    /\ UNCHANGED <<config, running, systemd, certs, history>>

RestoreHy2Cert ==
    LET was == local[Agent].before IN
    /\ At(Agent, "rollback")
    /\ \/ NoFault /\ pair' = was
       \/ Fault /\ pair' \in {[pair EXCEPT !.cert = was.cert], [pair EXCEPT !.key = was.key]}
    /\ Fail(Agent)
    /\ UNCHANGED <<config, running, systemd, store, history>>

\* After a failed restart hysteria is restarted once more, on the same pair.
RotateHy2Config ==
    /\ At(Agent, "rotate_hy2")
    /\ \/ units["hysteria"] = "gone" /\ NoFault /\ UNCHANGED hyRun /\ Fail(Agent)
       \/ units["hysteria"] # "gone" /\ NoFault /\ hyRun' = Loaded(pair) /\ GoTo(Agent, "save_host")
       \/ units["hysteria"] # "gone" /\ Fault
          /\ hyRun' \in Broken(hyRun) \cup {Loaded(pair)} /\ Fail(Agent)
    /\ UNCHANGED <<config, xrayRun, cfdRun, systemd, certs, history>>

SaveHost ==
    LET saved == [env EXCEPT !.host = local[Agent].host] IN
    /\ At(Agent, "save_host")
    /\ \/ NoFault /\ env' = saved /\ GoTo(Agent, "subs")
       \/ Fault /\ env' \in {env, saved} /\ Fail(Agent)
    /\ UNCHANGED <<subs, xray, cfd, running, systemd, certs, history>>

-----------------------------------------------------------------------------
(* The environment.                                                        *)

\* The lock's holder is killed.
Kill(p) ==
    /\ lock = p /\ Fault /\ killed' = TRUE /\ Stop(p)
    /\ UNCHANGED <<config, running, systemd, certs, history>>

\* At rest; a reboot that kills a command is a Kill and a Reboot.
Reboot ==
    /\ lock = None /\ Fault
    /\ xrayRun' = xray /\ cfdRun' = cfd
    /\ hyRun' = IF enabled /\ units["hysteria"] # "gone" THEN Loaded(pair) ELSE Down
    /\ applied' = units
    /\ UNCHANGED <<config, units, enabled, certs, control, history>>

Older(age) == IF age = "fresh" THEN "due" ELSE age
Aged(leaf) == [leaf EXCEPT !.age = Older(@)]

\* A month or so passes; no command takes that long.
Age ==
    /\ lock = None /\ NoFault
    /\ store' = [h \in Hosts |-> Older(store[h])] /\ store' # store
    /\ pair' = [cert |-> Aged(pair.cert), key |-> Aged(pair.key)]
    /\ hyRun' = IF hyRun = Down THEN Down ELSE Aged(hyRun)
    /\ UNCHANGED <<config, xrayRun, cfdRun, systemd, control, history>>

-----------------------------------------------------------------------------
Command(s) ==
    \/ WriteXray(s) \/ WriteCloudflared(s) \/ RestartXray(s) \/ RestartCloudflared(s)
    \/ RestoreConfigs(s) \/ RestartRestored(s) \/ SaveEnv(s) \/ RegenerateSubscriptions(s)
    \/ (\E u \in Units : WriteUnit(s, u)) \/ RetireHysteriaUnit(s) \/ RemoveHysteriaUnit(s)
    \/ DaemonReload(s) \/ ApplyUnit(s)
Certificate(p) == Lego(p) \/ CopyCert(p) \/ CopyKey(p) \/ RestorePair(p)
Renewal == Certificate(Timer) \/ ReloadHysteria
Rotation ==
    \/ Certificate(Agent) \/ Move \/ RestoreHy2Cert \/ RotateHy2Config \/ SaveHost
    \/ RegenerateSubscriptions(Agent)

Next ==
    \/ \E s \in Sessions : (\E c \in Commands : Start(s, c)) \/ Rerun(s) \/ Command(s)
    \/ RenewRead \/ RenewLock \/ Renewal
    \/ (\E h \in Hosts : Rotate(h)) \/ Rotation
    \/ (\E p \in Actors : Kill(p)) \/ Reboot \/ Age

\* Whatever holds the lock goes on: every call it makes has a timeout.  The timer
\* fires every day and its runs get the lock in the end; an operator repeats a
\* command until it succeeds; time passes.
Fairness ==
    /\ WF_vars((\E s \in Sessions : Command(s)) \/ Renewal \/ Rotation)
    /\ WF_vars(RenewRead) /\ SF_vars(RenewLock) /\ SF_vars(Age)
    /\ \A s \in Sessions : SF_vars(Rerun(s))

Spec == Init /\ [][Next]_vars /\ Fairness

-----------------------------------------------------------------------------
(* Properties.                                                             *)

Envs == [mode : {"direct", "cloudflare"}, hy2 : BOOLEAN, host : Hosts,
         routes : SUBSET RouteKinds, key : Keys]
XrayConfigs == [routes : SUBSET RouteKinds, key : Keys]
Leaves == [host : Hosts, age : Ages]
Pairs == [cert : Leaves, key : Leaves]
ASSUME DownAssumption == Down \notin XrayConfigs \cup BOOLEAN \cup Leaves
Steps == {"idle", "failed", "write_xray", "write_cfd", "restart_xray", "restart_cfd", "restore",
          "restart_old", "save_env", "save_flag", "subs", "write_units", "remove", "reload",
          "apply", "lock", "lego", "copy_cert", "copy_key", "restore_pair", "reload_hy2",
          "move", "rollback", "rotate_hy2", "save_host"}

\* The variables hold values of their types; the steps of a command are taken
\* with the lock held.
TypeOK ==
    /\ env \in Envs /\ subs \in Envs /\ xray \in XrayConfigs /\ cfd \in BOOLEAN
    /\ xrayRun \in XrayConfigs \cup {Down} /\ cfdRun \in BOOLEAN \cup {Down}
    /\ units \in [Units -> {"gone", "old", "new"}] /\ applied \in [Units -> {"gone", "old", "new"}]
    /\ enabled \in BOOLEAN /\ store \in [Hosts -> Ages \cup {None}]
    /\ pair \in Pairs /\ hyRun \in Leaves \cup {Down}
    /\ pc \in [Actors -> Steps]
    /\ \A p \in Actors : pc[p] \in {"idle", "failed", "lock"} <=> lock # p
    /\ killed \in BOOLEAN /\ asked + faults <= MaxEvents

AtRest == lock = None

\* XHTTP also needs the way through cloudflared.
Served(r) == xrayRun # Down /\ r \in xrayRun.routes /\ (r = "xhttp" => cfdRun = TRUE)

\* Whatever single thing fails or is killed: xray and cloudflared end up running,
\* but for an xray that reconcile-units could not restart; a route cfvpn.env has
\* and the operator wants is served; certificate and key belong together.
\* `xhttp` restarts only what it changed, so its routes survive no failure.
OneFaultIsContained ==
    AtRest /\ faults <= 1 =>
        /\ xrayRun = Down => applied["xray"] # units["xray"]
        /\ cfdRun # Down
        /\ xrayRun # Down => \A r \in (env.routes \cap wanted) : r # "xhttp" \/ faults = 0 => Served(r)
        /\ ~killed => pair.cert = pair.key

\* s's command ends well in this step.
Succeeds(s, kinds) ==
    /\ local[s] # None /\ local[s].cmd.kind \in kinds
    /\ lock = s /\ pc'[s] = "idle"

\* What a command says it has done is done.  Whatever failed before: cfvpn.env, the
\* files or units it asked for and the subscriptions are there, what `hy2 disable`
\* and reconcile-units switch off is off, and xray runs what the route commands but
\* `xhttp` and rotate-reality wrote.  That everything runs is claimed for
\* `hy2 enable`, `xhttp` and reconcile-units only on a node where nothing has failed:
\* they restart what they changed, and what an earlier run changed may wait.
OkMeansApplied ==
    [][\A s \in Sessions :
        /\ Succeeds(s, {"hy2"}) => env'.hy2 = local[s].cmd.on /\ subs' = env'
        /\ Succeeds(s, {"hy2", "reconcile"}) =>
             /\ units'["xray"] = "new"
             /\ IF env'.hy2 THEN units'["hysteria"] = "new" ELSE hyRun' = Down /\ ~enabled'
        /\ Succeeds(s, {"hy2"}) /\ local[s].cmd.on /\ faults = 0 => hyRun' # Down /\ enabled'
        /\ Succeeds(s, {"reconcile"}) /\ faults = 0 =>
             \A u \in Units : units'[u] # "gone" => applied'[u] = units'[u]
        /\ Succeeds(s, RouteKinds \cup {"reality"}) =>
             env' = local[s].env /\ xray' = RenderXray(env') /\ subs' = env'
        /\ Succeeds(s, {"h3", "xhttp_direct", "reality"}) => xrayRun' = xray'
        /\ Succeeds(s, {"xhttp"}) =>
             /\ cfd' = RenderCloudflared(env')
             /\ faults = 0 => xrayRun' = xray' /\ cfdRun' = cfd']_vars

\* Whatever became of commands, renewals, rotations and restarts: a node whose HY2
\* stays on comes back, again and again, to serving a fresh certificate of the host
\* cfvpn.env names.  After a restart that was never made up for it takes the next
\* certificate.
Hy2Heals ==
    <>[](env.hy2) => []<>(hyRun # Down /\ hyRun.host = env.host /\ hyRun.age = "fresh")

\* A route is in cfvpn.env only if the running xray has it.  This checks what the
\* route commands say of themselves, for the answer ok.
EnabledRouteIsServed ==
    [][\A s \in Sessions :
        Succeeds(s, RouteKinds) /\ local[s].cmd.on /\ xrayRun' # Down =>
            local[s].cmd.kind \in xrayRun'.routes]_vars
=============================================================================
