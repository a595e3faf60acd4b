----------------------------- MODULE NodeUsers -----------------------------
(***************************************************************************)
(* The user writers of one VPN node and the config lock that serialises    *)
(* them: the agent's handlers POST /admin/v1/users, DELETE                 *)
(* /admin/v1/users/<name> and POST /admin/v1/sync                          *)
(* (cmd/cfvpn-agent/main.go), and the commands `cfvpnctl add-user` and     *)
(* `cfvpnctl remove-user` (internal/commands/users.go).                    *)
(*                                                                         *)
(* Each request is an operation p of Ops, run once.  Between two of its    *)
(* steps any other request may step, its client may hang up, its process   *)
(* may be killed, or the machine may reboot.                               *)
(*                                                                         *)
(* An operator whose name ends in _<slip> is the definition after it with  *)
(* a plausible slip; PROJECT.json says which property catches it.          *)
(***************************************************************************)
EXTENDS Naturals, FiniteSets

CONSTANTS
    Users,      \* user names
    Inbounds,   \* VLESS inbounds of the rendered xray config
    Main,       \* the first of them, the one xray.findInbound returns
    Ops,        \* requests; also the credentials each of them mints
    PanelCred,  \* the credentials the panel pushes with a sync
    NoCred,     \* "no entry for this user"
    Down,       \* the running configuration of a service that is not running
    NoUnit,     \* hysteria's on a node with HY2 off, which has no unit for it
    NoFile,     \* hysteria's on a node without a hysteria config
    None,       \* no holder, no request, no local variables
    MaxUsers,   \* commands.MaxUsers
    MaxFaults,  \* bound on the failures of the environment
    Kinds       \* the kinds of request in this instance

AgentKinds == {"agent_add", "agent_delete", "agent_sync"}
CliKinds   == {"cli_add", "cli_remove"}

ASSUME MainAssumption   == Main \in Inbounds
ASSUME UsersAssumption  == IsFiniteSet(Users)
ASSUME BoundsAssumption == MaxUsers \in Nat /\ MaxFaults \in Nat
ASSUME KindsAssumption  == Kinds \subseteq AgentKinds \cup CliKinds
ASSUME NoneAssumption   == None \notin Ops
ASSUME CredAssumption   == NoCred \notin Ops \cup {PanelCred}

VARIABLES
    xray,     \* xray/config.json: inbound -> user -> uuid
    xrayRun,  \* what the running xray loaded
    hy,       \* hysteria/config.yaml, auth.userpass: user -> password
    hyRun,    \* what the running hysteria loaded
    subs,     \* subscription files: user -> the two credentials in it
    lock,     \* holder of xray/.config.lock
    pc,       \* per request: its next step
    req,      \* per request: what was asked
    local,    \* per request: the files it read and the files it means to write
    reply,    \* per request: its answer (HTTP status or exit code)
    gone,     \* agent requests whose client has hung up (r.Context() is done)
    faults    \* failures of the environment so far

files == <<xray, hy, subs>>
services == <<xrayRun, hyRun>>
vars == <<xray, xrayRun, hy, hyRun, subs, lock, pc, req, local, reply, gone, faults>>

Cred == Ops \cup {PanelCred, NoCred}
HyConfig == [Users -> Cred]
XrayConfig == [Inbounds -> [Users -> Cred]]

ASSUME RunAssumption ==
    /\ Down \notin XrayConfig \cup HyConfig
    /\ NoUnit \notin HyConfig \cup {Down}
    /\ NoFile \notin HyConfig \cup {Down, NoUnit}

Locals == [oldX : XrayConfig, oldH : HyConfig, newX : XrayConfig, newH : HyConfig]

\* The panel sets confirm_empty only on an empty list.
SyncRequest == [kind : {"agent_sync"}, users : SUBSET Users, confirm : {FALSE}]
                 \cup [kind : {"agent_sync"}, users : {{}}, confirm : {TRUE}]
UserRequest == [kind : {"agent_add", "agent_delete", "cli_add", "cli_remove"}, user : Users]
Request == SyncRequest \cup UserRequest

Replies == {"none", "ok", "error", "busy", "limit", "exists", "notfound", "empty"}

\* The steps taken with the lock held, and all of them.
Holding == {"loading", "write_xray", "restart_xray", "restore_xray", "restart_old",
            "write_hy", "reload_hy", "remove_sub", "write_subs"}
Steps == Holding \cup {"idle", "waiting", "done", "dead"}

Names(m) == {u \in Users : m[u] # NoCred}
Nobody == [u \in Users |-> NoCred]
Rendered(m) == [i \in Inbounds |-> m]

\* There is a hysteria/config.yaml (HyFile), and HY2_ENABLED with it (Hy2On); no
\* request changes either.  What hysteria still runs after somebody has removed its
\* config by hand is left out: no request restarts it then.
HyFile == hyRun # NoFile
Hy2On == hyRun \notin {NoUnit, NoFile}
ServedHy == IF Hy2On THEN hy ELSE Nobody

-----------------------------------------------------------------------------
(* A node starts in agreement with itself, as a sync leaves it; or its     *)
(* hysteria config has been removed by hand since.                         *)
Init ==
    /\ \E m \in [Users -> {PanelCred, NoCred}] :
        /\ Cardinality(Names(m)) <= MaxUsers
        /\ xray = Rendered(m)
        /\ \/ hy = m /\ hyRun \in {m, NoUnit}
           \/ hy = Nobody /\ hyRun = NoFile
        /\ subs = [u \in Users |-> [x |-> m[u], h |-> ServedHy[u]]]
    /\ xrayRun = xray
    /\ lock = None
    /\ pc = [p \in Ops |-> "idle"]
    /\ req = [p \in Ops |-> None]
    /\ local = [p \in Ops |-> None]
    /\ reply = [p \in Ops |-> "none"]
    /\ gone = {}
    /\ faults = 0

Fault == faults < MaxFaults /\ faults' = faults + 1
NoFault == faults' = faults

At(p, step) == pc[p] = step
GoTo(p, step) == pc' = [pc EXCEPT ![p] = step] /\ UNCHANGED <<lock, reply, local>>

\* Answer the caller; the deferred unlock() runs as the function returns.
Return(p, answer) ==
    /\ pc' = [pc EXCEPT ![p] = "done"]
    /\ reply' = [reply EXCEPT ![p] = answer]
    /\ local' = [local EXCEPT ![p] = None]
    /\ lock' = None

\* addHysteriaUser's failure is no more than a warning.
Fails_warned(p) ==
    Fault /\ IF At(p, "write_hy") THEN GoTo(p, "write_xray") ELSE Return(p, "error")

\* An error of the environment that is returned to the caller.
Fails(p) == Fault /\ Return(p, "error")

\* handleUsers counts the users before the new one.
OverLimit_before(n) == n - 1 > MaxUsers

\* userLimitRefusal.
OverLimit(n) == n > MaxUsers

Agent(p) == req[p].kind \in AgentKinds

-----------------------------------------------------------------------------
(* Getting the lock.                                                       *)

\* The request passes the checks that need no state: handleSync refuses a list
\* over the limit before it asks for the lock.
Arrive(p) ==
    /\ At(p, "idle")
    /\ \E r \in Request :
        /\ r.kind \in Kinds
        /\ req' = [req EXCEPT ![p] = r]
        /\ IF r.kind = "agent_sync" /\ OverLimit(Cardinality(r.users))
           THEN /\ pc' = [pc EXCEPT ![p] = "done"]
                /\ reply' = [reply EXCEPT ![p] = "limit"]
           ELSE /\ pc' = [pc EXCEPT ![p] = "waiting"]
                /\ UNCHANGED reply
    /\ UNCHANGED <<files, services, lock, local, gone, faults>>

\* flock without LOCK_EX.
AcquireConfigLock_shared(p) ==
    /\ At(p, "waiting")
    /\ lock' = p
    /\ pc' = [pc EXCEPT ![p] = "loading"]
    /\ UNCHANGED <<files, services, req, local, reply, gone, faults>>

\* flock(LOCK_EX|LOCK_NB) succeeds.
AcquireConfigLock(p) ==
    /\ At(p, "waiting")
    /\ lock = None
    /\ lock' = p
    /\ pc' = [pc EXCEPT ![p] = "loading"]
    /\ UNCHANGED <<files, services, req, local, reply, gone, faults>>

\* EWOULDBLOCK, and the deadline is past or the context is done: ErrLockBusy.
ErrLockBusy(p) ==
    /\ At(p, "waiting")
    /\ lock # None
    /\ pc' = [pc EXCEPT ![p] = "done"]
    /\ reply' = [reply EXCEPT ![p] = "busy"]
    /\ UNCHANGED <<files, services, lock, req, local, gone, faults>>

-----------------------------------------------------------------------------
(* Reading the two files and deciding what to write, under the lock.       *)

Plan(p, newX, newH, step) ==
    /\ local' = [local EXCEPT ![p] = [oldX |-> xray, oldH |-> hy, newX |-> newX, newH |-> newH]]
    /\ pc' = [pc EXCEPT ![p] = step]
    /\ UNCHANGED <<lock, reply>>

\* A new password for everyone; and the names that hysteria has, only.
SyncPasswords_fresh(p) == [u \in Users |-> IF xray[Main][u] = NoCred THEN NoCred ELSE p]
SyncPasswords_partial(p) == [u \in Names(hy) |-> IF xray[Main][u] = NoCred THEN NoCred ELSE hy[u]]

\* currentSyncUsers: the names and uuids of the first inbound; a name that
\* hysteria does not have gets a password minted here.
SyncPasswords(p) ==
    [u \in Users |-> IF xray[Main][u] = NoCred THEN NoCred
                     ELSE IF hy[u] = NoCred THEN p ELSE hy[u]]

\* currentSyncUsers fails: no hysteria config.
PlanNothing(p) ==
    /\ req[p].kind \in {"agent_add", "agent_delete"} /\ ~HyFile
    /\ Return(p, "error")

\* handleUsers: an existing name is re-applied as it is, a new one counts
\* against the limit.
PlanAgentAdd(p) ==
    LET u == req[p].user
        known == u \in Names(xray[Main])
        uuids == [xray[Main] EXCEPT ![u] = IF known THEN @ ELSE p]
        pws == [SyncPasswords(p) EXCEPT ![u] = IF known THEN @ ELSE p]
    IN /\ req[p].kind = "agent_add" /\ HyFile
       /\ IF ~known /\ OverLimit(Cardinality(Names(xray[Main])) + 1)
          THEN Return(p, "limit")
          ELSE Plan(p, Rendered(uuids), pws, "write_xray")

\* handleUser.
PlanAgentDelete(p) ==
    LET u == req[p].user IN
    /\ req[p].kind = "agent_delete" /\ HyFile
    /\ IF u \in Names(xray[Main])
       THEN Plan(p, Rendered([xray[Main] EXCEPT ![u] = NoCred]),
                 [SyncPasswords(p) EXCEPT ![u] = NoCred], "write_xray")
       ELSE Return(p, "notfound")

\* handleSync: emptySyncRefusal looks at the hysteria users, and is skipped
\* when they cannot be listed, as on a node without a hysteria config.
PlanAgentSync(p) ==
    LET m == [u \in Users |-> IF u \in req[p].users THEN PanelCred ELSE NoCred] IN
    /\ req[p].kind = "agent_sync"
    /\ IF req[p].users = {} /\ ~req[p].confirm /\ Names(hy) # {}
       THEN \/ NoFault /\ Return(p, "empty")
            \/ Fault /\ Plan(p, Rendered(m), m, "write_xray")
       ELSE NoFault /\ Plan(p, Rendered(m), m, "write_xray")

\* RunAddUser: hysteria first, unless the name is there already or there is no
\* hysteria config (a warning); xray.AddUser changes the first inbound.
PlanCliAdd(p) ==
    LET u == req[p].user
        newX == [xray EXCEPT ![Main][u] = p]
    IN /\ req[p].kind = "cli_add"
       /\ IF Cardinality(Names(xray[Main])) >= MaxUsers THEN Return(p, "limit")
          ELSE IF u \in Names(xray[Main]) THEN Return(p, "exists")
          ELSE IF u \in Names(hy) \/ ~HyFile THEN Plan(p, newX, hy, "write_xray")
          ELSE Plan(p, newX, [hy EXCEPT ![u] = p], "write_hy")

\* RunRemoveUser: xray.RemoveUser filters the first inbound.
PlanCliRemove(p) ==
    LET u == req[p].user IN
    /\ req[p].kind = "cli_remove"
    /\ IF u \in Names(xray[Main])
       THEN Plan(p, [xray EXCEPT ![Main][u] = NoCred], [hy EXCEPT ![u] = NoCred], "write_xray")
       ELSE Return(p, "notfound")

Load(p) ==
    /\ At(p, "loading")
    /\ \/ NoFault /\ (\/ PlanNothing(p) \/ PlanAgentAdd(p) \/ PlanAgentDelete(p)
                      \/ PlanCliAdd(p) \/ PlanCliRemove(p))
       \/ PlanAgentSync(p)
       \/ Fails(p)
    /\ UNCHANGED <<files, services, req, gone>>

-----------------------------------------------------------------------------
(* Publishing: applyUsers, and RunAddUser / RunRemoveUser with             *)
(* applyXrayConfig.  r.Context() of a client that hung up makes every      *)
(* command it is passed to fail.  A file is replaced by fsutil.WriteFile,  *)
(* whose error may come before or after the new content is published;      *)
(* only WriteXrayConfigChecked takes the second kind for a success.        *)

\* validateXrayConfig, then the atomic replacement of the file.
WriteXrayConfigChecked(p) ==
    /\ At(p, "write_xray")
    /\ \/ /\ p \notin gone
          /\ NoFault
          /\ xray' = local[p].newX
          /\ GoTo(p, "restart_xray")
       \/ /\ IF p \in gone THEN NoFault ELSE Fault
          /\ UNCHANGED xray
          /\ Return(p, "error")
    /\ UNCHANGED <<hy, subs, services, req, gone>>

\* applyUsers forgets hysteria.
AfterRestart_xrayOnly(p) ==
    IF Agent(p) \/ req[p].kind = "cli_add" THEN "write_subs" ELSE "remove_sub"

AfterRestart(p) ==
    IF Agent(p) THEN "write_hy"
    ELSE IF req[p].kind = "cli_add" THEN "write_subs" ELSE "remove_sub"

\* A failed restart leaves xray down; one that is cut short by a cancelled
\* context may or may not have reached systemd.
RestartXray(p) ==
    /\ At(p, "restart_xray")
    /\ \/ p \notin gone /\ NoFault /\ xrayRun' = xray /\ GoTo(p, AfterRestart(p))
       \/ p \notin gone /\ Fault /\ xrayRun' = Down /\ GoTo(p, "restore_xray")
       \/ p \in gone /\ NoFault /\ xrayRun' \in {xrayRun, xray} /\ GoTo(p, "restore_xray")
    /\ UNCHANGED <<files, hyRun, req, gone>>

\* The old file is put back and nobody starts xray on it.
RestoreXray_noStart(p) ==
    /\ At(p, "restore_xray")
    /\ NoFault /\ xray' = local[p].oldX /\ Return(p, "error")
    /\ UNCHANGED <<hy, subs, services, req, gone>>

RestoreXray(p) ==
    /\ At(p, "restore_xray")
    /\ \/ NoFault /\ xray' = local[p].oldX /\ GoTo(p, "restart_old")
       \/ Fails(p) /\ xray' \in {xray, local[p].oldX}
    /\ UNCHANGED <<hy, subs, services, req, gone>>

\* Restore and restart again, and again.
RestartOld_again(p) ==
    /\ At(p, "restart_old")
    /\ NoFault /\ xrayRun' = xray /\ GoTo(p, "restore_xray")
    /\ UNCHANGED <<files, hyRun, req, gone>>

\* The error of the first restart is returned whatever this one does.
RestartOld(p) ==
    /\ At(p, "restart_old")
    /\ \/ p \notin gone /\ NoFault /\ xrayRun' = xray
       \/ p \notin gone /\ Fault /\ xrayRun' = Down
       \/ p \in gone /\ NoFault /\ xrayRun' \in {xrayRun, xray}
    /\ Return(p, "error")
    /\ UNCHANGED <<files, hyRun, req, gone>>

\* applyUsers forgets the subscriptions.
AfterHysteria_noSubs(p) ==
    IF req[p].kind = "cli_add" THEN GoTo(p, "write_xray") ELSE Return(p, "ok")

AfterHysteria(p) ==
    IF Agent(p) THEN GoTo(p, "write_subs")
    ELSE IF req[p].kind = "cli_add" THEN GoTo(p, "write_xray")
    ELSE Return(p, "ok")

\* hysteria.SetUsers, which edits the file there is.  The agent skips the reload
\* when HY2 is off, the commands do not.
SetUsers(p) ==
    /\ At(p, "write_hy")
    /\ \/ ~HyFile /\ NoFault /\ UNCHANGED hy /\ Return(p, "error")
       \/ /\ HyFile /\ NoFault
          /\ hy' = local[p].newH
          /\ IF Agent(p) /\ ~Hy2On THEN GoTo(p, "write_subs") ELSE GoTo(p, "reload_hy")
       \/ HyFile /\ Fails(p) /\ hy' \in {hy, local[p].newH}
    /\ UNCHANGED <<xray, subs, services, req, gone>>

\* `systemctl restart cfvpn-hysteria.service`; there is no such unit when HY2 is off.
ReloadService(p) ==
    /\ At(p, "reload_hy")
    /\ \/ p \notin gone /\ Hy2On /\ NoFault /\ hyRun' = hy /\ AfterHysteria(p)
       \/ p \notin gone /\ Hy2On /\ Fault /\ hyRun' = Down /\ Return(p, "error")
       \/ p \notin gone /\ ~Hy2On /\ NoFault /\ UNCHANGED hyRun /\ Return(p, "error")
       \/ /\ p \in gone /\ NoFault /\ Return(p, "error")
          /\ \/ UNCHANGED hyRun
             \/ Hy2On /\ hyRun' = hy
    /\ UNCHANGED <<files, xrayRun, req, gone>>

\* os.Remove of the user's subscription file, then on to hysteria if it has the user.
RemoveSubscription(p) ==
    LET u == req[p].user
        removed == [subs EXCEPT ![u] = [x |-> NoCred, h |-> NoCred]]
    IN
    /\ At(p, "remove_sub")
    /\ \/ /\ NoFault
          /\ subs' = removed
          /\ IF u \in Names(hy) THEN GoTo(p, "write_hy") ELSE Return(p, "ok")
       \/ Fails(p) /\ subs' \in {subs, removed}
    /\ UNCHANGED <<xray, hy, services, req, gone>>

\* RegenerateSubscriptions writes the file of every user of the first inbound
\* (RunAddUser: of the new user) and removes none.  An error stops it part way;
\* that hysteria's users cannot be read is only a warning, that it has no config is
\* not even that.
Written(S, pws) ==
    [u \in Users |-> IF u \in S THEN [x |-> xray[Main][u], h |-> pws[u]] ELSE subs[u]]

WriteSubscriptions(p) ==
    LET due == IF Agent(p) THEN Names(xray[Main]) ELSE {req[p].user} IN
    /\ At(p, "write_subs")
    /\ \/ NoFault /\ subs' = Written(due, ServedHy) /\ Return(p, "ok")
       \/ Agent(p) /\ Fault /\ subs' = Written(due, Nobody) /\ Return(p, "ok")
       \/ Fails(p) /\ \E S \in SUBSET due : subs' = Written(S, ServedHy)
    /\ UNCHANGED <<xray, hy, services, req, gone>>

-----------------------------------------------------------------------------
(* What the environment does to a request.                                 *)

Live == {p \in Ops : pc[p] \in Holding \cup {"waiting"}}

\* The client of an agent request disconnects or times out (the panel gives up).
ClientGone(p) ==
    /\ p \in Live \ gone
    /\ Agent(p)
    /\ Fault
    /\ gone' = gone \cup {p}
    /\ UNCHANGED <<files, services, lock, pc, req, local, reply>>

\* The kernel drops the flock of a dead process.
Kill(S) ==
    /\ Fault
    /\ pc' = [p \in Ops |-> IF p \in S THEN "dead" ELSE pc[p]]
    /\ local' = [p \in Ops |-> IF p \in S THEN None ELSE local[p]]
    /\ lock' = IF lock \in S THEN None ELSE lock
    /\ UNCHANGED <<files, req, reply, gone>>

AgentCrash ==
    LET hit == {p \in Live : Agent(p)} IN hit # {} /\ Kill(hit) /\ UNCHANGED services
CliCrash(p) == p \in Live /\ ~Agent(p) /\ Kill({p}) /\ UNCHANGED services

\* The services come back on the files as they are.
Reboot ==
    /\ Kill(Live)
    /\ xrayRun' = xray
    /\ hyRun' = IF Hy2On THEN hy ELSE hyRun

-----------------------------------------------------------------------------
Step(p) ==
    \/ AcquireConfigLock(p) \/ ErrLockBusy(p) \/ Load(p)
    \/ WriteXrayConfigChecked(p) \/ RestartXray(p) \/ RestoreXray(p) \/ RestartOld(p)
    \/ SetUsers(p) \/ ReloadService(p) \/ RemoveSubscription(p) \/ WriteSubscriptions(p)

Next ==
    \/ \E p \in Ops : Arrive(p) \/ Step(p) \/ ClientGone(p) \/ CliCrash(p)
    \/ AgentCrash
    \/ Reboot

\* Every handler runs to its end unless its process dies: the commands it runs
\* are bounded (15 minutes for cfvpnctl, the lock wait by its deadline).
Fairness == \A p \in Ops : WF_vars(Step(p))

Spec == Init /\ [][Next]_vars
LiveSpec == Spec /\ Fairness

-----------------------------------------------------------------------------
(* Properties.                                                             *)

\* The variables hold values of their types.
TypeOK ==
    /\ xray \in XrayConfig
    /\ xrayRun \in XrayConfig \cup {Down}
    /\ hy \in HyConfig
    /\ hyRun \in HyConfig \cup {Down, NoUnit, NoFile}
    /\ subs \in [Users -> [x : Cred, h : Cred]]
    /\ lock \in Ops \cup {None}
    /\ pc \in [Ops -> Steps]
    /\ req \in [Ops -> Request \cup {None}]
    /\ local \in [Ops -> Locals \cup {None}]
    /\ reply \in [Ops -> Replies]
    /\ gone \in SUBSET Ops
    /\ faults \in 0..MaxFaults

\* No lost update (lock.go: "two config writers can't clobber one another"):
\* whatever a request is about to replace is still what it read and planned from,
\* and what it is about to undo is still what it wrote.
NoLostUpdate ==
    \A p \in Ops :
        /\ At(p, "write_xray") => xray = local[p].oldX
        /\ At(p, "write_hy") => hy = local[p].oldH
        /\ At(p, "restore_xray") => xray = local[p].newX

\* No interleaving, failure, crash or restore puts more than MaxUsers users in an
\* inbound, on disk or running (lock.go: "or exceeding MaxUsers").
WithinLimit ==
    \A i \in Inbounds :
        /\ Cardinality(Names(xray[i])) <= MaxUsers
        /\ xrayRun # Down => Cardinality(Names(xrayRun[i])) <= MaxUsers

\* The user commands end in an error on a node with HY2 off, half way: there is no
\* unit to restart; and the syncs on a node without a hysteria config.
Suited == Hy2On \/ (HyFile /\ \A p \in Ops : pc[p] # "idle" => Agent(p))

\* As long as nothing failed, a node nobody is writing to agrees with itself: both
\* services run what is on disk, and hysteria's file has the users of the first
\* inbound, each with a subscription that carries the credentials in force.
AgreementAtRest ==
    faults = 0 /\ lock = None /\ Suited =>
        /\ xrayRun = xray
        /\ Hy2On => hyRun = hy
        /\ Names(hy) = Names(xray[Main])
        /\ \A u \in Names(hy) : subs[u] = [x |-> xray[Main][u], h |-> ServedHy[u]]

\* One failure of any kind, a crash included, never leaves xray down once the
\* lock is free (applyXrayConfig: "so the node is never left with a config xray
\* refuses AND xray down"); it takes a second one.
XraySurvivesOneFault == faults <= 1 /\ lock = None => xrayRun # Down

Answers(p, answer) == reply[p] = "none" /\ reply'[p] = answer

\* The subscription of u carries the credentials in force; without hysteria's if its
\* users could not be read just then (a warning).
Subscribed(u) ==
    /\ subs'[u].x = xray'[Main][u]
    /\ subs'[u].h = ServedHy'[u] \/ (subs'[u].h = NoCred /\ Fault)

\* An ok is never a lie: the two files hold what the request planned (the
\* credentials it answers with, no entry for the user it removed), xray runs that
\* file, and after an agent request so does hysteria.  Every user an agent request
\* leaves in xray has its subscription, so has the one a command adds, and the one a
\* command removes has none.
SuccessIsApplied ==
    [][\A p \in Ops : Answers(p, "ok") =>
         /\ xray' = local[p].newX /\ xrayRun' = xray'
         /\ hy' = local[p].newH
         /\ Agent(p) /\ Hy2On => hyRun' = hy'
         /\ Agent(p) => \A u \in Names(xray'[Main]) : Subscribed(u)
         /\ req[p].kind = "cli_add" => Subscribed(req[p].user)
         /\ req[p].kind = "cli_remove" =>
              subs'[req[p].user] = [x |-> NoCred, h |-> NoCred]]_vars

\* Credentials in clients' hands stay valid: but for a sync, no request changes the
\* uuid of a user or drops it from the first inbound, unless it removes that user or
\* takes back an add of it that failed; and none changes a password in hysteria or
\* loses it, unless it removes the user, or xray did not know the name any more when
\* the request read the files (an orphan of a removal cut short).
AtWork(p, kinds) == pc[p] \in Holding /\ req[p].kind \in kinds
Syncing == \E p \in Ops : AtWork(p, {"agent_sync"})
Leaving(u) == \E p \in Ops : AtWork(p, {"agent_delete", "cli_remove"}) /\ req[p].user = u
Undone(u) ==
    \E p \in Ops : AtWork(p, {"agent_add", "cli_add"}) /\ req[p].user = u /\ At(p, "restore_xray")
Orphan(u) == \E p \in Ops : At(p, "write_hy") /\ u \notin Names(local[p].oldX[Main])
StableCredentials ==
    [][~Syncing =>
        \A u \in Users :
            /\ u \in Names(xray[Main]) =>
                 \/ xray'[Main][u] = xray[Main][u]
                 \/ u \notin Names(xray'[Main]) /\ (Leaving(u) \/ Undone(u))
            /\ u \in Names(hy) =>
                 \/ hy'[u] = hy[u] \/ Orphan(u)
                 \/ u \notin Names(hy') /\ Leaving(u)]_vars

\* On a node with a hysteria config the commands never leave a user in xray that
\* hysteria does not have, whatever fails or dies half way (RunAddUser: "Hysteria
\* goes FIRST on purpose"; RunRemoveUser: "xray goes first here").
NoXrayOnlyUser == HyFile => Names(xray[Main]) \subseteq Names(hy)

\* Every request that waits for the lock is answered or dies with its process,
\* and nobody keeps the lock.
EveryRequestEnds ==
    /\ \A p \in Ops : At(p, "waiting") ~> pc[p] \in {"done", "dead"}
    /\ []<>(lock = None)

\* What comments in the source say and the code does not do (a run shows it).

\* RunRemoveUser: "Revoking access is the point of this command"; the optional
\* inbounds are rendered "for the same users" (internal/templates/render.go).
RemovedFromEveryInbound ==
    [][\A p \in Ops : Answers(p, "ok") /\ req[p].kind = "cli_remove" =>
         \A i \in Inbounds : xray'[i][req[p].user] = NoCred]_vars
=============================================================================
