----------------------------- MODULE NodeRotate -----------------------------
(***************************************************************************)
(* Moving a node to new host names: the panel's nodeRotateCore             *)
(* (panel/worker/src/routes/nodes.ts), the agent's handleRotateDomain      *)
(* (cmd/cfvpn-agent/main.go), and RunRotateDirect / RunRotateCloudflare    *)
(* with their rollback (internal/commands/rotate.go).                      *)
(*                                                                         *)
(* Every rotation p of Rotations is one call of the panel.  The names it   *)
(* generates are p themselves, one for VLESS and one for Hysteria2; an     *)
(* operator's override may name the VLESS host the node has already.       *)
(*                                                                         *)
(* An operator whose name ends in _<slip> is the definition after it with  *)
(* a plausible slip.                                                       *)
(***************************************************************************)
EXTENDS Naturals, FiniteSets

CONSTANTS
    Rotations,  \* rotations asked for; also the host names each generates
    Old,        \* the host names before
    Mixed,      \* a certificate beside another one's key; files for two hosts
    Down,       \* what a service that is not running serves
    None,       \* no holder, no request
    MaxFaults   \* bound on the failures of the environment

Hosts == Rotations \cup {Old}

ASSUME HostsAssumption  == Old \notin Rotations /\ Mixed \notin Hosts /\ Down \notin Hosts
ASSUME FaultsAssumption == MaxFaults \in Nat

VARIABLES
    xray,       \* host in xray/config.json (a direct node's config names none)
    xrayRun,    \* host the running xray was started with
    cfd,        \* host in cloudflared/config.yml
    cfdRun,     \* host the running cloudflared routes to xray
    cert,       \* HY2 host of the certificate and key on disk
    hyRun,      \* HY2 host the running hysteria presents
    env,        \* cfvpn.env: DOMAIN, HY2_HOST, MODE and HY2_ENABLED
    subs,       \* hosts in the subscription files
    dns,        \* records of the node in Cloudflare
    row,        \* the node's row in D1: vpn_host, hy2_host and status = 'disabled'
    lock,       \* holder of the config lock
    pc,         \* per rotation: the agent's next step, or its answer
    req,        \* per rotation: what the panel asked for
    local,      \* per rotation: what the agent keeps to undo it
    answer,     \* per rotation: what the panel told its caller
    gone,       \* rotations whose connection to the agent is lost
    faults      \* failures of the environment so far

disk == <<xray, cfd, cert, env, subs>>
running == <<xrayRun, cfdRun, hyRun>>
panel == <<row, req, answer>>
vars == <<xray, xrayRun, cfd, cfdRun, cert, hyRun, env, subs, dns, row, lock, pc, req,
          local, answer, gone, faults>>

Names == [host : Hosts, hy2 : Hosts]
Row == [host : Hosts, hy2 : Hosts, disabled : BOOLEAN]
Env == [host : Hosts, hy2 : Hosts, mode : {"direct", "cloudflare"}, hy2On : BOOLEAN]
Records == {"vpn", "hy2"} \X Hosts
Request == [new : Hosts, hy2 : Rotations, old : Names]

ASSUME NoneAssumption == None \notin Rotations \cup Request

Locals == [xray : Hosts, cfd : Hosts, cert : Hosts \cup {Mixed},
           created : SUBSET Records, cfdTouched : BOOLEAN]
Answers == {"none", "ok", "rotate_failed", "rotate_unknown_state", "rotate_persist_failed"}

\* The steps taken under the lock: forward, undoing, and after the node has moved.
Forward == {"load", "issue", "upsert_vpn", "upsert_hy2", "write_xray", "restart_xray",
            "write_cfd", "restart_cfd"}
Undo == {"restore_cfd", "restore_xray", "restart_old_xray", "restart_old_cfd",
         "fail_cert", "fail_hy2", "fail_vpn"}
Moved == {"rotate_hy2", "reload_hy", "reload_old_hy", "save_partial", "save_env",
          "subscriptions", "delete_old_vpn", "delete_old_hy2"}
Holding == Forward \cup Undo \cup Moved
Steps == Holding \cup {"idle", "waiting", "ok", "error", "dead"}

Cloudflare == env.mode = "cloudflare"
Hy2On == env.hy2On
Named == [host |-> env.host, hy2 |-> env.hy2]
RowNames == [host |-> row.host, hy2 |-> row.hy2]

Vpn(h) == <<"vpn", h>>
Hy2(h) == <<"hy2", h>>

Init ==
    /\ env \in [host : {Old}, hy2 : {Old}, mode : {"direct", "cloudflare"}, hy2On : BOOLEAN]
    /\ xray = Old /\ xrayRun = Old
    /\ cfd = Old /\ cfdRun = Old
    /\ cert = Old /\ hyRun = IF Hy2On THEN Old ELSE Down
    /\ subs = Named
    /\ row \in [host : {Old}, hy2 : {Old}, disabled : BOOLEAN]
    /\ dns = {Vpn(Old), Hy2(Old)}
    /\ lock = None
    /\ pc = [p \in Rotations |-> "idle"]
    /\ req = [p \in Rotations |-> None]
    /\ local = [p \in Rotations |-> None]
    /\ answer = [p \in Rotations |-> "none"]
    /\ gone = {}
    /\ faults = 0

NoFault == faults' = faults
Fault == faults < MaxFaults /\ faults' = faults + 1

\* A call that is given r.Context(): it works while the client is there, and is
\* refused or cut short once it is not.
Works(p) == p \notin gone /\ NoFault
Breaks(p) == IF p \in gone THEN NoFault ELSE Fault

At(p, step) == pc[p] = step
Become(p, step) == pc' = [pc EXCEPT ![p] = step]
GoTo(p, step) == Become(p, step) /\ UNCHANGED <<lock, local, gone>>
Reply(p, result) ==
    /\ Become(p, result)
    /\ local' = [local EXCEPT ![p] = None]
    /\ lock' = None
    /\ UNCHANGED gone

Live == {p \in Rotations : pc[p] \in Holding \cup {"waiting"}}

-----------------------------------------------------------------------------
(* The panel asks, and the agent takes the lock.                           *)

\* nodeRotateCore reads the row, picks the new names and calls the agent.
NodeRotate(p) ==
    /\ At(p, "idle")
    /\ \E h \in {p, row.host} :
        req' = [req EXCEPT ![p] = [new |-> h, hy2 |-> p, old |-> RowNames]]
    /\ GoTo(p, "waiting")
    /\ UNCHANGED <<disk, running, dns, row, answer, faults>>

AcquireConfigLock(p) ==
    /\ At(p, "waiting")
    /\ lock = None
    /\ lock' = p
    /\ Become(p, "load")
    /\ UNCHANGED <<disk, running, dns, panel, local, gone, faults>>

ErrLockBusy(p) ==
    /\ At(p, "waiting")
    /\ lock # None
    /\ GoTo(p, "error")
    /\ UNCHANGED <<disk, running, dns, panel, faults>>

\* cfvpn.env, the users and what a rollback puts back.
Load(p) ==
    /\ At(p, "load")
    /\ \/ /\ NoFault
          /\ local' = [local EXCEPT ![p] = [xray |-> xray, cfd |-> cfd, cert |-> cert,
                                            created |-> {}, cfdTouched |-> FALSE]]
          /\ Become(p, "issue")
          /\ UNCHANGED <<lock, gone>>
       \/ Fault /\ Reply(p, "error")
    /\ UNCHANGED <<disk, running, dns, panel>>

-----------------------------------------------------------------------------
(* Forward: certificate, records, xray, cloudflared.                       *)

\* issueHy2Cert overwrites the pair hysteria serves, and puts it back if lego or
\* the copy of its result fails.
IssueHy2Cert(p) ==
    /\ At(p, "issue")
    /\ \/ Works(p) /\ cert' = req[p].hy2 /\ GoTo(p, "upsert_vpn")
       \/ Breaks(p) /\ UNCHANGED cert /\ Reply(p, "error")
    /\ UNCHANGED <<xray, cfd, env, subs, running, dns, panel>>

\* An upsert that fails may have been carried out, and is not registered for
\* the rollback either way.
Upsert(p, rec, next) ==
    /\ \/ /\ Works(p)
          /\ dns' = dns \cup {rec}
          /\ local' = [local EXCEPT ![p].created = @ \cup {rec}]
          /\ Become(p, next)
          /\ UNCHANGED <<lock, gone>>
       \/ Breaks(p) /\ dns' \in {dns, dns \cup {rec}} /\ GoTo(p, "fail_cert")
    /\ UNCHANGED <<disk, running, panel>>

UpsertVpn(p) == At(p, "upsert_vpn") /\ Upsert(p, Vpn(req[p].new), "upsert_hy2")
UpsertHy2(p) == At(p, "upsert_hy2") /\ Upsert(p, Hy2(req[p].hy2), "write_xray")

RenderedXray(p) == IF Cloudflare THEN req[p].new ELSE xray

WriteXray(p) ==
    /\ At(p, "write_xray")
    /\ \/ Works(p) /\ xray' = RenderedXray(p) /\ GoTo(p, "restart_xray")
       \/ Breaks(p) /\ UNCHANGED xray /\ GoTo(p, "fail_cert")
    /\ UNCHANGED <<cfd, cert, env, subs, running, dns, panel>>

\* RunRotateCloudflare forgets cloudflared.
AfterXray_direct == "rotate_hy2"

AfterXray == IF Cloudflare THEN "write_cfd" ELSE "rotate_hy2"

RestartXray(p) ==
    /\ At(p, "restart_xray")
    /\ \/ Works(p) /\ xrayRun' = xray /\ GoTo(p, AfterXray)
       \/ p \notin gone /\ Fault /\ xrayRun' = Down /\ GoTo(p, "restore_xray")
       \/ p \in gone /\ NoFault /\ xrayRun' \in {xrayRun, xray} /\ GoTo(p, "restore_xray")
    /\ UNCHANGED <<disk, cfdRun, hyRun, dns, panel>>

\* A failed write is undone for xray only; the error may come after the rename.
WriteCfd(p) ==
    /\ At(p, "write_cfd")
    /\ \/ NoFault /\ cfd' = req[p].new /\ GoTo(p, "restart_cfd")
       \/ Fault /\ cfd' \in {cfd, req[p].new} /\ GoTo(p, "restore_xray")
    /\ UNCHANGED <<xray, cert, env, subs, running, dns, panel>>

\* The request came through the tunnel that is restarted here: the connection may
\* be lost, and with it the `systemctl restart` that is waiting.
RestartCfd(p) ==
    LET Undone == Become(p, "restore_cfd") /\ local' = [local EXCEPT ![p].cfdTouched = TRUE] IN
    /\ At(p, "restart_cfd")
    /\ \/ /\ Works(p) /\ cfdRun' = cfd /\ gone' \in {gone, gone \cup {p}}
          /\ Become(p, "rotate_hy2") /\ UNCHANGED local
       \/ Works(p) /\ cfdRun' = cfd /\ gone' = gone \cup {p} /\ Undone
       \/ p \notin gone /\ Fault /\ cfdRun' = Down /\ gone' \in {gone, gone \cup {p}} /\ Undone
       \/ p \in gone /\ NoFault /\ cfdRun' \in {cfdRun, cfd} /\ UNCHANGED gone /\ Undone
    /\ UNCHANGED <<disk, xrayRun, hyRun, dns, panel, lock>>

-----------------------------------------------------------------------------
(* Undoing.                                                                *)

RestoreCfd(p) ==
    /\ At(p, "restore_cfd")
    /\ \/ NoFault /\ cfd' = local[p].cfd
       \/ Fault /\ cfd' \in {cfd, local[p].cfd}
    /\ GoTo(p, "restore_xray")
    /\ UNCHANGED <<xray, cert, env, subs, running, dns, panel>>

\* Direct mode does not restart xray when putting its old config back fails, a
\* DurabilityError included.
RestoreXray(p) ==
    /\ At(p, "restore_xray")
    /\ \/ NoFault /\ xray' = local[p].xray /\ GoTo(p, "restart_old_xray")
       \/ /\ Fault /\ xray' \in {xray, local[p].xray}
          /\ GoTo(p, IF Cloudflare THEN "restart_old_xray" ELSE "fail_cert")
    /\ UNCHANGED <<cfd, cert, env, subs, running, dns, panel>>

RestartOldXray(p) ==
    /\ At(p, "restart_old_xray")
    /\ \/ Works(p) /\ xrayRun' = xray
       \/ p \notin gone /\ Fault /\ xrayRun' = Down
       \/ p \in gone /\ NoFault /\ xrayRun' \in {xrayRun, xray}
    /\ GoTo(p, IF local[p].cfdTouched THEN "restart_old_cfd" ELSE "fail_cert")
    /\ UNCHANGED <<disk, cfdRun, hyRun, dns, panel>>

RestartOldCfd(p) ==
    /\ At(p, "restart_old_cfd")
    /\ \/ Works(p) /\ cfdRun' = cfd
       \/ p \notin gone /\ Fault /\ cfdRun' = Down
       \/ p \in gone /\ NoFault /\ cfdRun' \in {cfdRun, cfd}
    /\ GoTo(p, "fail_cert")
    /\ UNCHANGED <<disk, xrayRun, hyRun, dns, panel>>

\* The certificate is not put back.
RestoreHy2Cert_forgotten(p) ==
    /\ At(p, "fail_cert")
    /\ GoTo(p, "fail_hy2")
    /\ UNCHANGED <<disk, running, dns, panel, faults>>

\* rotateRollback.fail: the previous pair, then the records, newest first.  What
\* fails here is a line in the diagnostics.
RestoreHy2Cert(p) ==
    /\ At(p, "fail_cert")
    /\ \/ NoFault /\ cert' = local[p].cert
       \/ Fault /\ cert' \in {cert, Mixed}
    /\ GoTo(p, "fail_hy2")
    /\ UNCHANGED <<xray, cfd, env, subs, running, dns, panel>>

Delete(p, rec) ==
    \/ Works(p) /\ dns' = dns \ {rec}
    \/ Breaks(p) /\ dns' \in {dns, dns \ {rec}}

\* Only what the rotation created is deleted.
DeleteCreated(p, rec) ==
    IF rec \in local[p].created THEN Delete(p, rec) ELSE NoFault /\ UNCHANGED dns

FailHy2(p) ==
    /\ At(p, "fail_hy2")
    /\ DeleteCreated(p, Hy2(req[p].hy2))
    /\ GoTo(p, "fail_vpn")
    /\ UNCHANGED <<disk, running, panel>>

FailVpn(p) ==
    /\ At(p, "fail_vpn")
    /\ DeleteCreated(p, Vpn(req[p].new))
    /\ Reply(p, "error")
    /\ UNCHANGED <<disk, running, panel>>

-----------------------------------------------------------------------------
(* The node has moved: Hysteria2, cfvpn.env, subscriptions, old records.   *)

\* rotateHy2Config, up to the new hysteria config.
RotateHy2Config(p) ==
    /\ At(p, "rotate_hy2")
    /\ \/ NoFault /\ GoTo(p, "reload_hy")
       \/ Fault /\ GoTo(p, "save_partial")
    /\ UNCHANGED <<disk, running, dns, panel>>

\* There is no such unit when HY2 is off.
ReloadHy2(p) ==
    /\ At(p, "reload_hy")
    /\ \/ Hy2On /\ Works(p) /\ hyRun' = cert /\ GoTo(p, "save_env")
       \/ Hy2On /\ p \notin gone /\ Fault /\ hyRun' = Down /\ GoTo(p, "reload_old_hy")
       \/ Hy2On /\ p \in gone /\ NoFault /\ hyRun' \in {hyRun, cert} /\ GoTo(p, "reload_old_hy")
       \/ ~Hy2On /\ NoFault /\ UNCHANGED hyRun /\ GoTo(p, "reload_old_hy")
    /\ UNCHANGED <<disk, xrayRun, cfdRun, dns, panel>>

\* The old config names the same certificate files.
ReloadOldHy2(p) ==
    /\ At(p, "reload_old_hy")
    /\ \/ Hy2On /\ Works(p) /\ hyRun' = cert
       \/ Hy2On /\ p \notin gone /\ Fault /\ hyRun' = Down
       \/ Hy2On /\ p \in gone /\ NoFault /\ hyRun' \in {hyRun, cert}
       \/ ~Hy2On /\ NoFault /\ UNCHANGED hyRun
    /\ GoTo(p, "save_partial")
    /\ UNCHANGED <<disk, xrayRun, cfdRun, dns, panel>>

\* `return rb.fail(err)` instead of `return err`.
SavePartial_rollback(p) ==
    /\ At(p, "save_partial")
    /\ NoFault
    /\ env' = [env EXCEPT !.host = req[p].new]
    /\ GoTo(p, "fail_cert")
    /\ UNCHANGED <<xray, cfd, cert, subs, running, dns, panel>>

\* "persist partial state": the host has moved, HY2_HOST has not.
SavePartial(p) ==
    LET moved == [env EXCEPT !.host = req[p].new] IN
    /\ At(p, "save_partial")
    /\ \/ NoFault /\ env' = moved
       \/ Fault /\ env' \in {env, moved}
    /\ Reply(p, "error")
    /\ UNCHANGED <<xray, cfd, cert, subs, running, dns, panel>>

\* A new file instead of the old one with two keys changed.
SaveEnv_fresh(p) ==
    /\ At(p, "save_env")
    /\ NoFault
    /\ env' = [host |-> req[p].new, hy2 |-> req[p].hy2]
    /\ GoTo(p, "subscriptions")
    /\ UNCHANGED <<xray, cfd, cert, subs, running, dns, panel>>

SaveEnv(p) ==
    LET moved == [env EXCEPT !.host = req[p].new, !.hy2 = req[p].hy2] IN
    /\ At(p, "save_env")
    /\ \/ NoFault /\ env' = moved /\ GoTo(p, "subscriptions")
       \/ Fault /\ env' \in {env, moved} /\ Reply(p, "error")
    /\ UNCHANGED <<xray, cfd, cert, subs, running, dns, panel>>

RegenerateSubscriptions(p) ==
    /\ At(p, "subscriptions")
    /\ \/ NoFault /\ subs' = Named /\ GoTo(p, "delete_old_vpn")
       \/ Fault /\ subs' \in {subs, Mixed} /\ Reply(p, "error")
    /\ UNCHANGED <<xray, cfd, cert, env, running, dns, panel>>

\* deleteOldRecord, twice; it can only warn.
DeleteOldVpn(p) ==
    /\ At(p, "delete_old_vpn")
    /\ Delete(p, Vpn(req[p].old.host))
    /\ GoTo(p, "delete_old_hy2")
    /\ UNCHANGED <<disk, running, panel>>

DeleteOldHy2(p) ==
    /\ At(p, "delete_old_hy2")
    /\ Delete(p, Hy2(req[p].old.hy2))
    /\ Reply(p, "ok")
    /\ UNCHANGED <<disk, running, panel>>

-----------------------------------------------------------------------------
(* The answer, and what happens to it on the way.                          *)

Tell(p, what) == answer[p] = "none" /\ answer' = [answer EXCEPT ![p] = what]

\* The UPDATE leaves hy2_host out.
Persist_hostOnly(p) ==
    /\ At(p, "ok") /\ p \notin gone
    /\ NoFault /\ Tell(p, "ok")
    /\ row' = IF row.disabled THEN row ELSE [row EXCEPT !.host = req[p].new]
    /\ UNCHANGED <<disk, running, dns, lock, pc, req, local, gone>>

\* The agent's 200: the row follows, or the UPDATE fails.  It is an UPDATE "WHERE
\* status != 'disabled'", and nobody asks whether it matched the row.
Persist(p) ==
    /\ At(p, "ok") /\ p \notin gone
    /\ \/ /\ NoFault
          /\ row' = IF row.disabled THEN row
                    ELSE [row EXCEPT !.host = req[p].new, !.hy2 = req[p].hy2]
          /\ Tell(p, "ok")
       \/ Fault /\ UNCHANGED row /\ Tell(p, "rotate_persist_failed")
    /\ UNCHANGED <<disk, running, dns, lock, pc, req, local, gone>>

\* The agent's 4xx or 5xx.
RotateFailed(p) ==
    /\ At(p, "error") /\ p \notin gone
    /\ Tell(p, "rotate_failed")
    /\ UNCHANGED <<disk, running, dns, row, lock, pc, req, local, gone, faults>>

\* The panel's deadline passes; its connection to the agent is closed.
Timeout(p) ==
    /\ p \in Live \ gone
    /\ Fault
    /\ gone' = gone \cup {p}
    /\ Tell(p, "rotate_unknown_state")
    /\ UNCHANGED <<disk, running, dns, row, lock, pc, req, local>>

\* The connection breaks while the panel waits: an error that is no timeout, or
\* a timeout if nobody notices.
ConnectionLost(p) ==
    /\ p \in gone \/ At(p, "dead")
    /\ Tell(p, "rotate_failed") \/ Tell(p, "rotate_unknown_state")
    /\ UNCHANGED <<disk, running, dns, row, lock, pc, req, local, gone, faults>>

\* What an interrupted issueHy2Cert or restoreHy2Cert leaves: two renames.
HalfCopied ==
    {cert} \cup (IF \E p \in Rotations : pc[p] \in {"issue", "fail_cert"} THEN {Mixed} ELSE {})

Die ==
    /\ Live # {}
    /\ Fault
    /\ pc' = [p \in Rotations |-> IF p \in Live THEN "dead" ELSE pc[p]]
    /\ local' = [p \in Rotations |-> IF p \in Live THEN None ELSE local[p]]
    /\ lock' = None
    /\ cert' \in HalfCopied
    /\ UNCHANGED <<xray, cfd, env, subs, dns, panel, gone>>

\* The agent is killed: nobody rolls anything back.
AgentCrash == Die /\ UNCHANGED running

\* The machine reboots: every service starts on the files there are.
Reboot ==
    /\ Die
    /\ xrayRun' = xray
    /\ cfdRun' = cfd
    /\ hyRun' = IF Hy2On /\ cert' # Mixed THEN cert' ELSE Down

-----------------------------------------------------------------------------
Step(p) ==
    \/ AcquireConfigLock(p) \/ ErrLockBusy(p) \/ Load(p)
    \/ IssueHy2Cert(p) \/ UpsertVpn(p) \/ UpsertHy2(p)
    \/ WriteXray(p) \/ RestartXray(p) \/ WriteCfd(p) \/ RestartCfd(p)
    \/ RestoreCfd(p) \/ RestoreXray(p) \/ RestartOldXray(p) \/ RestartOldCfd(p)
    \/ RestoreHy2Cert(p) \/ FailHy2(p) \/ FailVpn(p)
    \/ RotateHy2Config(p) \/ ReloadHy2(p) \/ ReloadOldHy2(p) \/ SavePartial(p)
    \/ SaveEnv(p) \/ RegenerateSubscriptions(p) \/ DeleteOldVpn(p) \/ DeleteOldHy2(p)

Next ==
    \/ \E p \in Rotations :
        \/ NodeRotate(p) \/ Step(p) \/ Persist(p) \/ RotateFailed(p)
        \/ Timeout(p) \/ ConnectionLost(p)
    \/ AgentCrash
    \/ Reboot

Spec == Init /\ [][Next]_vars

-----------------------------------------------------------------------------
(* Properties.                                                             *)

\* The variables hold values of their types.
TypeOK ==
    /\ xray \in Hosts /\ cfd \in Hosts
    /\ cert \in Hosts \cup {Mixed}
    /\ {xrayRun, cfdRun, hyRun} \subseteq Hosts \cup {Down}
    /\ env \in Env /\ row \in Row
    /\ subs \in Names \cup {Mixed}
    /\ dns \subseteq Records
    /\ lock \in Rotations \cup {None}
    /\ pc \in [Rotations -> Steps]
    /\ req \in [Rotations -> Request \cup {None}]
    /\ local \in [Rotations -> Locals \cup {None}]
    /\ answer \in [Rotations -> Answers]
    /\ gone \subseteq Rotations
    /\ faults \in 0..MaxFaults

\* No rotation asked for the host the node had.
Renaming == \A p \in Rotations : req[p] # None => req[p].new # req[p].old.host

\* Whatever fails, hangs up, crashes or overlaps, the two names the node goes by
\* always resolve: the new records are there before cfvpn.env names them, a
\* rollback deletes no others, and the old ones go last.
ServedNamesResolve == Renaming => {Vpn(env.host), Hy2(env.hy2)} \subseteq dns

\* The agent's 200 means all of it: every file and every running service is on the
\* new names, and the records of these names are there, whatever else went wrong
\* before.  An override that named the host the node had is the exception: its
\* record is the "old" one that goes last.
OkMeansMoved ==
    [][\A p \in Rotations : ~At(p, "ok") /\ pc'[p] = "ok" =>
         /\ Named' = [host |-> req[p].new, hy2 |-> req[p].hy2]
         /\ subs' = Named' /\ cert' = req[p].hy2 /\ hyRun' = req[p].hy2
         /\ xrayRun' = xray'
         /\ Cloudflare => {xray', cfd', cfdRun'} = {req[p].new}
         /\ Hy2(req[p].hy2) \in dns'
         /\ req[p].new # req[p].old.host => Vpn(req[p].new) \in dns']_vars

\* A rotation that failed before the node moved leaves the node as it was, if
\* nothing fails but the step that made it fail, the client stays and HY2 is on
\* (on a node with it off every rotation fails: ReloadHy2): the files, the running
\* services, the certificate and the subscriptions are those of cfvpn.env's names.
\* cloudflared's file is the exception, when the one failure is its own write, past
\* the rename: it has the new host then, which the running cloudflared never reads.
RollbackLeavesNoTrace ==
    [][\A p \in Rotations : (pc[p] \in Undo \cup {"issue"} /\ pc'[p] = "error"
                             /\ faults' <= 1 /\ gone' = {} /\ Hy2On) =>
         /\ xrayRun' = xray' /\ subs' = Named'
         /\ cert' = env'.hy2 /\ hyRun' = env'.hy2
         /\ Cloudflare =>
             /\ {xray', cfdRun'} = {env'.host}
             /\ cfd' = env'.host \/ (~local[p].cfdTouched /\ cfd' = req[p].new)]_vars

\* Rotations that do not overlap: none was asked for on the row another one was
\* asked for on.
Sequential ==
    \A p, q \in Rotations :
        p # q /\ req[p] # None /\ req[q] # None => req[p].old # req[q].old

\* The row in D1, unless it is disabled, follows the node through any number of
\* rotations, as long as they do not overlap and each is told "ok"; and if nothing
\* failed on the way, the node has the records of its two names and no others.
RowFollowsNode ==
    Sequential /\ ~row.disabled
        /\ (\A p \in Rotations : req[p] # None => answer[p] = "ok") =>
        /\ RowNames = Named
        /\ faults = 0 /\ Renaming => dns = {Vpn(env.host), Hy2(env.hy2)}
=============================================================================
