---------------------------- MODULE NodeUpgrade ----------------------------
(***************************************************************************)
(* `cfvpnctl install --upgrade` beside the agent: RunUpgrade, its backup   *)
(* and its rollback (internal/commands/install.go), the config lock        *)
(* (internal/commands/lock.go) and the requests of the agent that add a    *)
(* user (cmd/cfvpn-agent/main.go).                                         *)
(*                                                                         *)
(* Everything an upgrade backs up lies under /etc/cfvpn; so does the lock  *)
(* file.  Every upgrade u of Upgrades is one run of the command, with the  *)
(* names it generates being u; every writer w of Writers adds the user w.  *)
(*                                                                         *)
(* An operator whose name ends in _<slip> is the definition after it with  *)
(* a plausible slip.                                                       *)
(***************************************************************************)
EXTENDS Naturals, Sequences, FiniteSets

CONSTANTS
    Upgrades,           \* runs of the command; also the names each generates
    Writers,            \* requests of the agent; also the user each adds
    Old,                \* the names, and the lock file, before
    Missing,            \* a file that is not there, or is cut short
    Down,               \* what an xray that is not running serves
    None,               \* no name, no holder, nothing kept
    KeepConfigBackups,  \* keepConfigBackups
    MaxFaults           \* bound on the failures of the environment

Procs == Upgrades \cup Writers
Hosts == Upgrades \cup {Old}
Inodes == Procs \cup {Old}
Modes == {"direct", "cloudflare"}

ASSUME ProcsAssumption  == Upgrades \cap Writers = {} /\ Old \notin Procs
ASSUME KeepAssumption   == KeepConfigBackups \in Nat \ {0, 1}
ASSUME FaultsAssumption == MaxFaults \in Nat

VARIABLES
    dir,        \* /etc/cfvpn: the content of each of its files
    backups,    \* the backups beside it, oldest first
    subs,       \* what the subscription files advertise
    xrayRun,    \* the config the running xray was started with
    dns,        \* records of the node in Cloudflare
    lockFile,   \* the inode xray/.config.lock names
    holder,     \* per inode: who has the flock
    fd,         \* per process: the lock file it has open
    pc,         \* per process: its next step, or how it ended
    local,      \* per process: what it keeps
    faults      \* failures of the environment so far

vars == <<dir, backups, subs, xrayRun, dns, lockFile, holder, fd, pc, local, faults>>
outside == <<subs, xrayRun, dns>>
locks == <<lockFile, holder, fd>>

Env == [host : Hosts, hy2 : Hosts \cup {None}, mode : Modes]
Xray == [mode : Modes, users : SUBSET Writers]
Files == {"env", "cloudflared", "hysteria", "xray"}

ASSUME MarksAssumption ==
    None \notin Inodes /\ Missing \notin Env \cup Modes \cup Hosts \cup {None} \cup Xray

\* The order in which filepath.WalkDir meets them.
Before(f) ==
    CASE f = "env" -> {}
      [] f = "cloudflared" -> {"env"}
      [] f = "hysteria" -> {"env", "cloudflared"}
      [] f = "xray" -> {"env", "cloudflared", "hysteria"}

Whole(d) == \A f \in Files : d[f] # Missing
Prefix(d, fs) == [f \in Files |-> IF f \in fs THEN d[f] ELSE Missing]

A(h) == <<"A", h>>
Cname(h) == <<"CNAME", h>>
Hy2(h) == <<"hy2", h>>

InCore == {"prepare", "write_xray", "write_cloudflared", "upsert_vpn", "upsert_hy2",
           "restart_xray", "save_env", "subscriptions", "finish"}
InRollback == {"delete_created", "remove", "restore", "restart_mutated"}
UpgradeSteps == {"binaries", "load", "backfill", "backup", "in_place"} \cup InCore \cup InRollback
WriterSteps == {"read", "write"}
Holding == UpgradeSteps \cup WriterSteps
Steps == {"open", "wait", "ok", "same", "error"} \cup Holding

\* A direct node may have no record of its host left, and an old one no HY2 yet.
Init ==
    /\ \E env \in [host : {Old}, hy2 : {Old, None}, mode : Modes] :
        /\ dir = [f \in Files |->
                    CASE f = "env" -> env
                      [] f = "cloudflared" -> env.mode
                      [] f = "hysteria" -> env.hy2
                      [] f = "xray" -> [mode |-> env.mode, users |-> {}]]
        /\ subs = [host |-> Old, mode |-> env.mode]
        /\ dns \in IF env.mode = "direct" THEN {{A(Old), Hy2(Old)}, {Hy2(Old)}}
                                          ELSE {{Cname(Old), Hy2(Old)}}
    /\ xrayRun = dir["xray"]
    /\ backups = <<>>
    /\ lockFile = Old
    /\ holder = [i \in Inodes |-> None]
    /\ fd = [p \in Procs |-> None]
    /\ pc = [p \in Procs |-> "open"]
    /\ local = [p \in Procs |-> None]
    /\ faults = 0

NoFault == faults' = faults
Fault == faults < MaxFaults /\ faults' = faults + 1

At(p, step) == pc[p] = step
Become(p, step) == pc' = [pc EXCEPT ![p] = step]
GoTo(p, step) == Become(p, step) /\ UNCHANGED <<locks, local>>
Unlock(p) == holder' = [holder EXCEPT ![fd[p]] = None] /\ fd' = [fd EXCEPT ![p] = None]
End(p, result) ==
    /\ Become(p, result)
    /\ local' = [local EXCEPT ![p] = None]
    /\ Unlock(p)
    /\ UNCHANGED lockFile

-----------------------------------------------------------------------------
(* The config lock.                                                        *)

\* The file is created if its name is not there, its directory included.  An
\* upgrade validates the identity in cfvpn.env first.
OpenLock(p) ==
    /\ At(p, "open")
    /\ p \in Upgrades => dir["env"] # Missing
    /\ lockFile' = IF lockFile = None THEN p ELSE lockFile
    /\ fd' = [fd EXCEPT ![p] = lockFile']
    /\ Become(p, "wait")
    /\ UNCHANGED <<dir, backups, outside, holder, local, faults>>

\* flock is taken without asking whether it was.
AcquireConfigLock_unchecked(p) ==
    /\ At(p, "wait")
    /\ holder' = [holder EXCEPT ![fd[p]] = p]
    /\ Become(p, IF p \in Upgrades THEN "binaries" ELSE "read")
    /\ UNCHANGED <<dir, backups, outside, lockFile, fd, local, faults>>

\* flock is on the file that was opened, whatever its name leads to by now.
AcquireConfigLock(p) ==
    /\ At(p, "wait")
    /\ holder[fd[p]] = None
    /\ holder' = [holder EXCEPT ![fd[p]] = p]
    /\ Become(p, IF p \in Upgrades THEN "binaries" ELSE "read")
    /\ UNCHANGED <<dir, backups, outside, lockFile, fd, local, faults>>

ErrLockBusy(p) ==
    /\ At(p, "wait")
    /\ holder[fd[p]] # None
    /\ Become(p, "error")
    /\ local' = [local EXCEPT ![p] = None]
    /\ fd' = [fd EXCEPT ![p] = None]
    /\ UNCHANGED <<dir, backups, outside, lockFile, holder, faults>>

-----------------------------------------------------------------------------
(* A request that adds a user.                                             *)

Read(w) ==
    /\ At(w, "read")
    /\ IF dir["xray"] = Missing
       THEN End(w, "error")
       ELSE /\ local' = [local EXCEPT ![w] = [dir["xray"] EXCEPT !.users = @ \cup {w}]]
            /\ Become(w, "write")
            /\ UNCHANGED locks
    /\ UNCHANGED <<dir, backups, outside, faults>>

\* applyUsers: the new list is written and served, or the old one put back.
Write(w) ==
    /\ At(w, "write")
    /\ \/ /\ NoFault
          /\ dir' = [dir EXCEPT !["xray"] = local[w]]
          /\ xrayRun' = local[w]
          /\ End(w, "ok")
       \/ Fault /\ UNCHANGED <<dir, xrayRun>> /\ End(w, "error")
    /\ UNCHANGED <<backups, subs, dns>>

-----------------------------------------------------------------------------
(* An upgrade, up to the backup.                                           *)

\* The restart is taken to have worked.
EnsureRuntimeBinaries_missing(u) ==
    /\ At(u, "binaries")
    /\ NoFault /\ xrayRun' \in {xrayRun, dir["xray"]} /\ GoTo(u, "load")
    /\ UNCHANGED <<dir, backups, subs, dns>>

\* With --binaries xray is restarted on the config there is, which need not start.
EnsureRuntimeBinaries(u) ==
    /\ At(u, "binaries")
    /\ \/ NoFault /\ xrayRun' \in {xrayRun, dir["xray"]} \ {Missing} /\ GoTo(u, "load")
       \/ Fault /\ xrayRun' \in {xrayRun, Down} /\ End(u, "error")
       \/ dir["xray"] = Missing /\ NoFault /\ xrayRun' = Down /\ End(u, "error")
    /\ UNCHANGED <<dir, backups, subs, dns>>

\* cfvpn.env is read again under the lock, and the mode asked for decides.  The
\* host is new in direct mode only.
LoadUpgradeEnv(u) ==
    LET env == dir["env"] IN
        /\ At(u, "load")
        /\ IF env = Missing
           THEN End(u, "error")
           ELSE \E mode \in Modes :
                /\ local' = [local EXCEPT ![u] =
                     [env |-> [host |-> IF mode = "direct" THEN u ELSE env.host,
                               hy2 |-> IF env.hy2 = None THEN u ELSE env.hy2, mode |-> mode],
                      users |-> {}, created |-> {}, mutated |-> FALSE,
                      todo |-> Files]]
                /\ Become(u, IF env.hy2 = None THEN "backfill"
                             ELSE IF env.mode = mode THEN "in_place" ELSE "backup")
                /\ UNCHANGED locks
        /\ UNCHANGED <<dir, backups, outside, faults>>

\* The HY2 backfill writes certificate and hysteria config before the backup.
BackfillHy2(u) ==
    LET filled == [dir EXCEPT !["hysteria"] = u] IN
    /\ At(u, "backfill")
    /\ \/ NoFault /\ dir' = filled /\ GoTo(u, "backup")
       \/ Fault /\ dir' \in {dir, filled} /\ End(u, "error")
    /\ UNCHANGED <<backups, outside>>

\* Same mode: xray and cloudflared are rendered from cfvpn.env and restarted if
\* that changed them.
ReRenderInPlace(u) ==
    LET xray == [mode |-> dir["env"].mode, users |-> dir["xray"].users]
        rendered == [dir EXCEPT !["xray"] = xray, !["cloudflared"] = dir["env"].mode]
    IN  /\ At(u, "in_place")
        /\ \/ /\ dir["xray"] # Missing /\ dir["env"] # Missing
              /\ \/ NoFault /\ dir' = rendered /\ End(u, "same")
                    /\ xrayRun' = IF dir["xray"] = xray THEN xrayRun ELSE xray
                 \/ Fault /\ End(u, "error")
                    /\ \/ dir' \in {dir, [dir EXCEPT !["xray"] = xray]} /\ UNCHANGED xrayRun
                       \/ dir["xray"] # xray /\ dir' = rendered /\ xrayRun' = Down
           \/ /\ dir["xray"] = Missing \/ dir["env"] = Missing
              /\ NoFault /\ UNCHANGED <<dir, xrayRun>> /\ End(u, "error")
        /\ UNCHANGED <<backups, subs, dns>>

Backup(u, d) == [by |-> u, files |-> d]

\* One too few are kept.
Pruned_short(bs) ==
    IF Len(bs) < KeepConfigBackups THEN bs
    ELSE SubSeq(bs, Len(bs) - KeepConfigBackups + 2, Len(bs))

\* pruneConfigBackups: the newest KeepConfigBackups stay, whole or not.
Pruned(bs) ==
    IF Len(bs) <= KeepConfigBackups THEN bs
    ELSE SubSeq(bs, Len(bs) - KeepConfigBackups + 1, Len(bs))

\* What copyTree has copied when it is cut short.
CutShort(u) == {Append(backups, Backup(u, Prefix(dir, Before(f)))) : f \in Files}

\* copyTree, then the prune, which can only warn.
BackupConfig(u) ==
    LET grown == Append(backups, Backup(u, dir)) IN
    /\ At(u, "backup")
    /\ \/ NoFault /\ backups' = Pruned(grown) /\ GoTo(u, "prepare")
       \/ Fault /\ backups' = grown /\ GoTo(u, "prepare")
       \/ Fault /\ backups' \in {backups} \cup CutShort(u) /\ End(u, "error")
    /\ UNCHANGED <<dir, outside>>

-----------------------------------------------------------------------------
(* runUpgradeCore after the backup: from here an error rolls back.         *)

Prepare(u) ==
    /\ At(u, "prepare")
    /\ \/ /\ dir["xray"] # Missing /\ NoFault
          /\ local' = [local EXCEPT ![u].users = dir["xray"].users]
          /\ Become(u, "write_xray") /\ UNCHANGED locks
       \/ dir["xray"] = Missing /\ NoFault /\ GoTo(u, "delete_created")
       \/ Fault /\ GoTo(u, "delete_created")
    /\ UNCHANGED <<dir, backups, outside>>

WriteXrayConfig(u) ==
    LET xray == [mode |-> local[u].env.mode, users |-> local[u].users] IN
    /\ At(u, "write_xray")
    /\ \/ NoFault /\ dir' = [dir EXCEPT !["xray"] = xray] /\ GoTo(u, "write_cloudflared")
       \/ Fault /\ UNCHANGED dir /\ GoTo(u, "delete_created")
    /\ UNCHANGED <<backups, outside>>

\* The write may fail after the rename.
WriteCloudflaredConfig(u) ==
    LET written == [dir EXCEPT !["cloudflared"] = local[u].env.mode] IN
    /\ At(u, "write_cloudflared")
    /\ \/ NoFault /\ dir' = written /\ GoTo(u, "upsert_vpn")
       \/ Fault /\ dir' \in {dir, written} /\ GoTo(u, "delete_created")
    /\ UNCHANGED <<backups, outside>>

\* A record whose upsert failed may be there, and is not the rollback's.
UpsertA(u, rec, next) ==
    \/ /\ NoFault
       /\ dns' = dns \cup {rec}
       /\ local' = [local EXCEPT ![u].created = @ \cup {rec}]
       /\ Become(u, next) /\ UNCHANGED locks
    \/ Fault /\ dns' \in {dns, dns \cup {rec}} /\ GoTo(u, "delete_created")

\* The upsert only warns.
UpsertVpnRecord_warns(u) ==
    LET host == local[u].env.host IN
    /\ At(u, "upsert_vpn")
    /\ NoFault
    /\ dns' \in {dns, dns \cup {IF local[u].env.mode = "direct" THEN A(host) ELSE Cname(host)}}
    /\ GoTo(u, "upsert_hy2")
    /\ UNCHANGED <<dir, backups, subs, xrayRun>>

\* Direct: an A record of the new host.  Cloudflare: a CNAME of the host there is,
\* which Cloudflare refuses as long as that host has an A record.
UpsertVpnRecord(u) ==
    LET host == local[u].env.host IN
    /\ At(u, "upsert_vpn")
    /\ IF local[u].env.mode = "direct"
       THEN UpsertA(u, A(host), "upsert_hy2")
       ELSE \/ A(host) \notin dns /\ NoFault /\ dns' = dns \cup {Cname(host)} /\ GoTo(u, "upsert_hy2")
            \/ A(host) \in dns /\ NoFault /\ UNCHANGED dns /\ GoTo(u, "delete_created")
            \/ Fault /\ UNCHANGED dns /\ GoTo(u, "delete_created")
    /\ UNCHANGED <<dir, backups, subs, xrayRun>>

\* The upsert of the HY2 host only warns.
UpsertHy2Record_warns(u) ==
    /\ At(u, "upsert_hy2")
    /\ NoFault /\ dns' \in {dns, dns \cup {Hy2(local[u].env.hy2)}} /\ GoTo(u, "restart_xray")
    /\ UNCHANGED <<dir, backups, subs, xrayRun>>

\* Registered for the rollback whether or not it was there before.
UpsertHy2Record(u) ==
    /\ At(u, "upsert_hy2")
    /\ UpsertA(u, Hy2(local[u].env.hy2), "restart_xray")
    /\ UNCHANGED <<dir, backups, subs, xrayRun>>

\* Only a restart that worked is repeated by the rollback.  Those of cloudflared
\* and hysteria can only warn.
RestartXray(u) ==
    /\ At(u, "restart_xray")
    /\ \/ /\ NoFault /\ dir["xray"] # Missing /\ xrayRun' = dir["xray"]
          /\ local' = [local EXCEPT ![u].mutated = TRUE]
          /\ Become(u, "save_env") /\ UNCHANGED locks
       \/ /\ IF dir["xray"] = Missing THEN NoFault ELSE Fault
          /\ xrayRun' = Down /\ GoTo(u, "delete_created")
    /\ UNCHANGED <<dir, backups, subs, dns>>

SaveEnv(u) ==
    LET saved == [dir EXCEPT !["env"] = local[u].env] IN
    /\ At(u, "save_env")
    /\ \/ NoFault /\ dir' = saved /\ GoTo(u, "subscriptions")
       \/ Fault /\ dir' \in {dir, saved} /\ GoTo(u, "delete_created")
    /\ UNCHANGED <<backups, outside>>

RegenerateSubscriptions(u) ==
    LET names == [host |-> local[u].env.host, mode |-> local[u].env.mode] IN
    /\ At(u, "subscriptions")
    /\ \/ NoFault /\ subs' = names /\ GoTo(u, "finish")
       \/ Fault /\ subs' \in {subs, names} /\ GoTo(u, "delete_created")
    /\ UNCHANGED <<dir, backups, xrayRun, dns>>

\* The admin CNAME, three units, daemon-reload and two `systemctl enable --now`.
Finish(u) ==
    /\ At(u, "finish")
    /\ \/ NoFault /\ End(u, "ok")
       \/ Fault /\ GoTo(u, "delete_created")
    /\ UNCHANGED <<dir, backups, outside>>

-----------------------------------------------------------------------------
(* rollbacker.run: what fails here can only warn.                          *)

DeleteCreated(u) ==
    /\ At(u, "delete_created")
    /\ \/ NoFault /\ dns' = dns \ local[u].created
       \/ Fault /\ \E kept \in SUBSET local[u].created : dns' = dns \ (local[u].created \ kept)
    /\ GoTo(u, "remove")
    /\ UNCHANGED <<dir, backups, subs, xrayRun>>

\* What RemoveAll leaves when it is cut short.
CutOff(gone) ==
    /\ dir' = [f \in Files |-> IF f \in gone THEN Missing ELSE dir[f]]
    /\ lockFile' \in {lockFile} \cup (IF "xray" \in gone THEN {None} ELSE {})

\* The lock file goes with the rest.
RemoveConfigDir(u) ==
    /\ At(u, "remove")
    /\ \/ NoFault /\ CutOff(Files) /\ lockFile' = None
          /\ Become(u, "restore") /\ UNCHANGED <<holder, fd, local>>
       \/ Fault /\ (\E gone \in SUBSET Files : CutOff(gone))
          /\ Become(u, "error") /\ local' = [local EXCEPT ![u] = None] /\ Unlock(u)
    /\ UNCHANGED <<backups, outside>>

BackupsOf(u) == {backups[i].files : i \in {j \in 1..Len(backups) : backups[j].by = u}}

\* The cloudflared directory is forgotten.
RestoreFile_forgetful(u, f) ==
    /\ At(u, "restore")
    /\ f \in local[u].todo /\ Before(f) \cap local[u].todo = {}
    /\ \E d \in BackupsOf(u) :
        /\ dir' = IF d[f] = Missing \/ f = "cloudflared" THEN dir ELSE [dir EXCEPT ![f] = d[f]]
        /\ lockFile' = IF f = "xray" /\ lockFile = None THEN u ELSE lockFile
    /\ NoFault
    /\ local' = [local EXCEPT ![u].todo = @ \ {f}]
    /\ UNCHANGED <<holder, fd, pc, backups, outside>>

\* copyTree the other way, one file after the other; the backup has the lock file
\* too, and a copy of it is another file.
RestoreFile(u, f) ==
    /\ At(u, "restore")
    /\ f \in local[u].todo /\ Before(f) \cap local[u].todo = {}
    /\ \/ /\ NoFault
          /\ \E d \in BackupsOf(u) :
                dir' = IF d[f] = Missing THEN dir ELSE [dir EXCEPT ![f] = d[f]]
          /\ lockFile' = IF f = "xray" /\ lockFile = None THEN u ELSE lockFile
          /\ local' = [local EXCEPT ![u].todo = @ \ {f}]
          /\ UNCHANGED <<holder, fd, pc>>
       \/ /\ IF BackupsOf(u) = {} THEN NoFault ELSE Fault
          /\ dir' = [dir EXCEPT ![f] = Missing] /\ End(u, "error")
    /\ UNCHANGED <<backups, outside>>

\* Everything is back: what was restarted is restarted again.
RestartMutated(u) ==
    /\ At(u, "restore")
    /\ local[u].todo = {}
    /\ IF local[u].mutated
       THEN \/ dir["xray"] # Missing /\ NoFault /\ xrayRun' = dir["xray"]
            \/ dir["xray"] = Missing /\ NoFault /\ xrayRun' = Down
            \/ dir["xray"] # Missing /\ Fault /\ xrayRun' = Down
       ELSE NoFault /\ UNCHANGED xrayRun
    /\ End(u, "error")
    /\ UNCHANGED <<dir, backups, subs, dns>>

\* The process is killed; the kernel drops its flock.
Kill(p) ==
    /\ pc[p] \in Holding
    /\ Fault
    /\ backups' \in {backups} \cup (IF At(p, "backup") THEN CutShort(p) ELSE {})
    /\ IF At(p, "remove") THEN \E gone \in SUBSET Files : CutOff(gone)
                          ELSE UNCHANGED <<dir, lockFile>>
    /\ Become(p, "error")
    /\ local' = [local EXCEPT ![p] = None]
    /\ Unlock(p)
    /\ UNCHANGED outside

-----------------------------------------------------------------------------
Upgrade(u) ==
    \/ EnsureRuntimeBinaries(u) \/ LoadUpgradeEnv(u) \/ BackfillHy2(u)
    \/ ReRenderInPlace(u) \/ BackupConfig(u) \/ Prepare(u)
    \/ WriteXrayConfig(u) \/ WriteCloudflaredConfig(u) \/ UpsertVpnRecord(u)
    \/ UpsertHy2Record(u) \/ RestartXray(u) \/ SaveEnv(u) \/ RegenerateSubscriptions(u)
    \/ Finish(u) \/ DeleteCreated(u) \/ RemoveConfigDir(u)
    \/ (\E f \in Files : RestoreFile(u, f)) \/ RestartMutated(u)

Next ==
    \/ \E p \in Procs : OpenLock(p) \/ AcquireConfigLock(p) \/ ErrLockBusy(p) \/ Kill(p)
    \/ \E u \in Upgrades : Upgrade(u)
    \/ \E w \in Writers : Read(w) \/ Write(w)

Spec == Init /\ [][Next]_vars

-----------------------------------------------------------------------------
(* Properties.                                                             *)

Contents == [env : Env \cup {Missing}, cloudflared : Modes \cup {Missing},
             hysteria : Hosts \cup {None, Missing}, xray : Xray \cup {Missing}]
Records == {"A", "CNAME", "hy2"} \X Hosts

\* The variables hold values of their types.
TypeOK ==
    /\ dir \in Contents
    /\ backups \in Seq([by : Upgrades, files : Contents])
    /\ subs \in [host : Hosts, mode : Modes]
    /\ xrayRun \in Xray \cup {Down}
    /\ dns \subseteq Records
    /\ lockFile \in Inodes \cup {None}
    /\ holder \in [Inodes -> Procs \cup {None}]
    /\ fd \in [Procs -> Inodes \cup {None}]
    /\ pc \in [Procs -> Steps]
    /\ faults \in 0..MaxFaults

\* H11: an upgrade and the agent's requests do not lose each other's users.  The run
\* shows a rollback that lets two requests work at once: one that waited on the lock
\* file it has removed and one that locks the new file.  The later write of the two
\* is of a list read before the other's.
UsersKept == \A w \in Writers : pc[w] = "ok" => dir["xray"] = Missing \/ w \in dir["xray"].users

\* UsersKept, for as long as no rollback has replaced the lock file: whatever
\* fails and is killed, a user the agent has confirmed survives every upgrade.
NoUserLost == lockFile = Old => UsersKept

\* A whole configuration exists at any moment, /etc/cfvpn or a backup of it, also
\* between the steps of a rollback that is cut short; nothing is claimed any more
\* once there are as many backups as are kept, when the next upgrade of a broken
\* directory may push the last good one out.
Recoverable ==
    \/ Whole(dir)
    \/ \E i \in 1..Len(backups) : Whole(backups[i].files)
    \/ Len(backups) >= KeepConfigBackups

\* An upgrade that ends well has replaced everything that names the host and the
\* mode, xray runs the config on disk, and the records of both hosts are there, as
\* long as the lock is one lock.
VpnRecord(env) == IF env.mode = "direct" THEN A(env.host) ELSE Cname(env.host)
OkMeansUpgraded ==
    [][\A u \in Upgrades : lockFile = Old /\ ~At(u, "ok") /\ pc'[u] = "ok" =>
         /\ dir'["env"] = local[u].env
         /\ {dir'["cloudflared"], dir'["xray"].mode} = {local[u].env.mode}
         /\ xrayRun' = dir'["xray"]
         /\ subs' = [host |-> local[u].env.host, mode |-> local[u].env.mode]
         /\ {VpnRecord(local[u].env), Hy2(local[u].env.hy2)} \subseteq dns']_vars

\* One, if Cloudflare refuses u's CNAME.
Refusals(u) ==
    IF local[u].env.mode = "cloudflare" /\ A(local[u].env.host) \in dns THEN 1 ELSE 0

Alone(u) ==
    /\ Len(backups) = 1 /\ backups[1].by = u
    /\ \A p \in Upgrades : fd[p] \in {None, fd[u]}

\* An upgrade that rolls back after the one thing that went wrong leaves the files
\* as it had backed them up, up to users added once the lock file was replaced.
\* xray runs the config it had, or is down if its restart was the thing that went
\* wrong: that restart is not repeated.  This takes a whole directory to start
\* from, and no other upgrade at work beside this one: the lock file that the
\* rollback puts back lets one in.
FailedUpgradeKeepsConfig ==
    [][\A u \in Upgrades :
         pc[u] \in InRollback /\ pc'[u] = "error" /\ faults' + Refusals(u) <= 1 /\ Alone(u) =>
         LET was == backups[1].files IN Whole(was) =>
            /\ \A f \in Files \ {"xray"} : dir'[f] = was[f]
            /\ dir'["xray"].mode = was["xray"].mode
            /\ was["xray"].users \subseteq dir'["xray"].users
            /\ xrayRun' \in {dir'["xray"], Down}]_vars

\* The lock is one lock, or one upgrade alone has got as far as its backup.
OneAtWork == lockFile = Old \/ Len(backups) = 1

\* The VPN host cfvpn.env names has the record its mode needs, whatever single thing
\* goes wrong, except while a rollback is at work.  (Of the HY2 host nothing is said:
\* a rollback deletes the record it was given, also when it was there before.)  Once a rollback has replaced
\* the lock file, two upgrades may be at work: what one of them restores may name
\* the host of the other, whose record that one has deleted.
ServedHostResolves ==
    LET env == dir["env"] IN
    /\ OneAtWork /\ faults <= 1 /\ env # Missing
    /\ \A u \in Upgrades : pc[u] \notin InRollback
    =>  /\ env.mode = "cloudflare" => Cname(env.host) \in dns
        /\ env.mode = "direct" /\ env.host # Old => A(env.host) \in dns
=============================================================================
