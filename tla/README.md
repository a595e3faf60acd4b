# Formal model of cf-vpn

cf-vpn runs a fleet of VPN nodes. Each node (a VPS) serves VLESS with xray and
Hysteria2 with hysteria, and is managed by `cfvpnctl` (commands run by root) and
`cfvpn-agent` (an HTTP server behind a cloudflared tunnel), both in Go. A
Cloudflare Worker (TypeScript, database D1) is the panel: it keeps users, nodes
and zones, calls the agents, serves subscriptions and answers a Telegram bot.

This directory holds TLA+ specifications of the parts of it that are hard to
test, configurations that model-check them with TLC, and proofs checked by
TLAPS. Every definition is a translation of source code; `PROJECT.json` ("map")
names the lines. Run, for example,

    tlc -workers 2 -config NodeUsers.cfg MCNodeUsers
    tlapm NodeUsersProofs.tla

## 1. The system

| component | state it keeps | operations | with whom | modelled |
|---|---|---|---|---|
| atomic file replacement (`internal/fsutil`) | one file | `WriteFile`, `SyncDir` | every writer of the node | `AtomicFile`, `FileRegister` |
| config lock (`internal/commands/lock.go`) | flock on `xray/.config.lock` | `AcquireConfigLock`, unlock | every config writer | `NodeUsers`, `NodeRotate`, `NodeUpgrade`, `NodeFeatures` |
| user lists of a node (agent handlers, `cfvpnctl add-user/remove-user`) | `xray/config.json`, `hysteria/config.yaml`, subscription files, the two running services | add, delete, sync, add-user, remove-user | panel (HTTP), operator (shell), systemd | `NodeUsers` |
| host rotation (agent `rotate.go`, panel `nodeRotateCore`) | configs of xray, cloudflared, hysteria, certificate pair, `cfvpn.env`, DNS records, row in D1 | rotate | panel, agent, Cloudflare, systemd | `NodeRotate` |
| install (`scripts/install-node.sh`, `RunInstall`, `rotate-cleanup`) | `cfvpn.env`, configs, certificate, tunnel and its credentials, records, the marker | bootstrap, install, clean up a tunnel | operator, Cloudflare | `NodeInstall` |
| upgrade (`RunUpgrade`) | the whole config directory, its backups, the lock file in it | upgrade, rollback | operator, Cloudflare, the agent | `NodeUpgrade` |
| units and toggles (`reconcile`, `hy2`, `xhttp*`, `reality_rotate`) | unit files, flags in `cfvpn.env`, xray's and cloudflared's config, subscriptions | enable, disable, reconcile, rotate the key | operator, systemd | `NodeFeatures` |
| certificates (`internal/cert`, `cert_renew.go`) | lego's directory, hysteria's pair | issue, renew, copy, restore | timer, rotation, install | `NodeFeatures`, outcomes in `NodeRotate`, `NodeInstall` |
| panel users (`routes/users.ts`) | `users`, `user_nodes` | create, delete, upgrade-nodes; node sync | all agents in parallel | `PanelUsers` |
| panel nodes (`routes/nodes.ts`) | `nodes` | patch, status, sync, healthcheck, rotate, health sweep | agents, Cloudflare, cron | `PanelNodes`; create, delete: no |
| zones (`routes/zones.ts`) | `zones` | create, delete | node routes | `PanelNodes`; patch: no |
| authentication (`lib/auth.ts`) | rate buckets, key cache | per request | every route | no |
| subscriptions, Telegram, events, UI | none of their own | reads, formatting | the routes above | the bot's `/sync` |
| probe (`scripts/fleet-probe.py`) | alert state file, delete queue | one pass per run | panel, Telegram | no |
| Tailscale/DERP policy, binary download, templates, netinfo, CLI parsing | external or none | I/O and formatting | - | no |

### What is hard, and what makes it correct

- **Writers of one node.** The agent serves requests concurrently, an operator
  runs commands next to it, and all of them read files, plan and write whole
  files, then restart services. The config lock is what makes that safe.
  Correct means: no update is lost; the user limit holds; xray is not left down
  by a failed restart; an ok is true; adding one user does not change what
  another one's client holds; and a command cut short never leaves a user in
  xray alone.
- **The client's context.** The agent hands the HTTP request's context to
  `systemctl`, to the validation and to Cloudflare. A client that hangs up makes
  all of them fail from then on, the compensations included.
- **Files and power.** Every file is replaced by temp file, fsync, rename,
  fsync of the directory. A caller must be able to tell "nothing changed" from
  "changed, but a power cut may undo it".
- **Rotation.** One call changes the certificate, DNS, three services, the
  environment and the subscriptions in turn, with a rollback for the first half,
  while the panel may time out, lose the connection (cloudflared, which carries
  it, is restarted) or ask twice. Correct means: the names the node goes by always resolve,
  a rotation undone after one failure leaves the node serving as it did, an ok
  means all of it and the panel's row follows.
- **Upgrade and rollback.** The rollback removes the whole directory, with the
  lock file in it, and copies a backup back. Correct means: a whole
  configuration exists at any moment; a user the agent has confirmed survives;
  a failed upgrade leaves the files there were, and the VPN host they name still
  resolves (its HY2 host may not: section 3).
- **Install, again and again.** A bootstrap may stop anywhere and is rerun, with
  or without `--force`, and the operator follows a hint to delete a tunnel,
  perhaps late. Correct means: the tunnel in use is never deleted, names and
  credentials of several runs do not mix, and the node gets installed.
- **Features.** Commands restart what they have changed; a run that was killed
  has changed something and restarted nothing. The renewal of certificates runs
  beside all of them, without the lock for most of the way.
- **Panel and fleet.** Calls to every agent in parallel, two-step database
  writes, rows read before a slow call and written after it. Nothing is a
  transaction. Correct means: whatever the panel and a node disagree on was
  reported to somebody and is healed by a sync; a row names the node it is
  about; a status has a reason.

`PROJECT.json` lists the hazards, each at its line, with the properties that
watch it.

## 2. The modules

| module | models | proofs |
|---|---|---|
| `FileRegister` | what `WriteFile` promises: an atomic register that a power cut may set back until a call is acknowledged | |
| `AtomicFile` | `WriteFile`, one system call per action, any number of calls for one path | `AtomicFileProofs` |
| `NodeUsers` | the five writers of a node's users, the lock, services, hang-ups, crashes | `NodeUsersProofs` |
| `NodeRotate` | a rotation from the panel's first read to the panel's answer, in both modes | `NodeRotateProofs` |
| `NodeUpgrade` | upgrades, backups, pruning and rollback beside the agent's requests | `NodeUpgradeProofs` |
| `NodeInstall` | bootstrap, install and tunnel cleanup of one node, repeated | `NodeInstallProofs` |
| `NodeFeatures` | the feature commands, the certificate renewal and a rotation's Hysteria2 half | `NodeFeaturesProofs` |
| `PanelUsers` | user routes, syncs, D1 and the agents' user lists | `PanelUsersProofs` |
| `PanelNodes` | the writers of a node's row and of the zones, the health sweep | `PanelNodesProofs` |
| `MC*` | constants and symmetry for TLC | |

`PanelUsers` takes an agent's handler as one step under the node's lock, which
is what `NodeUsers` shows it to be (`NoLostUpdate`, `SuccessIsApplied`, proved), with
what a failed one leaves behind (`Leaves`); `PanelNodes` takes a rotation as one
step of the node, whose inside, and whose row when nobody interferes, are
`NodeRotate`. `NodeRotate`, `NodeUpgrade` and `NodeFeatures` write files as
`FileRegister` says.

An operator whose name ends in `_<slip>` is the definition after it with a
plausible mistake. Nothing uses it; `PROJECT.json` ("mutants") names the
property that fails when it takes the definition's place, so that every property
is known to depend on the code it is about.

### AtomicFile

State: the file the path names (`entry`), files a power cut may bring back
(`lost`), the temporary names in the directory, and per call what its file holds, whether
it is flushed and chmodded, the next system call and the result. A call's file
and its content are named by the call. `PowerCut` loses what was not fsynced:
unflushed data becomes anything, and the directory entry may fall back to any
earlier one since the last directory fsync, whoever asked for that.
`FileRegister` is the abstract specification, `ImplementsRegister` the
refinement: the rename is the linearisation point (`Publish`), and the
directory's fsync decides between `Acknowledge` and `Undurable`.

### NodeUsers

A request `p` is an agent's handler or a command. `Arrive` chooses what it asks;
`AcquireConfigLock` / `ErrLockBusy` are the flock and its deadline; `Load` reads
the files and plans (`PlanAgentAdd` ... `PlanCliRemove`, one per operation); then
one action per effect: validate and write xray's config, restart xray, restore,
restart again, write hysteria's users, reload hysteria, remove or write
subscriptions. `local[p]` holds the Go locals that matter: what was read and
what will be written. The order of the steps depends on the kind of the request,
as in the code (the agent: xray, hysteria, subscriptions; add-user: hysteria
first; remove-user: xray first). The initial state chooses among a node with HY2
on, one with HY2 off, which has hysteria's config and no unit for it (`NoUnit`),
and one whose hysteria config has been removed by hand (`NoFile`): there the
commands change xray only and say ok (`users.go:177`, `users.go:245`), and every
agent request ends in an error (`PlanNothing`, `SetUsers`).

`SuccessIsApplied` is about files, running services and subscriptions, where
hysteria's credentials may be missing if its users could not be read just then;
its one other exception is the retried add-user of section 3. `StableCredentials`
says of every user whom a request is not about, or whom it adds, that uuid and
password neither change nor get lost; the exceptions it names are a sync, an add
that is taken back, and a name xray had lost (`Orphan`).

Environment: `Fails` (any step may fail), `ClientGone` (from then on every call
with that context fails; a restart that is cut short may or may not have
happened), `AgentCrash` (all agent requests die, the kernel frees the lock),
`CliCrash`, `Reboot` (services start on the files there are). They all count
against `MaxFaults`.

Data: a credential is the request that minted it, or `PanelCred` for those of a
sync; a config is a map from users to credentials per inbound. `Main` is the
first VLESS inbound, the one the commands change; the agent renders all of them.

Left out: a crash inside `WriteSubscriptions` (many files; taken before or after
the step), lock errors other than "busy", list-users (reads only), user names the
validation refuses, the credentials of the response, and what hysteria still runs
after its config was removed by hand (no request restarts it then).

### NodeRotate

A rotation `p` generates the host names `p` (VLESS) and `p` (Hysteria2), or takes
the node's own host as an operator's override may. One action per effect:
issuing the certificate, two upserts, xray's and cloudflared's config and
restart, the Hysteria2 step, `cfvpn.env`, subscriptions, two deletions; the
undoing half (`RestoreCfd` ... `FailVpn`) and the partial save have actions of
their own, and so have the panel's answers (`Persist`, `RotateFailed`,
`Timeout`, `ConnectionLost`). Every file is represented by the host name in it; `Mixed` is a
certificate beside another one's key. The mode, HY2 on or off, and whether the
row is `disabled` are chosen in the initial state. `AgentCrash` and `Reboot` may
come between any two steps.

`OkMeansMoved` includes the records of both new names, but for an override that
names the host the node had: its record is the "old" one that is deleted last.
`RollbackLeavesNoTrace` lets cloudflared's config file stay new in one case, when
the one failure was its own write, past the rename (`cfdTouched` is not set yet).

Left out: blank zone ids (the records of such a node are not managed), the
public IP, users (same lock, same files as in `NodeUsers`), a second failure
inside a failed `issueHy2Cert`, other writers of the row while a rotation runs
(`PanelNodes`), and the choice of names that collide.

### NodeUpgrade

An upgrade `u` generates the names `u`; a writer `w` is a request of the agent
that adds the user `w`. `dir` is `/etc/cfvpn`, file by file in the order in which
`copyTree` meets them, so that a copy cut short is a prefix; `backups` are those
beside it. The lock is an inode: `lockFile` is what the path names, `holder` who
has the flock of each inode, `fd` what a process has open; `RemoveAll` unlinks
the inode its holder goes on holding. `Kill` ends any process between two steps,
`Fails` any step.

`ServedHostResolves` is stated for one upgrade at work (`OneAtWork`): once a
rollback has replaced the lock file two upgrades may be at work, and section 4
says what they can do to each other with a third. `OkMeansUpgraded`
and `NoUserLost` are likewise about the lock file there was (`users_kept` shows
why). `ServedHostResolves` speaks of the VPN host, `OkMeansUpgraded` of the records
of both hosts. `KeepConfigBackups` is at least 2 (the code keeps 3, `install.go:888`):
if only one backup were kept, a single backup would no longer tell that one upgrade
alone has been at work.

Left out: what the binaries and the units contain (units are in `NodeFeatures`),
kernel tuning, writers that need not read xray's config first (the agent's sync), the admin host's record, ports and passwords, two backups in one second.

### NodeInstall

One run at a time, called by a number that names everything it mints: hosts,
credentials, a tunnel. `Fresh` is the least number nothing is called by any
more, which keeps the state finite. `Bootstrap` is what `install-node.sh`
decides and writes, the actions after it `RunInstall` effect by effect,
`RunRotateCleanup` and `ClearTunnel` what the operator does about a tunnel the
failed run told of. The initial state is an empty host, or an installed node of
either mode that may have lost its tunnel's credentials. `OkMeansInstalled` has
an xray that is up on the files, or with older keys if it was already running when
the run began: it is enabled, not restarted.

Left out: packages, firewall, download of binaries, the registration in the
panel, two bootstraps at once.

### NodeFeatures

An actor is an operator's shell (one command at a time under the lock), the
renewal timer, or the agent with the Hysteria2 half of a rotation. `env` is
`cfvpn.env`, `subs` that file as the subscriptions were made from it; `units`,
`applied` and `enabled` are systemd's view. A certificate is a host and an age
(`fresh` or `due`); `Age` makes every copy of it due. `Rerun` repeats a command
that was killed or failed.

`OkMeansApplied` claims of a command that ends well what it may claim whatever has
failed before, which is cfvpn.env, files, units and subscriptions, and what runs
only for the commands that always restart; for `hy2 enable`, `xhttp` and
`reconcile-units`, which restart what they have changed, it claims that only on a
node where nothing has failed (`enabled_route_is_served` shows why).

Left out: users (`NodeUsers`), the timer's, the agent's and cloudflared's units,
ufw, ACME itself, and how a rotation renders and restarts xray and cloudflared
(`Move`; in `NodeRotate`, and neither routes nor keys change in it).

### PanelUsers

A request is one of create, delete, upgrade-nodes about one user; every await is
a step: the insert, the select, each call of `Promise.allSettled`, each write of
`user_nodes`. `call[r][n]` is where the call to node `n` is, `job[n]` a call the
panel has given up and the agent still serves. `sync[n]` is a sync of the node:
its list is read before the agent applies it. `reported` holds the pairs that an
answer named as failed, cleared by the next good sync; `raced` those two
requests have worked on at once.

Left out: the user limit (an error before any change), creation and deletion of
nodes, the runtime columns a sync refreshes.

### PanelNodes

A process is a request of any route or a cron; each reads what it makes use of
(`Used`), awaits its caller or the agent, and writes. `stale` are the
processes that have read names or zones that changed since, `crossed` the sweeps
that a success was written under, `excused` records that an answer, or its
absence, said that a rotation may have gone wrong, that a stale writer wrote, or
that a rotation found the node disabled. A rotation is one step of the node; one
that was given up may land later (`Late`). `Most` caps the counter of failures
one above the threshold.

Left out: creation and deletion of the row, disabled zones, host names an
operator types, the columns that only ever follow the agent, the events a sweep
logs.

## 3. What the runs show

Passing runs (two workers; times are approximate):

| run | instance | states | shows |
|---|---|---|---|
| `node_users` | 3 requests of all kinds, 2 users, 2 inbounds, MaxUsers 1, 1 fault, HY2 on, off or without a config | 1.4 M, 60 s | `TypeOK`, `NoLostUpdate`, `WithinLimit`, `AgreementAtRest`, `XraySurvivesOneFault`, `SuccessIsApplied`, `StableCredentials` |
| `node_users_cli` | 3 commands, MaxUsers 2, 1 fault, HY2 on, off or without a config, weak fairness | 0.61 M, 130 s | `NoXrayOnlyUser`, `EveryRequestEnds` |
| `atomic_file` | 3 calls, faults unbounded | 20 k, 7 s | `TypeOK`, `OnlyFinishedFilesShow`, `ErrorMeansUntouched`, `OkMeansDurable`, `ImplementsRegister` |
| `node_rotate` | 2 rotations, 2 faults, both modes, HY2 on/off, row disabled or not | 1.7 M, 60 s | `TypeOK`, `ServedNamesResolve`, `RowFollowsNode`, `OkMeansMoved`, `RollbackLeavesNoTrace` |
| `node_upgrade` | 2 upgrades, 1 writer, 2 faults, 2 backups kept, both modes | 70 s | `TypeOK`, `NoUserLost`, `Recoverable`, `ServedHostResolves`, `OkMeansUpgraded`, `FailedUpgradeKeepsConfig` |
| `node_install` | runs called 1 to 7, 2 faults, fairness | 20 s | `TypeOK`, `NamedTunnelIsKept`, `OkMeansInstalled`, `InstallGetsThere` |
| `node_features` | 1 operator, timer, agent, 2 hosts, 3 commands and failures together, fairness | 0.83 M, 115 s | `TypeOK`, `OneFaultIsContained`, `OkMeansApplied`, `Hy2Heals` |
| `panel_users` | 3 requests about 1 user on 1 node, 1 fault, fairness | 0.55 M, 100 s | `TypeOK`, `DisagreementIsReported`, `SyncsHeal` |
| `panel_nodes` | 2 requests, 1 cron, 2 zones, 1 fault, both modes, fairness | 0.33 M, 60 s | `TypeOK`, `RowNamesNode`, `StatusIsEarned`, `PanelCatchesUp` |

Why the bounds are enough.

- *Node.* Two requests are needed to interleave and a third to
  find what the first two left; with one user allowed and two to choose from, the limit
  is met at once and every operation has a user it applies to and one it does not;
  two inbounds are the first one and "another". One fault is what
  `XraySurvivesOneFault` speaks of; the proofs below have no bound on faults. Two
  rotations can overlap, follow each other, or retry; two faults let a failure be
  followed by a failed compensation. Three calls of `WriteFile` let one be
  acknowledged while another renames and a third is torn.
- *Upgrade.* Two upgrades are one that fails and one that meets what it left,
  or two at once after the lock file was replaced; two backups kept are the one
  in use and one to prune; two faults are a failure and a kill in the rollback.
- *Install.* Seven numbers are enough for a run to find a free one in every reachable
  state, so that no rerun is cut off by the bound (and no state is a deadlock). `NamedTunnelIsKept`
  needs two tunnels: the one that was offered and the one that took its name.
- *Features.* `MaxEvents` is one budget for commands, ageing and failures, so that
  any command may follow any other with a failure between them or inside; two
  hosts are the old and the new one of a rotation.
- *Panel.* Users do not share state in `users.ts`, nor do nodes but in one
  answer that lists them, so one pair of them shows all there is to the pair;
  three requests are a create, a delete and a third that finds what they left.
  Larger instances were checked once without the liveness property and without
  error: three faults, two users. For a node's row two requests and a
  cron are three writers, of whom each may have read before the other two wrote;
  two zones are the one in use and another; the threshold of two failures is met
  by one break down.

Deadlock is not checked where the system may stop: when every request
has been answered the models have nothing left to do.

### Fairness

- `node_users_cli`: weak fairness of each command's own steps. A process that is
  not killed goes on; the commands it runs are bounded by the 15 minute deadline
  of `cfvpnctl` and the wait for the lock by its own.
- `node_install`: a run goes on; the operator reruns a failed one and follows
  the hint, if not at once then in the end (strong fairness, for a state that
  comes and goes). This is the procedure the script prints.
- `node_features`: commands, renewal and rotation go on; the timer comes every day and
  gets the lock in the end (strong fairness: it gives up and comes back the next
  day); certificates grow old; an operator reruns a command that has failed.
- `panel_users`: Workers and agents go on (calls have timeouts), and somebody
  syncs every node again and again, which `users.ts:214` asks for.
- `panel_nodes`: Workers go on, and the cron sweeps.

No fairness is assumed of failures, of arrivals, of crashes or of who gets the
lock.

### Where the code does not do what it says

Each of these runs checks one property that a comment of the source states, and
TLC finds a counterexample. `PROJECT.json` ("findings") quotes the lines.

| run | what TLC shows |
|---|---|
| `removed_from_every_inbound` | remove-user answers ok and a second inbound still accepts the user |
| `users_kept` | a rollback unlinks the lock file: a request that waited for the old one and a request that opens the new one are both at work, and the second to write drops the user the first has confirmed (the copy back itself overwrites none: xray's config is its last file, and reads fail until it is there) |
| `enabled_route_is_served` | `xhttp enable` after a run that was killed says ok for a route xray does not serve |

Other differences between the code and what it says of itself were met while
modelling. The models have them; the passing properties leave out exactly
these cases.

- A retried add-user skips hysteria's restart for a name it finds in the file
  (`users.go:185`), so its ok may be of a user the running hysteria does not know.
- A failed Hysteria2 step leaves the new certificate under the old name
  (`rotate.go:307`); the panel then says "rotate_failed" for a node that has moved
  (`nodes.ts:945`); rotating to the node's own host deletes its record last
  (`rotate.go:324`); a node with HY2 off cannot be rotated without an error, as
  hysteria is restarted regardless (`rotate.go:376`); rotating a disabled node
  answers ok and leaves the row on the old names (`nodes.ts:962`).
- `rotate_unknown_state` advises a status call, which in cloudflare mode never writes `vpn_host`.
- `hy2 enable` after a run that failed past the unit's write says all is in sync
  while hysteria is down (`reconcile.go:121`); a failed restart in `reconcile-units`
  leaves xray down; a renewal that stops between copy and restart leaves the old
  leaf in hysteria until the next one (`OneFaultIsContained` and `Hy2Heals` say
  how far that goes).
- The bootstrap offers to clean up `cfvpn-admin-*` tunnels (`install-node.sh:273`)
  while the installer names them `cfvpn-<node id>`; a tunnel nobody was told of
  keeps its name taken (`Stuck` in `InstallGetsThere`); the installer enables
  hysteria's unit with HY2 off (`install.go:1425`); `enable --now` does not restart
  an xray that runs.
- Deleting a user always deletes the row, so that the retry which a partial
  failure asks for (`users.ts:171`) finds nobody; a 404 from the agent, which it answers
  from xray's list alone, counts as removed; a deletion that crosses a
  creation may leave a served user (`raced` in `DisagreementIsReported`).
- A rollback of an upgrade deletes the A record of the HY2 host
  (`install.go:532-536` registers what it upserts, also a record that was there),
  while the `cfvpn.env` it restores still names that host. No property covers it:
  `ServedHostResolves` is about the VPN host.
- Two upgrades that meet behind a replaced lock file (`install.go:863`) can leave a
  `cfvpn.env` whose host has no record (section 4; `OneAtWork` in `ServedHostResolves`).
- A node that answers is marked unreachable by the status route when the write of
  its own answer throws; a misconfiguration counts towards the two misses of the sweep.

## 4. What is proved

Every safety property that a passing run checks is also a theorem: it holds for every value of the
constants that satisfies the named assumptions, with any number of requests,
users, nodes, runs and hosts, and with no bound on faults other than the constant
(`MaxFaults \in Nat`; in `NodeFeatures` `MaxEvents \in Nat`).

| theorem | module | of `Spec` it shows |
|---|---|---|
| `FileTypes` | `AtomicFile` | `[]TypeOK` |
| `FinishedFilesShow` | | `[]OnlyFinishedFilesShow` |
| `ErrorsLeaveThePath` | | `[]ErrorMeansUntouched` |
| `FileSafety` | | `[]OkMeansDurable` |
| `WriteFileIsAtomic` | | `ImplementsRegister`, the refinement of `FileRegister` |
| `TypeCorrect` | `NodeUsers` | `[]TypeOK` |
| `MutualExclusion` | | who is past the lock holds it |
| `NoUpdateIsLost` | | `[]NoLostUpdate` |
| `LimitHolds` | | `[]WithinLimit` |
| `CredentialsAreStable` | | `StableCredentials`, an action property |
| `OkIsApplied` | | `SuccessIsApplied`, an action property |
| `OneFaultIsSurvived` | | `[]XraySurvivesOneFault` |
| `CommandsKeepOrder` | | `[]NoXrayOnlyUser`, if `Kinds \subseteq CliKinds` |
| `NodeAgrees` | | `[]AgreementAtRest` |
| `RotationTypeCorrect` | `NodeRotate` | `[]TypeOK` |
| `NamesResolve` | | `[]ServedNamesResolve` |
| `OkMovesAll` | | `OkMeansMoved`, an action property |
| `RowFollows` | | `[]RowFollowsNode` |
| `RollbackIsClean` | | `RollbackLeavesNoTrace`, an action property |
| `UpgradeTypeOK` | `NodeUpgrade` | `[]TypeOK` |
| `NoConfirmedUserLost` | | `[]NoUserLost` |
| `AlwaysRecoverable` | | `[]Recoverable` |
| `HostResolves` | | `[]ServedHostResolves` |
| `UpgradeDelivers` | | `OkMeansUpgraded`, an action property |
| `FailureKeepsConfig` | | `FailedUpgradeKeepsConfig`, an action property |
| `InstallTypeCorrect` | `NodeInstall` | `[]TypeOK` |
| `NamedTunnelStays` | | `[]NamedTunnelIsKept` |
| `OkAgreesWithItself` | | `OkMeansInstalled`, an action property |
| `FeaturesTypeCorrect` | `NodeFeatures` | `[]TypeOK` |
| `OneFaultContained` | | `[]OneFaultIsContained` |
| `OkIsDone` | | `OkMeansApplied`, an action property |
| `UsersTypeCorrect` | `PanelUsers` | `[]TypeOK` |
| `NothingDisagreesInSilence` | | `[]DisagreementIsReported` |
| `RowTypeCorrect` | `PanelNodes` | `[]TypeOK` |
| `StatusesAreEarned` | | `StatusIsEarned`, an action property |
| `RowIsRight` | | `[]RowNamesNode` |

`CommandsKeepOrder` has a hypothesis because the property is one of cfvpnctl's
commands: the agent writes in the other order, and the run of the property,
`node_users_cli`, has commands only.

Assumptions. Most say that a name with a meaning of its own is none of the
ordinary ones (`Old`, `Torn`, `None`, `Down`, `NoCred`, `Missing`, `Mixed`,
`Sync`, `Keep`), or that processes of two sorts are different; the bounds are
naturals. The others: `Main` is an inbound and `Users` is finite (`NodeUsers`);
`Home` is a zone (`PanelNodes`); `FirstHost` is a host (`NodeFeatures`);
`MaxId` is not 0 (`NodeInstall`, whose first run needs a number); at least two
backups are kept (`NodeUpgrade`; the code keeps three). TLC evaluates all of
them in the runs.

### The arguments

Few of the properties are inductive. Each proof module defines an inductive
invariant as a conjunction of named parts, shows each part for the initial
states and for a step of every action, and draws the theorems from it.

- **AtomicFile.** `FileInv` adds `CallInv`, what each call has done by the step it is
  at: at "rename" its file is whole, flushed and chmodded; a file the path may name belongs
  to a call that has renamed it and has not failed; and as long as some call has yet to
  flush the directory, the path does not name the old file, so that the flush before an
  ok really removes the old content from what a power cut may bring back. The refinement then
  follows step by step: `Rename` is `Publish`, `SyncDir` is `Acknowledge` or
  `Undurable`, the steps that end in an error are `Fail`, all else stutters.
- **NodeUsers.** Nothing in `NoLostUpdate` says who may write. `LockInv` is the
  lock's bookkeeping (a request past the lock is its holder, so no other one
  writes), `PlanInv` says, for every step under the lock, which of the two files
  still is what was read. On these rest: `LimitInv` (every map a request carries, read or planned,
  is within the limit, and a name that is already there does not grow it, by
  finite-set cardinality); `PlannedInv` (what `Load` planned, one case per
  operation: who is added or removed, and that all others keep their credentials) and
  `AppliedInv` (how much of the plan is on disk, running and in the subscriptions, by step), from
  which `StableCredentials` and `SuccessIsApplied` follow; `ServeInv` (xray is
  down after one fault only while the request whose restart failed is still at work
  under the lock, about to start it again); `OrderInv` (what a command has read has no
  xray-only user, and at the restore hysteria is on the side of the command that
  can only have more); and `RestInv` (without a fault, how far files, services
  and subscriptions of the request under way agree, step by step).
- **NodeRotate.** `IInv` is `TypeInv` (types, the lock's holder, the certificate
  in place once issued), `NameInv` (a rotation's names are its own, and the row
  has them only once its agent said ok) and `RecordsInv` (before cfvpn.env is saved the node
  goes by other names than the rotation's; after the upserts the rotation's
  records exist; after the save the node goes by the rotation's names). A
  rollback therefore deletes names nobody goes by, and the last two deletions
  the row's names from before. Three more invariants stand on it. `SwitchedInv` says
  which of certificate, configs, services and environment have the rotation's
  names at each step. `FollowInv` is about rotations that do not overlap and
  lose no answer: an open one is on the row's names before the save and on its
  own after it, and when none is open the row has the node's names.
  `TraceInv` says what the one rotation at work has changed (`Going`) and what a
  rollback has left to undo (`Undoing`).
- **NodeUpgrade.** The lock file is what makes this hard: `LockInv` says that
  who is past the lock has the flock of the inode it opened, and that there is
  one holder only while `lockFile = Old`. `UsersInv` (a confirmed user is on disk and in
  whatever the holder is about to write) gives `NoUserLost`. `BackupInv` (past
  the backup, a whole backup exists or the pruning has had enough of them) gives
  `Recoverable`. `NamesInv` (until it saves, nothing on disk or in a backup
  names an upgrade's own host) with `CountInv` and `ResolveInv` gives `ServedHostResolves`:
  the VPN host a rollback deletes from DNS is in no file it puts back (its HY2 host is: section 3). `StageInv` says what an upgrade
  has replaced by each step. `FailedUpgradeKeepsConfig` needs `QuietInv` (until the first backup
  only users change, so that backup is of a consistent directory) and `KeptInv`
  (which files of the backup are already restored, in `copyTree`'s order, while
  writers that lock the new file may add users to the restored config).
- **NodeInstall.** `NamedInv` is that the named tunnel exists and was not offered for
  removal; it needs `RunInv`, that the tunnel of a run under way is one it has created, or the named one. `StageInv` says what a run has put in place, and that no running xray
  has its credentials before the step that starts it.
- **NodeFeatures.** With no fault everything is in tune whenever no command is
  at work; with one, each clause of `OneFaultIsContained` allows exactly one way
  to be out of it. `SettledInv` is the state between commands; `RouteInv` follows a command
  that changes routes or the key, in three cases: nothing has failed yet
  (`Untroubled`), it has failed and is on its way back (`Returning`), or
  somebody else has failed before (`Proceeding`). `UnitInv` and `HysteriaInv`
  are about unit files written and not yet applied, `PairInv` about the
  certificate pair, which the renewal and the rotation alone touch. `SavedInv` is
  what a route command has in place when only the subscriptions are left.
- **PanelUsers.** `PairInv` is `DisagreementIsReported` with what is under way:
  a pair of user and node agrees, or a request about the user has a failed
  call to that node in hand, or has its credentials, or has removed it, or the pair was reported or raced. It stands
  on `JobInv` (what an agent still does for a panel that has given up is, or
  will be, in an answer), `SyncInv` (a sync under way carries the row, for every user no request
  has crossed it with) and `RivalInv` (requests at once on an undoubted pair are
  all of one side).
- **PanelNodes.** `KindInv` says what a process at a step has been asked.
  `StatusIsEarned` follows from `FailsInv`, that a sweep no success has crossed
  read no more failures than the row has, since every other writer keeps or
  grows the counter (`Monotone`), and from `AnswerInv`, that a rotation about to
  be written was told of its success. `RowNamesNode` is not inductive: between a
  rotation's call and its write the row is behind. `NamesInv` is `RowInv`, the property with that
  window as its only exception, and `CurrentInv`: a process that is not stale
  has read, and was answered, what is still true. Each step is taken by
  one process; for the others `OthersCurrent` says that what they know stays true or they
  become stale.

The proof of `ServedHostResolves` found what the run's instance was too small for.
The property was first stated without `OneAtWork`; TLC finds no error with two
upgrades, the proof did not go through, and an instance with three upgrades and one fault has the
counterexample. A first rollback (Cloudflare refuses the record, which is no fault of the environment)
replaces the lock file; a second upgrade, which waited for the old one, and a
third, which opens the new one, are then both at work. The second saves
`cfvpn.env` with its own host, fails and deletes that host's records; the third
backs up in between, fails on the files that the second one is restoring, and puts back a
`cfvpn.env` whose host no longer resolves.

### What is only model-checked

- The five liveness properties (`EveryRequestEnds`, `InstallGetsThere`,
  `Hy2Heals`, `SyncsHeal`, `PanelCatchesUp`): liveness under fairness, and
  ENABLED, are out of the prover's reach.
- The three violations, which are counterexamples and need no proof.

## 5. What is left

1. An abstract agent (one atomic user list with an ok or an error) that
   `NodeUsers` implements and `PanelUsers` calls. The invariants of
   `NodeUsersProofs` have what its refinement needs: the write of xray's config is where
   an agent's request takes effect.
2. Creation and deletion of a node's row beside a user's creation, and a
   disabled zone, in `PanelNodes`.

### Not modelled

- **Rate limiter** (`lib/auth.ts`): a bounded map with an eviction rule that shares
  no state with anything else; a unit test reaches it.
- **Probe** (`scripts/fleet-probe.py`): a monitoring script beside the system.
- **Subscription rendering, templates, URIs, events, UI, CLI parsing,
  status reports**: reads and formatting.
- **JWT, Reality keys, ACME, Tailscale, the Cloudflare API, binary downloads**:
  external, or cryptography; the outcomes their callers see are in the modules.
- **Firewall, host preparation, tunnel network, netinfo**: host settings nothing
  else reads.
