---------------------------- MODULE NodeInstall ----------------------------
(***************************************************************************)
(* Installing a node, again and again until it works: the bootstrap        *)
(* (scripts/install-node.sh, scripts/lib/cfvpn-env-file.sh), RunInstall    *)
(* (internal/commands/install.go) and the cleanup of a tunnel that a       *)
(* failure has left (RunRotateCleanup, internal/commands/rotate.go).       *)
(*                                                                         *)
(* A run mints names, credentials and a tunnel; they are all called by one *)
(* number that nothing in use is called by.  A record that a later run has *)
(* replaced by one of another name is forgotten.                           *)
(*                                                                         *)
(* An operator whose name ends in _<slip> is the definition after it with  *)
(* a plausible slip.                                                       *)
(***************************************************************************)
EXTENDS Naturals, FiniteSets

CONSTANTS
    MaxId,      \* the numbers that runs are called by are 1..MaxId
    MaxFaults   \* bound on the failures of the environment

ASSUME BoundsAssumption == MaxId \in Nat \ {0} /\ MaxFaults \in Nat

None == 0       \* no name, no tunnel, an xray that is down
Old == 1        \* what a node has that was installed before
Ids == 1..MaxId
Modes == {"direct", "cloudflare"}

VARIABLES
    env,        \* cfvpn.env: the keys the bootstrap and the installer write
    marker,     \* /etc/cfvpn/.installed
    files,      \* configs on disk: xray's, cloudflared's, the certificate's host
    xrayRun,    \* the config the running xray was started with
    tunnels,    \* tunnels in Cloudflare, all of them under the node's name
    creds,      \* tunnels whose credentials file is on disk
    dns,        \* records of the VPN host, of the admin host and of the HY2 host
    offered,    \* tunnels that a failed run told the operator to clean up
    pc,         \* the next step of the run there is
    local,      \* what that run keeps
    faults      \* failures of the environment so far

vars == <<env, marker, files, xrayRun, tunnels, creds, dns, offered, pc, local, faults>>
cloud == <<tunnels, dns>>

Blank == [mode |-> "cloudflare", id |-> None]
NoEnv == [mode |-> "cloudflare", host |-> None, hy2Off |-> FALSE,
          keys |-> None, reality |-> FALSE, tunnel |-> None]
NoLocal == [mode |-> "cloudflare", domain |-> None, host |-> None, keys |-> None, tunnel |-> None, reused |-> FALSE]

Steps == {"idle", "write_env", "hosts", "cert", "tunnel", "ip", "vpn_dns", "admin_dns",
          "xray", "cloudflared", "save_env", "hy2_dns", "units", "mark"}

InUse ==
    {env.host, env.keys, env.tunnel, files.xray.id, files.cert, files.cloudflared,
     xrayRun.id, dns.vpn.host, dns.vpn.to, dns.admin, dns.hy2, None, Old}
    \cup tunnels \cup creds \cup offered
Fresh == CHOOSE n \in Ids \ InUse : \A m \in Ids \ InUse : n <= m

\* A host with nothing on it, or a node that is installed, with or without
\* Hysteria2, which may have lost its tunnel's credentials.
Init ==
    /\ \/ /\ env = NoEnv /\ marker = FALSE /\ tunnels = {} /\ creds = {}
          /\ files = [xray |-> Blank, cloudflared |-> None, cert |-> None]
          /\ xrayRun = Blank
          /\ dns = [vpn |-> [type |-> "CNAME", host |-> None, to |-> None],
                    admin |-> None, hy2 |-> None]
       \/ \E mode \in Modes, off \in BOOLEAN :
          /\ env = [mode |-> mode, host |-> Old, hy2Off |-> off,
                    keys |-> Old, reality |-> mode = "direct", tunnel |-> Old]
          /\ marker \in BOOLEAN /\ tunnels = {Old} /\ creds \in {{}, {Old}}
          /\ files = [xray |-> [mode |-> mode, id |-> Old], cloudflared |-> Old, cert |-> Old]
          /\ xrayRun = files.xray
          /\ dns = [vpn |-> [type |-> IF mode = "direct" THEN "A" ELSE "CNAME",
                             host |-> Old, to |-> Old],
                    admin |-> Old, hy2 |-> Old]
    /\ offered = {} /\ pc = "idle" /\ local = NoLocal /\ faults = 0

NoFault == faults' = faults
Fault == faults < MaxFaults /\ faults' = faults + 1

At(step) == pc = step
GoTo(step) == pc' = step /\ UNCHANGED <<local, offered>>
Stop == pc' = "idle" /\ local' = NoLocal

\* list_admin_tunnels: what the bootstrap offers after a failure are new tunnels
\* called cfvpn-admin-*.  RunInstall calls its tunnel cfvpn-<NODE_ID>.
ListAdminTunnels == {}

Fail == Stop /\ offered' = offered \cup ListAdminTunnels

\* hint: the tunnel is offered for cleanup even if it was there before.
Hint_reused == offered' = offered \cup {local.tunnel}

\* hint, printRotateHint: a tunnel that this run has created is offered.
Hint == offered' = IF local.reused THEN offered ELSE offered \cup {local.tunnel}

FailWithHint == Stop /\ Hint

-----------------------------------------------------------------------------
(* The bootstrap.                                                          *)

\* node_is_provisioned: the marker, or a key that only the installer writes.
Provisioned == marker \/ env.reality \/ env.tunnel # None

\* `cfvpn-env-file.sh check`: a provisioned node takes FORCE_REINSTALL=1.  The mode
\* is the operator's, or cloudflare if something listens on port 443; DOMAIN is
\* there if the operator names the host.
Start(force, mode, domain) ==
    /\ At("idle") /\ Ids \ InUse # {}
    /\ Provisioned => force
    /\ local' = [NoLocal EXCEPT !.keys = Fresh, !.mode = mode, !.domain = domain]
    /\ pc' = "write_env" /\ NoFault
    /\ UNCHANGED <<env, marker, files, xrayRun, cloud, creds, offered>>

\* CARRY_ON_FORCE_RE: of what is generated, ADMIN_TUNNEL_UUID only.
Carried == [NoEnv EXCEPT !.tunnel = env.tunnel, !.hy2Off = env.hy2Off]

\* `cfvpn-env-file.sh write`: the file is cut down to what is carried over, the
\* marker removed, and the bootstrap's keys put in.
WriteEnv ==
    LET kept == IF Provisioned THEN Carried ELSE env
        host == IF local.domain = None THEN kept.host ELSE local.domain
    IN
    /\ At("write_env")
    /\ \/ /\ NoFault /\ marker' = FALSE /\ GoTo("hosts")
          /\ env' = [kept EXCEPT !.mode = local.mode, !.host = host]
       \/ /\ Fault /\ env' \in {env, kept} /\ marker' \in {marker, FALSE} /\ Fail
    /\ UNCHANGED <<files, xrayRun, cloud, creds>>

-----------------------------------------------------------------------------
(* RunInstall.                                                             *)

\* A failure offers the tunnel for cleanup before there is one.
ResolveHosts_hint ==
    /\ At("hosts")
    /\ Fault /\ FailWithHint
    /\ UNCHANGED <<env, marker, files, xrayRun, cloud, creds>>

\* The probe of port 443, resolveHosts and the binaries.
ResolveHosts ==
    /\ At("hosts")
    /\ \/ /\ env.mode = "direct" => xrayRun.mode # "direct" \/ xrayRun.id = None
          /\ NoFault
          /\ local' = [local EXCEPT !.host = IF env.host = None THEN local.keys ELSE env.host]
          /\ pc' = "cert" /\ UNCHANGED offered
       \/ env.mode = "direct" /\ xrayRun.mode = "direct" /\ xrayRun.id # None /\ NoFault /\ Fail
       \/ Fault /\ Fail
    /\ UNCHANGED <<env, marker, files, xrayRun, cloud, creds>>

\* Before anything says which host it is for.
IssueCert ==
    LET issued == [files EXCEPT !.cert = local.host] IN
    /\ At("cert")
    /\ \/ NoFault /\ files' = issued /\ GoTo("tunnel")
       \/ Fault /\ files' \in {files, issued} /\ Fail
    /\ UNCHANGED <<env, marker, xrayRun, cloud, creds>>

\* Cloudflare refuses a second tunnel of the same name.
CreateTunnel ==
    LET t == local.keys IN
    \/ /\ tunnels = {} /\ NoFault
       /\ tunnels' = {t} /\ creds' = creds \cup {t}
       /\ local' = [local EXCEPT !.tunnel = t]
       /\ pc' = "ip" /\ UNCHANGED offered
    \/ tunnels # {} /\ NoFault /\ Fail /\ UNCHANGED <<tunnels, creds>>
    \* The answer is lost, or the credentials cannot be written.
    \/ Fault /\ tunnels' \in {tunnels, tunnels \cup (IF tunnels = {} THEN {t} ELSE {})}
       /\ Fail /\ UNCHANGED creds
    \/ /\ tunnels = {} /\ Fault /\ tunnels' = {t} /\ creds' \in {creds, creds \cup {t}}
       /\ offered' = offered \cup {t} /\ Stop

\* A tunnel is created whatever ADMIN_TUNNEL_UUID says.
ProvisionAdminTunnel_always ==
    /\ At("tunnel")
    /\ CreateTunnel
    /\ UNCHANGED <<env, marker, files, xrayRun, dns>>

\* provisionAdminTunnel: a tunnel that cfvpn.env names is reused, with its
\* credentials or not at all.
ProvisionAdminTunnel ==
    /\ At("tunnel")
    /\ \/ env.tunnel = None /\ CreateTunnel
       \/ /\ env.tunnel \in creds /\ NoFault
          /\ local' = [local EXCEPT !.tunnel = env.tunnel, !.reused = TRUE]
          /\ pc' = "ip" /\ UNCHANGED <<offered, tunnels, creds>>
       \/ env.tunnel # None /\ env.tunnel \notin creds /\ NoFault /\ Fail
          /\ UNCHANGED <<tunnels, creds>>
    /\ UNCHANGED <<env, marker, files, xrayRun, dns>>

\* A detector that fails ends with a hint, an address that is no IPv4 address
\* without one.
DetectIP ==
    /\ At("ip")
    /\ \/ NoFault /\ GoTo("vpn_dns")
       \/ Fault /\ (FailWithHint \/ Fail)
    /\ UNCHANGED <<env, marker, files, xrayRun, cloud, creds>>

VpnRecord ==
    [type |-> IF env.mode = "direct" THEN "A" ELSE "CNAME", host |-> local.host, to |-> local.tunnel]

\* configureDNS, the VPN host: an unknown zone ends with a hint, a failed upsert
\* without.  Cloudflare refuses a CNAME beside an A record of the same host, and
\* the other way round.
ConfigureVpnDns ==
    LET refused == dns.vpn.host = local.host /\ dns.vpn.type # VpnRecord.type
        upserted == [dns EXCEPT !.vpn = VpnRecord]
    IN
    /\ At("vpn_dns")
    /\ \/ ~refused /\ NoFault /\ dns' = upserted /\ GoTo("admin_dns")
       \/ refused /\ NoFault /\ UNCHANGED dns /\ Fail
       \/ Fault /\ UNCHANGED dns /\ FailWithHint
       \/ Fault /\ dns' \in {dns} \cup (IF refused THEN {} ELSE {upserted}) /\ Fail
    /\ UNCHANGED <<env, marker, files, xrayRun, tunnels, creds>>

ConfigureAdminDns ==
    LET upserted == [dns EXCEPT !.admin = local.tunnel] IN
    /\ At("admin_dns")
    /\ \/ NoFault /\ dns' = upserted /\ GoTo("xray")
       \/ Fault /\ UNCHANGED dns /\ FailWithHint
       \/ Fault /\ dns' \in {dns, upserted} /\ Fail
    /\ UNCHANGED <<env, marker, files, xrayRun, tunnels, creds>>

\* writeConfigs: xray's, checked before it replaces the file.
WriteXrayConfig ==
    /\ At("xray")
    /\ \/ /\ NoFault /\ files' = [files EXCEPT !.xray = [mode |-> env.mode, id |-> local.keys]]
          /\ GoTo("cloudflared")
       \/ Fault /\ UNCHANGED files /\ Fail
    /\ UNCHANGED <<env, marker, xrayRun, cloud, creds>>

\* writeConfigs: hysteria's and cloudflared's.
WriteCloudflaredConfig ==
    LET written == [files EXCEPT !.cloudflared = local.tunnel] IN
    /\ At("cloudflared")
    /\ \/ NoFault /\ files' = written /\ GoTo("save_env")
       \/ Fault /\ files' \in {files, written} /\ Fail
    /\ UNCHANGED <<env, marker, xrayRun, cloud, creds>>

\* cfvpn.env keeps the old tunnel.
SaveEnv_noTunnel ==
    /\ At("save_env")
    /\ NoFault /\ env' = [env EXCEPT !.host = local.host, !.keys = local.keys] /\ GoTo("hy2_dns")
    /\ UNCHANGED <<marker, files, xrayRun, cloud, creds>>

\* On top of what the file has.
SaveEnv ==
    LET saved == [env EXCEPT !.host = local.host, !.keys = local.keys, !.tunnel = local.tunnel,
                             !.reality = @ \/ env.mode = "direct"]
    IN
    /\ At("save_env")
    /\ \/ NoFault /\ env' = saved /\ GoTo("hy2_dns")
       \/ Fault /\ env' \in {env, saved} /\ Fail
    /\ UNCHANGED <<marker, files, xrayRun, cloud, creds>>

ConfigureHy2Dns ==
    LET upserted == [dns EXCEPT !.hy2 = local.host] IN
    /\ At("hy2_dns")
    /\ \/ NoFault /\ dns' = upserted /\ GoTo("units")
       \/ Fault /\ dns' \in {dns, upserted} /\ Fail
    /\ UNCHANGED <<env, marker, files, xrayRun, tunnels, creds>>

\* installSystemdUnits: `enable --now` starts what is not running, restarts nothing,
\* and is asked for hysteria's unit even on a node that has none.
InstallSystemdUnits ==
    LET started == IF xrayRun.id = None THEN files.xray ELSE xrayRun IN
    /\ At("units")
    /\ \/ ~env.hy2Off /\ NoFault /\ xrayRun' = started /\ GoTo("mark")
       \/ env.hy2Off /\ NoFault /\ xrayRun' = started /\ Fail
       \/ Fault /\ xrayRun' \in {xrayRun, started} /\ Fail
    /\ UNCHANGED <<env, marker, files, cloud, creds>>

\* `cfvpn-env-file.sh mark-installed`.
MarkInstalled ==
    /\ At("mark")
    /\ \/ NoFault /\ marker' = TRUE /\ Stop /\ UNCHANGED offered
       \/ Fault /\ UNCHANGED marker /\ Fail
    /\ UNCHANGED <<env, files, xrayRun, cloud, creds>>

-----------------------------------------------------------------------------
(* The operator.                                                           *)

\* `cfvpnctl rotate-domain --cleanup <uuid>`, in a second shell if need be: the
\* tunnel, then its credentials file.  It takes no lock.
RunRotateCleanup(t) ==
    /\ t \in offered
    /\ \/ /\ NoFault /\ tunnels' = tunnels \ {t} /\ creds' = creds \ {t}
          /\ offered' = offered \ {t}
       \/ Fault /\ tunnels' \in {tunnels, tunnels \ {t}} /\ UNCHANGED <<creds, offered>>
    /\ UNCHANGED <<env, marker, files, xrayRun, dns, pc, local>>

\* The way out that provisionAdminTunnel's error names when the credentials are
\* gone: clear ADMIN_TUNNEL_UUID and delete the tunnel.
ClearTunnel ==
    /\ At("idle") /\ env.tunnel # None /\ env.tunnel \notin creds
    /\ env' = [env EXCEPT !.tunnel = None]
    /\ offered' = offered \cup {env.tunnel}
    /\ NoFault /\ UNCHANGED <<marker, files, xrayRun, cloud, creds, pc, local>>

\* The run is killed, or the host loses power and boots xray with what is on disk.
Kill ==
    /\ ~At("idle") /\ Fault
    /\ xrayRun' \in {xrayRun, IF xrayRun.id = None THEN xrayRun ELSE files.xray}
    /\ Fail
    /\ UNCHANGED <<env, marker, files, cloud, creds>>

Install ==
    \/ WriteEnv \/ ResolveHosts \/ IssueCert \/ ProvisionAdminTunnel \/ DetectIP
    \/ ConfigureVpnDns \/ ConfigureAdminDns \/ WriteXrayConfig \/ WriteCloudflaredConfig
    \/ SaveEnv \/ ConfigureHy2Dns \/ InstallSystemdUnits \/ MarkInstalled

Next ==
    \/ \E force \in BOOLEAN, mode \in Modes, domain \in {None, Old} : Start(force, mode, domain)
    \/ Install
    \/ \E t \in Ids : RunRotateCleanup(t)
    \/ ClearTunnel
    \/ Kill

\* Somebody goes on until the node is installed: reruns the script in the mode that
\* needs no port, naming no host, and does what an error says.
Retry == Start(TRUE, "cloudflare", None)

Fairness ==
    /\ WF_vars(Install)
    /\ SF_vars(Retry)
    /\ \A t \in Ids : WF_vars(RunRotateCleanup(t))
    /\ SF_vars(ClearTunnel)

Spec == Init /\ [][Next]_vars /\ Fairness

-----------------------------------------------------------------------------
(* Properties.                                                             *)

Names == Ids \cup {None}
Xray == [mode : Modes, id : Names]

\* The variables hold values of their types.
TypeOK ==
    /\ env \in [mode : Modes, host : Names, hy2Off : BOOLEAN,
               keys : Names, reality : BOOLEAN, tunnel : Names]
    /\ marker \in BOOLEAN
    /\ files \in [xray : Xray, cloudflared : Names, cert : Names]
    /\ xrayRun \in Xray
    /\ tunnels \subseteq Ids /\ creds \subseteq Ids /\ offered \subseteq Ids
    /\ dns \in [vpn : [type : {"A", "CNAME"}, host : Names, to : Names], admin : Names, hy2 : Names]
    /\ pc \in Steps
    /\ local \in [mode : Modes, domain : Names, host : Names, keys : Names, tunnel : Names, reused : BOOLEAN]
    /\ faults \in 0..MaxFaults

\* The tunnel that cfvpn.env names stays in Cloudflare and keeps the only copy of
\* its credentials, whatever fails and however late somebody follows a hint.
NamedTunnelIsKept ==
    [][env.tunnel # None =>
         /\ env.tunnel \in tunnels'
         /\ env.tunnel \in creds => env.tunnel \in creds']_vars

\* When a run ends well, every name and every credential in cfvpn.env is the one
\* that the configs, the certificate, the records and the tunnel have, whatever
\* earlier runs have left.  xray is up, and serves them unless it was running with
\* older keys when the run began: it is not restarted.
OkMeansInstalled ==
    [][~marker /\ marker' =>
         /\ files.xray = [mode |-> env.mode, id |-> env.keys]
         /\ {files.cert, dns.hy2, dns.vpn.host} = {env.host}
         /\ {files.cloudflared, dns.admin} = {env.tunnel}
         /\ dns.vpn = VpnRecord
         /\ env.tunnel \in tunnels \cap creds
         /\ xrayRun.id # None
         /\ xrayRun = files.xray \/ xrayRun.id # env.keys]_vars

\* Tunnels of the node that nothing on the node names.
Orphans == tunnels \ {env.tunnel}

\* What no rerun gets past: a tunnel nobody was told of keeps the name, or the host
\* the operator once named has the other mode's record.
Stuck ==
    \/ Orphans \ offered # {}
    \/ env.host # None /\ env.host = dns.vpn.host /\ dns.vpn.type = "A"

\* Rerun and cleaned up after for long enough, the install gets there, unless it is
\* stuck or Hysteria2 is off.
InstallGetsThere == env.hy2Off \/ <>[]Stuck \/ []<>marker
=============================================================================
