-------------------------- MODULE NodeInstallProofs --------------------------
(***************************************************************************)
(* Theorems about NodeInstall, for any number of runs and failures: the    *)
(* variables keep their types, no cleanup takes the tunnel that cfvpn.env  *)
(* names, and a run that ends well leaves a node that agrees with itself.  *)
(***************************************************************************)
EXTENDS NodeInstall, WellFoundedInduction, TLAPS

\* The tunnel that cfvpn.env names is there, and nobody was told to remove it.
NamedInv == env.tunnel # None => env.tunnel \in tunnels /\ env.tunnel \notin offered

AfterUnits == {"mark"}
AfterHy2 == {"units"} \cup AfterUnits
AfterSave == {"hy2_dns"} \cup AfterHy2
AfterCloudflared == {"save_env"} \cup AfterSave
AfterXray == {"cloudflared"} \cup AfterCloudflared
AfterAdmin == {"xray"} \cup AfterXray
AfterVpn == {"admin_dns"} \cup AfterAdmin
AfterTunnel == {"ip", "vpn_dns"} \cup AfterVpn
AfterCert == {"tunnel"} \cup AfterTunnel

\* The run under way: what it goes by was not used by anybody before, and the
\* tunnel it has is one that it has just created, or the one that cfvpn.env names.
RunInv ==
    /\ IF pc = "idle" THEN local = NoLocal ELSE local.keys # None
    /\ local.keys \notin offered /\ local.tunnel \notin offered
    /\ pc \notin AfterTunnel => ~local.reused
    /\ pc \in AfterTunnel =>
        /\ local.tunnel \in tunnels \cap creds
        /\ env.tunnel = IF local.reused \/ pc \in AfterSave THEN local.tunnel ELSE None

\* What the run has put in place so far.
StageInv ==
    /\ pc # "idle" =>
        \/ xrayRun.id # local.keys
        \/ pc \in AfterUnits /\ xrayRun = files.xray
    /\ pc \in AfterUnits => xrayRun.id # None
    /\ pc \in AfterCert => files.cert = local.host
    /\ pc \in AfterVpn => dns.vpn = VpnRecord
    /\ pc \in AfterAdmin => dns.admin = local.tunnel
    /\ pc \in AfterXray => files.xray = [mode |-> env.mode, id |-> local.keys]
    /\ pc \in AfterCloudflared => files.cloudflared = local.tunnel
    /\ pc \in AfterSave => env.host = local.host /\ env.keys = local.keys
    /\ pc \in AfterHy2 => dns.hy2 = local.host

IInv == TypeOK /\ NamedInv /\ RunInv /\ StageInv

-----------------------------------------------------------------------------
(* Types.                                                                  *)

Envs == [mode : Modes, host : Names, hy2Off : BOOLEAN,
         keys : Names, reality : BOOLEAN, tunnel : Names]
FileSets == [xray : Xray, cloudflared : Names, cert : Names]
Records == [vpn : [type : {"A", "CNAME"}, host : Names, to : Names], admin : Names, hy2 : Names]
Locals == [mode : Modes, domain : Names, host : Names, keys : Names, tunnel : Names,
           reused : BOOLEAN]

NodeTypes == env \in Envs /\ marker \in BOOLEAN /\ files \in FileSets /\ xrayRun \in Xray
CloudTypes == tunnels \subseteq Ids /\ creds \subseteq Ids /\ dns \in Records
CountType == faults \in 0..MaxFaults
RunTypes == offered \subseteq Ids /\ pc \in Steps /\ local \in Locals

LEMMA TypeParts == TypeOK <=> NodeTypes /\ CloudTypes /\ CountType /\ RunTypes
BY DEF TypeOK, NodeTypes, CloudTypes, CountType, RunTypes, Envs, FileSets, Records, Locals

LEMMA TypePartsPrime == TypeOK' <=> NodeTypes' /\ CloudTypes' /\ CountType' /\ RunTypes'
BY DEF TypeOK, NodeTypes, CloudTypes, CountType, RunTypes, Envs, FileSets, Records, Locals

LEMMA NameTypes ==
    /\ Ids \subseteq Nat /\ None \notin Ids
    /\ Ids \subseteq Names /\ {None, Old} \subseteq Names
BY BoundsAssumption DEF Ids, None, Old, Names

LEMMA BlankTypes == NoEnv \in Envs /\ NoLocal \in Locals /\ Blank \in Xray
BY NameTypes DEF NoEnv, NoLocal, Blank, Envs, Locals, Xray, Modes

LEMMA FaultType ==
    ASSUME TypeOK, Fault \/ NoFault
    PROVE  CountType'
BY BoundsAssumption DEF TypeOK, CountType, Fault, NoFault

\* A set of natural numbers that is not empty has a smallest one.
LEMMA SmallestId ==
    ASSUME NEW S \in SUBSET Nat, S # {}
    PROVE  \E n \in S : \A m \in S : n <= m
<1>1. PICK n \in S : \A m \in S : ~ (<<m, n>> \in OpToRel(<, Nat))
  BY NatLessThanWellFounded, WFMin
<1>2. \A m \in S : ~ (m < n)
  BY <1>1 DEF OpToRel
<1>3. QED
  BY <1>2

\* The number of a new run, if there is one left, is in use nowhere.
LEMMA FreshId ==
    ASSUME Ids \ InUse # {}
    PROVE  Fresh \in Ids /\ Fresh \notin InUse
<1>1. \E n \in Ids \ InUse : \A m \in Ids \ InUse : n <= m
  BY NameTypes, SmallestId
<1>2. QED
  BY <1>1 DEF Fresh

-----------------------------------------------------------------------------
(* A run that stops.                                                       *)

LEMMA StopParts ==
    ASSUME IInv, Fail \/ (FailWithHint /\ pc \in AfterTunnel)
    PROVE  RunTypes' /\ pc' = "idle" /\ local' = NoLocal
           /\ (Fail => offered' = offered)
<1>1. offered' = offered \/ (offered' = offered \cup {local.tunnel} /\ pc \in AfterTunnel)
  BY DEF Fail, FailWithHint, Hint, ListAdminTunnels
<1>2. offered' \subseteq Ids
  BY <1>1, TypeParts DEF IInv, RunInv, RunTypes, CloudTypes
<1>3. pc' = "idle" /\ local' = NoLocal /\ (Fail => offered' = offered)
  BY DEF Fail, FailWithHint, Stop, ListAdminTunnels
<1>4. QED
  BY <1>2, <1>3, BlankTypes DEF RunTypes, Steps

LEMMA StopInv ==
    ASSUME TypeOK', pc' = "idle", local' = NoLocal, NamedInv'
    PROVE  IInv'
<1>1. None \notin offered'
  BY NameTypes, TypePartsPrime DEF RunTypes
<1>2. RunInv'
  BY <1>1 DEF RunInv, NoLocal, AfterTunnel, AfterVpn, AfterAdmin, AfterXray, AfterCloudflared,
              AfterSave, AfterHy2, AfterUnits
<1>3. StageInv'
  BY DEF StageInv, AfterCert, AfterTunnel, AfterVpn, AfterAdmin, AfterXray, AfterCloudflared,
         AfterSave, AfterHy2, AfterUnits
<1>4. QED
  BY <1>2, <1>3 DEF IInv

\* A failure that offers nothing.
LEMMA FailInv ==
    ASSUME IInv, NodeTypes', CloudTypes', CountType', Fail, tunnels \subseteq tunnels',
           env'.tunnel = env.tunnel \/ (pc \in AfterTunnel /\ env'.tunnel = local.tunnel)
    PROVE  IInv'
<1>1. RunTypes' /\ pc' = "idle" /\ local' = NoLocal /\ offered' = offered
  <2>1. Fail \/ (FailWithHint /\ pc \in AfterTunnel)
    OBVIOUS
  <2>2. QED
    BY <2>1, StopParts
<1>2. NamedInv'
  BY <1>1 DEF IInv, NamedInv, RunInv
<1>3. QED
  BY <1>1, <1>2, TypePartsPrime, StopInv

\* A failure that offers the tunnel that the run has created.
LEMMA HintInv ==
    ASSUME IInv, NodeTypes', CloudTypes', CountType', FailWithHint, UNCHANGED <<env, tunnels>>,
           pc \in AfterTunnel \ AfterSave
    PROVE  IInv'
<1>1. RunTypes' /\ pc' = "idle" /\ local' = NoLocal
  <2>1. Fail \/ (FailWithHint /\ pc \in AfterTunnel)
    OBVIOUS
  <2>2. QED
    BY <2>1, StopParts
<1>2. offered' = IF local.reused THEN offered ELSE offered \cup {local.tunnel}
  BY DEF FailWithHint, Hint
<1>3. NamedInv'
  <2>1. ~local.reused => env.tunnel = None
    BY DEF IInv, RunInv
  <2>2. QED
    BY <1>2, <2>1 DEF IInv, NamedInv
<1>4. QED
  BY <1>1, <1>3, TypePartsPrime, StopInv

\* A run that goes on with the tunnels as they are.
LEMMA GoOnRun ==
    ASSUME IInv, NEW step \in Steps, GoTo(step), pc # "idle", step # "idle",
           UNCHANGED <<tunnels, creds>>,
           pc \in AfterTunnel <=> step \in AfterTunnel,
           step \in AfterTunnel =>
               env'.tunnel = IF local.reused \/ step \in AfterSave THEN local.tunnel ELSE None,
           step \notin AfterTunnel => env'.tunnel = env.tunnel
    PROVE  NamedInv' /\ RunInv' /\ RunTypes'
<1>1. pc' = step /\ UNCHANGED <<local, offered>>
  BY DEF GoTo
<1>2. RunInv' /\ RunTypes'
  BY <1>1, TypeParts DEF IInv, RunInv, RunTypes
<1>3. NamedInv'
  BY <1>1 DEF IInv, NamedInv, RunInv
<1>4. QED
  BY <1>2, <1>3

-----------------------------------------------------------------------------
(* The steps of a run, one by one.                                         *)

LEMMA StartInv ==
    ASSUME IInv, NEW force \in BOOLEAN, NEW mode \in Modes, NEW domain \in {None, Old},
           Start(force, mode, domain)
    PROVE  IInv'
<1>1. Fresh \in Ids /\ Fresh \notin InUse
  BY FreshId DEF Start
<1>2. /\ local' = [NoLocal EXCEPT !.keys = Fresh, !.mode = mode, !.domain = domain]
      /\ pc = "idle" /\ pc' = "write_env"
      /\ UNCHANGED <<env, marker, files, xrayRun, cloud, creds, offered>>
  BY DEF Start, At
<1>3. TypeOK'
  <2>1. local' \in Locals
    BY <1>1, <1>2, NameTypes, BlankTypes DEF Locals
  <2>2. QED
    BY <1>2, <2>1, TypeParts, TypePartsPrime, FaultType
       DEF Start, IInv, NodeTypes, CloudTypes, RunTypes, Steps, cloud
<1>4. /\ local'.keys = Fresh /\ local'.tunnel = None /\ ~local'.reused
      /\ Fresh # None /\ None \notin offered
  BY <1>1, <1>2, NameTypes, TypeParts DEF NoLocal, IInv, RunTypes
<1>5. Fresh \notin offered /\ Fresh # xrayRun.id
  BY <1>1 DEF InUse
<1>6. NamedInv' /\ RunInv' /\ StageInv'
  <2>1. NamedInv'
    BY <1>2 DEF IInv, NamedInv, cloud
  <2>2. QED
    BY <1>2, <1>4, <1>5, <2>1
       DEF RunInv, StageInv, AfterCert, AfterTunnel, AfterVpn, AfterAdmin, AfterXray,
           AfterCloudflared, AfterSave, AfterHy2, AfterUnits
<1>7. QED
  BY <1>3, <1>6 DEF IInv

LEMMA WriteEnvInv ==
    ASSUME IInv, WriteEnv
    PROVE  IInv'
<1> DEFINE kept == IF Provisioned THEN Carried ELSE env
           host == IF local.domain = None THEN kept.host ELSE local.domain
<1>1. /\ pc = "write_env" /\ UNCHANGED <<files, xrayRun, cloud, creds>>
      /\ \/ /\ NoFault /\ marker' = FALSE /\ GoTo("hosts")
            /\ env' = [kept EXCEPT !.mode = local.mode, !.host = host]
         \/ Fault /\ env' \in {env, kept} /\ marker' \in {marker, FALSE} /\ Fail
  BY DEF WriteEnv, At
<1>2. NodeTypes /\ CloudTypes /\ RunTypes /\ local \in Locals
  BY TypeParts DEF IInv, RunTypes
<1>3. kept \in Envs /\ kept.tunnel = env.tunnel
  BY <1>2, BlankTypes DEF NodeTypes, Carried, Envs
<1>4. local.mode \in Modes /\ host \in Names
  BY <1>2, <1>3 DEF Locals, Envs
<1> HIDE DEF kept, host
<1>5. env' \in Envs /\ env'.tunnel = env.tunnel
  <2>1. CASE env' = [kept EXCEPT !.mode = local.mode, !.host = host]
    BY <1>3, <1>4, <2>1 DEF Envs
  <2>2. CASE env' \in {env, kept}
    BY <1>2, <1>3, <2>2 DEF NodeTypes
  <2>3. QED
    BY <1>1, <2>1, <2>2
<1>6. NodeTypes' /\ CloudTypes' /\ CountType'
  BY <1>1, <1>2, <1>5, FaultType DEF IInv, NodeTypes, CloudTypes, cloud
<1>7. CASE Fail
  BY <1>1, <1>5, <1>6, <1>7, FailInv DEF cloud
<1>8. CASE GoTo("hosts")
  <2>1. NamedInv' /\ RunInv' /\ RunTypes'
    BY <1>1, <1>5, <1>8, GoOnRun
       DEF cloud, Steps, AfterTunnel, AfterVpn, AfterAdmin, AfterXray,
           AfterCloudflared, AfterSave, AfterHy2, AfterUnits
  <2>2. StageInv'
    BY <1>1, <1>8
       DEF IInv, GoTo, cloud, StageInv, AfterCert, AfterTunnel, AfterVpn, AfterAdmin, AfterXray,
           AfterCloudflared, AfterSave, AfterHy2, AfterUnits
  <2>3. QED
    BY <1>6, <2>1, <2>2, TypePartsPrime DEF IInv
<1>9. QED
  BY <1>1, <1>7, <1>8

LEMMA ResolveHostsInv ==
    ASSUME IInv, ResolveHosts
    PROVE  IInv'
<1>1. /\ pc = "hosts" /\ UNCHANGED <<env, marker, files, xrayRun, cloud, creds>>
      /\ Fault \/ NoFault
      /\ \/ /\ local' = [local EXCEPT !.host = IF env.host = None THEN local.keys ELSE env.host]
            /\ pc' = "cert" /\ UNCHANGED offered
         \/ Fail
  BY DEF ResolveHosts, At
<1>2. NodeTypes /\ CloudTypes /\ RunTypes
  BY TypeParts DEF IInv
<1>3. NodeTypes' /\ CloudTypes' /\ CountType'
  BY <1>1, <1>2, FaultType DEF IInv, NodeTypes, CloudTypes, cloud
<1>4. CASE Fail
  BY <1>1, <1>3, <1>4, FailInv DEF cloud
<1>5. CASE /\ local' = [local EXCEPT !.host = IF env.host = None THEN local.keys ELSE env.host]
           /\ pc' = "cert" /\ UNCHANGED offered
  <2>1. local' \in Locals /\ local'.keys = local.keys /\ local'.tunnel = local.tunnel
    BY <1>2, <1>5 DEF NodeTypes, RunTypes, Locals, Envs
  <2>2. NamedInv' /\ RunInv' /\ RunTypes'
    BY <1>1, <1>2, <1>5, <2>1
       DEF IInv, NamedInv, RunInv, RunTypes, cloud, Steps, AfterTunnel, AfterVpn, AfterAdmin,
           AfterXray, AfterCloudflared, AfterSave, AfterHy2, AfterUnits
  <2>3. StageInv'
    BY <1>1, <1>5, <2>1
       DEF IInv, cloud, StageInv, AfterCert, AfterTunnel, AfterVpn, AfterAdmin, AfterXray,
           AfterCloudflared, AfterSave, AfterHy2, AfterUnits
  <2>4. QED
    BY <1>3, <2>2, <2>3, TypePartsPrime DEF IInv
<1>6. QED
  BY <1>1, <1>4, <1>5

LEMMA IssueCertInv ==
    ASSUME IInv, IssueCert
    PROVE  IInv'
<1> DEFINE issued == [files EXCEPT !.cert = local.host]
<1>1. /\ pc = "cert" /\ UNCHANGED <<env, marker, xrayRun, cloud, creds>>
      /\ Fault \/ NoFault
      /\ \/ files' = issued /\ GoTo("tunnel")
         \/ files' \in {files, issued} /\ Fail
  BY DEF IssueCert, At
<1>2. NodeTypes /\ CloudTypes /\ RunTypes
  BY TypeParts DEF IInv
<1>3. issued \in FileSets /\ issued.cert = local.host
  BY <1>2 DEF NodeTypes, RunTypes, Locals, FileSets
<1> HIDE DEF issued
<1>4. NodeTypes' /\ CloudTypes' /\ CountType'
  BY <1>1, <1>2, <1>3, FaultType DEF IInv, NodeTypes, CloudTypes, cloud
<1>5. CASE Fail
  BY <1>1, <1>4, <1>5, FailInv DEF cloud
<1>6. CASE files' = issued /\ GoTo("tunnel")
  <2>1. NamedInv' /\ RunInv' /\ RunTypes'
    BY <1>1, <1>6, GoOnRun
       DEF cloud, Steps, AfterTunnel, AfterVpn, AfterAdmin, AfterXray,
           AfterCloudflared, AfterSave, AfterHy2, AfterUnits
  <2>2. StageInv'
    BY <1>1, <1>3, <1>6
       DEF IInv, GoTo, cloud, StageInv, AfterCert, AfterTunnel, AfterVpn, AfterAdmin, AfterXray,
           AfterCloudflared, AfterSave, AfterHy2, AfterUnits
  <2>3. QED
    BY <1>4, <2>1, <2>2, TypePartsPrime DEF IInv
<1>7. QED
  BY <1>1, <1>5, <1>6

LEMMA ProvisionAdminTunnelInv ==
    ASSUME IInv, ProvisionAdminTunnel
    PROVE  IInv'
<1>1. pc = "tunnel" /\ UNCHANGED <<env, marker, files, xrayRun, dns>>
  BY DEF ProvisionAdminTunnel, At
<1>2. /\ NodeTypes /\ CloudTypes /\ RunTypes
      /\ local.keys \in Ids /\ local.keys \notin offered /\ ~local.reused
  BY <1>1, TypeParts
     DEF IInv, RunInv, RunTypes, Locals, Names, AfterTunnel, AfterVpn, AfterAdmin, AfterXray,
         AfterCloudflared, AfterSave, AfterHy2, AfterUnits
<1>3. CASE env.tunnel = None /\ CreateTunnel
  <2>1. CASE /\ tunnels' = {local.keys} /\ creds' = creds \cup {local.keys} /\ NoFault
             /\ local' = [local EXCEPT !.tunnel = local.keys]
             /\ pc' = "ip" /\ UNCHANGED offered
    <3>1. /\ local' \in Locals /\ local'.tunnel = local.keys /\ local'.keys = local.keys
          /\ local'.host = local.host /\ local'.reused = local.reused
      BY <1>2, <2>1, NameTypes DEF RunTypes, Locals
    <3>2. TypeOK'
      BY <1>1, <1>2, <2>1, <3>1, FaultType, TypePartsPrime
         DEF IInv, NodeTypes, CloudTypes, RunTypes, Steps
    <3>3. NamedInv'
      BY <1>1, <1>3 DEF NamedInv
    <3>4. RunInv'
      BY <1>1, <1>2, <1>3, <2>1, <3>1, NameTypes
         DEF RunInv, AfterTunnel, AfterVpn, AfterAdmin, AfterXray,
             AfterCloudflared, AfterSave, AfterHy2, AfterUnits
    <3>5. StageInv'
      BY <1>1, <2>1, <3>1
         DEF IInv, StageInv, AfterCert, AfterTunnel, AfterVpn, AfterAdmin, AfterXray,
             AfterCloudflared, AfterSave, AfterHy2, AfterUnits
    <3>6. QED
      BY <3>2, <3>3, <3>4, <3>5 DEF IInv
  <2>2. CASE /\ tunnels' \subseteq Ids /\ creds' \subseteq Ids /\ tunnels \subseteq tunnels'
             /\ (Fault \/ NoFault) /\ Fail
    <3>1. NodeTypes' /\ CloudTypes' /\ CountType'
      BY <1>1, <1>2, <2>2, FaultType DEF IInv, NodeTypes, CloudTypes
    <3>2. QED
      BY <1>1, <2>2, <3>1, FailInv
  <2>3. CASE /\ Fault /\ tunnels' = {local.keys} /\ creds' \in {creds, creds \cup {local.keys}}
             /\ offered' = offered \cup {local.keys} /\ Stop
    <3>1. TypeOK' /\ pc' = "idle" /\ local' = NoLocal
      BY <1>1, <1>2, <2>3, FaultType, TypePartsPrime, BlankTypes
         DEF IInv, NodeTypes, CloudTypes, RunTypes, Steps, Stop
    <3>2. NamedInv'
      BY <1>1, <1>3 DEF NamedInv
    <3>3. QED
      BY <3>1, <3>2, StopInv
  <2>4. QED
    BY <1>2, <1>3, <2>1, <2>2, <2>3 DEF CreateTunnel, CloudTypes
<1>4. CASE /\ env.tunnel \in creds /\ NoFault
           /\ local' = [local EXCEPT !.tunnel = env.tunnel, !.reused = TRUE]
           /\ pc' = "ip" /\ UNCHANGED <<offered, tunnels, creds>>
  <2>1. /\ local' \in Locals /\ local'.tunnel = env.tunnel /\ local'.keys = local.keys
        /\ local'.host = local.host /\ local'.reused
    BY <1>2, <1>4 DEF NodeTypes, Envs, RunTypes, Locals
  <2>2. env.tunnel \in tunnels /\ env.tunnel \notin offered
    BY <1>2, <1>4, NameTypes DEF CloudTypes, IInv, NamedInv
  <2>3. TypeOK'
    BY <1>1, <1>2, <1>4, <2>1, FaultType, TypePartsPrime
       DEF IInv, NodeTypes, CloudTypes, RunTypes, Steps
  <2>4. NamedInv' /\ RunInv'
    BY <1>1, <1>2, <1>4, <2>1, <2>2, NameTypes
       DEF NamedInv, RunInv, AfterTunnel, AfterVpn, AfterAdmin, AfterXray,
           AfterCloudflared, AfterSave, AfterHy2, AfterUnits
  <2>5. StageInv'
    BY <1>1, <1>4, <2>1
       DEF IInv, StageInv, AfterCert, AfterTunnel, AfterVpn, AfterAdmin, AfterXray,
           AfterCloudflared, AfterSave, AfterHy2, AfterUnits
  <2>6. QED
    BY <2>3, <2>4, <2>5 DEF IInv
<1>5. CASE NoFault /\ Fail /\ UNCHANGED <<tunnels, creds>>
  <2>1. NodeTypes' /\ CloudTypes' /\ CountType'
    BY <1>1, <1>2, <1>5, FaultType DEF IInv, NodeTypes, CloudTypes
  <2>2. QED
    BY <1>1, <1>5, <2>1, FailInv
<1>6. QED
  BY <1>3, <1>4, <1>5 DEF ProvisionAdminTunnel

LEMMA DetectIPInv ==
    ASSUME IInv, DetectIP
    PROVE  IInv'
<1>1. /\ pc = "ip" /\ UNCHANGED <<env, marker, files, xrayRun, cloud, creds>>
      /\ Fault \/ NoFault
      /\ GoTo("vpn_dns") \/ FailWithHint \/ Fail
  BY DEF DetectIP, At
<1>2. NodeTypes' /\ CloudTypes' /\ CountType'
  BY <1>1, TypeParts, FaultType DEF IInv, NodeTypes, CloudTypes, cloud
<1>3. CASE Fail
  BY <1>1, <1>2, <1>3, FailInv DEF cloud
<1>4. CASE FailWithHint
  BY <1>1, <1>2, <1>4, HintInv
     DEF cloud, AfterTunnel, AfterVpn, AfterAdmin, AfterXray, AfterCloudflared, AfterSave,
         AfterHy2, AfterUnits
<1>5. CASE GoTo("vpn_dns")
  <2>1. NamedInv' /\ RunInv' /\ RunTypes'
    BY <1>1, <1>5, GoOnRun
       DEF IInv, RunInv, cloud, Steps, AfterTunnel, AfterVpn, AfterAdmin, AfterXray,
           AfterCloudflared, AfterSave, AfterHy2, AfterUnits
  <2>2. StageInv'
    BY <1>1, <1>5
       DEF IInv, GoTo, cloud, StageInv, AfterCert, AfterTunnel, AfterVpn, AfterAdmin, AfterXray,
           AfterCloudflared, AfterSave, AfterHy2, AfterUnits
  <2>3. QED
    BY <1>2, <2>1, <2>2, TypePartsPrime DEF IInv
<1>6. QED
  BY <1>1, <1>3, <1>4, <1>5

LEMMA VpnRecordType ==
    ASSUME RunTypes
    PROVE  VpnRecord \in [type : {"A", "CNAME"}, host : Names, to : Names]
BY DEF RunTypes, VpnRecord, Locals

LEMMA ConfigureVpnDnsInv ==
    ASSUME IInv, ConfigureVpnDns
    PROVE  IInv'
<1> DEFINE upserted == [dns EXCEPT !.vpn = VpnRecord]
<1>1. /\ pc = "vpn_dns" /\ UNCHANGED <<env, marker, files, xrayRun, tunnels, creds>>
      /\ Fault \/ NoFault
      /\ \/ dns' = upserted /\ GoTo("admin_dns")
         \/ UNCHANGED dns /\ FailWithHint
         \/ dns' \in {dns, upserted} /\ Fail
  BY DEF ConfigureVpnDns, At
<1>2. NodeTypes /\ CloudTypes /\ RunTypes
  BY TypeParts DEF IInv
<1>3. upserted \in Records /\ upserted.vpn = VpnRecord
  BY <1>2, VpnRecordType DEF CloudTypes, Records
<1> HIDE DEF upserted
<1>4. NodeTypes' /\ CloudTypes' /\ CountType'
  BY <1>1, <1>2, <1>3, FaultType DEF IInv, NodeTypes, CloudTypes
<1>5. CASE Fail
  BY <1>1, <1>4, <1>5, FailInv
<1>6. CASE FailWithHint
  BY <1>1, <1>4, <1>6, HintInv
     DEF AfterTunnel, AfterVpn, AfterAdmin, AfterXray, AfterCloudflared, AfterSave,
         AfterHy2, AfterUnits
<1>7. CASE dns' = upserted /\ GoTo("admin_dns")
  <2>1. NamedInv' /\ RunInv' /\ RunTypes'
    BY <1>1, <1>7, GoOnRun
       DEF IInv, RunInv, Steps, AfterTunnel, AfterVpn, AfterAdmin, AfterXray,
           AfterCloudflared, AfterSave, AfterHy2, AfterUnits
  <2>2. VpnRecord' = VpnRecord
    BY <1>1, <1>7 DEF GoTo, VpnRecord
  <2>3. StageInv'
    BY <1>1, <1>3, <1>7, <2>2
       DEF IInv, GoTo, StageInv, AfterCert, AfterTunnel, AfterVpn, AfterAdmin, AfterXray,
           AfterCloudflared, AfterSave, AfterHy2, AfterUnits
  <2>4. QED
    BY <1>4, <2>1, <2>3, TypePartsPrime DEF IInv
<1>8. QED
  BY <1>1, <1>5, <1>6, <1>7

LEMMA ConfigureAdminDnsInv ==
    ASSUME IInv, ConfigureAdminDns
    PROVE  IInv'
<1> DEFINE upserted == [dns EXCEPT !.admin = local.tunnel]
<1>1. /\ pc = "admin_dns" /\ UNCHANGED <<env, marker, files, xrayRun, tunnels, creds>>
      /\ Fault \/ NoFault
      /\ \/ dns' = upserted /\ GoTo("xray")
         \/ UNCHANGED dns /\ FailWithHint
         \/ dns' \in {dns, upserted} /\ Fail
  BY DEF ConfigureAdminDns, At
<1>2. NodeTypes /\ CloudTypes /\ RunTypes
  BY TypeParts DEF IInv
<1>3. upserted \in Records /\ upserted.admin = local.tunnel /\ upserted.vpn = dns.vpn
  BY <1>2 DEF CloudTypes, Records, RunTypes, Locals
<1> HIDE DEF upserted
<1>4. NodeTypes' /\ CloudTypes' /\ CountType'
  BY <1>1, <1>2, <1>3, FaultType DEF IInv, NodeTypes, CloudTypes
<1>5. CASE Fail
  BY <1>1, <1>4, <1>5, FailInv
<1>6. CASE FailWithHint
  BY <1>1, <1>4, <1>6, HintInv
     DEF AfterTunnel, AfterVpn, AfterAdmin, AfterXray, AfterCloudflared, AfterSave,
         AfterHy2, AfterUnits
<1>7. CASE dns' = upserted /\ GoTo("xray")
  <2>1. NamedInv' /\ RunInv' /\ RunTypes'
    BY <1>1, <1>7, GoOnRun
       DEF IInv, RunInv, Steps, AfterTunnel, AfterVpn, AfterAdmin, AfterXray,
           AfterCloudflared, AfterSave, AfterHy2, AfterUnits
  <2>2. VpnRecord' = VpnRecord
    BY <1>1, <1>7 DEF GoTo, VpnRecord
  <2>3. StageInv'
    BY <1>1, <1>3, <1>7, <2>2
       DEF IInv, GoTo, StageInv, AfterCert, AfterTunnel, AfterVpn, AfterAdmin, AfterXray,
           AfterCloudflared, AfterSave, AfterHy2, AfterUnits
  <2>4. QED
    BY <1>4, <2>1, <2>3, TypePartsPrime DEF IInv
<1>8. QED
  BY <1>1, <1>5, <1>6, <1>7

LEMMA WriteXrayConfigInv ==
    ASSUME IInv, WriteXrayConfig
    PROVE  IInv'
<1> DEFINE written == [files EXCEPT !.xray = [mode |-> env.mode, id |-> local.keys]]
<1>1. /\ pc = "xray" /\ UNCHANGED <<env, marker, xrayRun, cloud, creds>>
      /\ Fault \/ NoFault
      /\ \/ files' = written /\ GoTo("cloudflared")
         \/ UNCHANGED files /\ Fail
  BY DEF WriteXrayConfig, At
<1>2. NodeTypes /\ CloudTypes /\ RunTypes
  BY TypeParts DEF IInv
<1>3. /\ written \in FileSets /\ written.cert = files.cert
      /\ written.xray = [mode |-> env.mode, id |-> local.keys]
  BY <1>2 DEF NodeTypes, RunTypes, Envs, Locals, FileSets, Xray
<1> HIDE DEF written
<1>4. NodeTypes' /\ CloudTypes' /\ CountType'
  BY <1>1, <1>2, <1>3, FaultType DEF IInv, NodeTypes, CloudTypes, cloud
<1>5. CASE Fail
  BY <1>1, <1>4, <1>5, FailInv DEF cloud
<1>6. CASE files' = written /\ GoTo("cloudflared")
  <2>1. NamedInv' /\ RunInv' /\ RunTypes'
    BY <1>1, <1>6, GoOnRun
       DEF cloud, IInv, RunInv, Steps, AfterTunnel, AfterVpn, AfterAdmin, AfterXray,
           AfterCloudflared, AfterSave, AfterHy2, AfterUnits
  <2>2. VpnRecord' = VpnRecord
    BY <1>1, <1>6 DEF GoTo, VpnRecord
  <2>3. StageInv'
    BY <1>1, <1>3, <1>6, <2>2
       DEF cloud, IInv, GoTo, StageInv, AfterCert, AfterTunnel, AfterVpn, AfterAdmin, AfterXray,
           AfterCloudflared, AfterSave, AfterHy2, AfterUnits
  <2>4. QED
    BY <1>4, <2>1, <2>3, TypePartsPrime DEF IInv
<1>7. QED
  BY <1>1, <1>5, <1>6

LEMMA WriteCloudflaredConfigInv ==
    ASSUME IInv, WriteCloudflaredConfig
    PROVE  IInv'
<1> DEFINE written == [files EXCEPT !.cloudflared = local.tunnel]
<1>1. /\ pc = "cloudflared" /\ UNCHANGED <<env, marker, xrayRun, cloud, creds>>
      /\ Fault \/ NoFault
      /\ \/ files' = written /\ GoTo("save_env")
         \/ files' \in {files, written} /\ Fail
  BY DEF WriteCloudflaredConfig, At
<1>2. NodeTypes /\ CloudTypes /\ RunTypes
  BY TypeParts DEF IInv
<1>3. /\ written \in FileSets /\ written.cert = files.cert /\ written.xray = files.xray
      /\ written.cloudflared = local.tunnel
  BY <1>2 DEF NodeTypes, RunTypes, Locals, FileSets
<1> HIDE DEF written
<1>4. NodeTypes' /\ CloudTypes' /\ CountType'
  BY <1>1, <1>2, <1>3, FaultType DEF IInv, NodeTypes, CloudTypes, cloud
<1>5. CASE Fail
  BY <1>1, <1>4, <1>5, FailInv DEF cloud
<1>6. CASE files' = written /\ GoTo("save_env")
  <2>1. NamedInv' /\ RunInv' /\ RunTypes'
    BY <1>1, <1>6, GoOnRun
       DEF cloud, IInv, RunInv, Steps, AfterTunnel, AfterVpn, AfterAdmin, AfterXray,
           AfterCloudflared, AfterSave, AfterHy2, AfterUnits
  <2>2. VpnRecord' = VpnRecord
    BY <1>1, <1>6 DEF GoTo, VpnRecord
  <2>3. StageInv'
    BY <1>1, <1>3, <1>6, <2>2
       DEF cloud, IInv, GoTo, StageInv, AfterCert, AfterTunnel, AfterVpn, AfterAdmin, AfterXray,
           AfterCloudflared, AfterSave, AfterHy2, AfterUnits
  <2>4. QED
    BY <1>4, <2>1, <2>3, TypePartsPrime DEF IInv
<1>7. QED
  BY <1>1, <1>5, <1>6

LEMMA SaveEnvInv ==
    ASSUME IInv, SaveEnv
    PROVE  IInv'
<1> DEFINE saved == [env EXCEPT !.host = local.host, !.keys = local.keys,
                                !.tunnel = local.tunnel, !.reality = @ \/ env.mode = "direct"]
<1>1. /\ pc = "save_env" /\ UNCHANGED <<marker, files, xrayRun, cloud, creds>>
      /\ Fault \/ NoFault
      /\ \/ env' = saved /\ GoTo("hy2_dns")
         \/ env' \in {env, saved} /\ Fail
  BY DEF SaveEnv, At
<1>2. NodeTypes /\ CloudTypes /\ RunTypes
  BY TypeParts DEF IInv
<1>3. /\ saved \in Envs /\ saved.host = local.host /\ saved.keys = local.keys
      /\ saved.tunnel = local.tunnel /\ saved.mode = env.mode
  BY <1>2 DEF NodeTypes, RunTypes, Locals, Envs
<1> HIDE DEF saved
<1>4. NodeTypes' /\ CloudTypes' /\ CountType'
  BY <1>1, <1>2, <1>3, FaultType DEF IInv, NodeTypes, CloudTypes, cloud
<1>5. CASE Fail
  <2>1. env'.tunnel = env.tunnel \/ env'.tunnel = local.tunnel
    BY <1>1, <1>3
  <2>2. pc \in AfterTunnel
    BY <1>1 DEF AfterTunnel, AfterVpn, AfterAdmin, AfterXray, AfterCloudflared
  <2>3. QED
    BY <1>1, <1>4, <1>5, <2>1, <2>2, FailInv DEF cloud
<1>6. CASE env' = saved /\ GoTo("hy2_dns")
  <2>1. NamedInv' /\ RunInv' /\ RunTypes'
    BY <1>1, <1>3, <1>6, GoOnRun
       DEF cloud, Steps, AfterTunnel, AfterVpn, AfterAdmin, AfterXray,
           AfterCloudflared, AfterSave, AfterHy2, AfterUnits
  <2>2. VpnRecord' = VpnRecord
    BY <1>1, <1>3, <1>6 DEF GoTo, VpnRecord
  <2>3. StageInv'
    BY <1>1, <1>3, <1>6, <2>2
       DEF cloud, IInv, GoTo, StageInv, AfterCert, AfterTunnel, AfterVpn, AfterAdmin, AfterXray,
           AfterCloudflared, AfterSave, AfterHy2, AfterUnits
  <2>4. QED
    BY <1>4, <2>1, <2>3, TypePartsPrime DEF IInv
<1>7. QED
  BY <1>1, <1>5, <1>6

LEMMA ConfigureHy2DnsInv ==
    ASSUME IInv, ConfigureHy2Dns
    PROVE  IInv'
<1> DEFINE upserted == [dns EXCEPT !.hy2 = local.host]
<1>1. /\ pc = "hy2_dns" /\ UNCHANGED <<env, marker, files, xrayRun, tunnels, creds>>
      /\ Fault \/ NoFault
      /\ \/ dns' = upserted /\ GoTo("units")
         \/ dns' \in {dns, upserted} /\ Fail
  BY DEF ConfigureHy2Dns, At
<1>2. NodeTypes /\ CloudTypes /\ RunTypes
  BY TypeParts DEF IInv
<1>3. /\ upserted \in Records /\ upserted.admin = dns.admin /\ upserted.vpn = dns.vpn
      /\ upserted.hy2 = local.host
  BY <1>2 DEF CloudTypes, Records, RunTypes, Locals
<1> HIDE DEF upserted
<1>4. NodeTypes' /\ CloudTypes' /\ CountType'
  BY <1>1, <1>2, <1>3, FaultType DEF IInv, NodeTypes, CloudTypes
<1>5. CASE Fail
  BY <1>1, <1>4, <1>5, FailInv
<1>6. CASE dns' = upserted /\ GoTo("units")
  <2>1. NamedInv' /\ RunInv' /\ RunTypes'
    BY <1>1, <1>6, GoOnRun
       DEF IInv, RunInv, Steps, AfterTunnel, AfterVpn, AfterAdmin, AfterXray,
           AfterCloudflared, AfterSave, AfterHy2, AfterUnits
  <2>2. VpnRecord' = VpnRecord
    BY <1>1, <1>6 DEF GoTo, VpnRecord
  <2>3. StageInv'
    BY <1>1, <1>3, <1>6, <2>2
       DEF IInv, GoTo, StageInv, AfterCert, AfterTunnel, AfterVpn, AfterAdmin, AfterXray,
           AfterCloudflared, AfterSave, AfterHy2, AfterUnits
  <2>4. QED
    BY <1>4, <2>1, <2>3, TypePartsPrime DEF IInv
<1>7. QED
  BY <1>1, <1>5, <1>6

LEMMA InstallSystemdUnitsInv ==
    ASSUME IInv, InstallSystemdUnits
    PROVE  IInv'
<1> DEFINE started == IF xrayRun.id = None THEN files.xray ELSE xrayRun
<1>1. /\ pc = "units" /\ UNCHANGED <<env, marker, files, cloud, creds>>
      /\ Fault \/ NoFault
      /\ \/ xrayRun' = started /\ GoTo("mark")
         \/ xrayRun' \in {xrayRun, started} /\ Fail
  BY DEF InstallSystemdUnits, At
<1>2. NodeTypes /\ CloudTypes /\ RunTypes
  BY TypeParts DEF IInv
<1>3. started \in Xray /\ (started = files.xray \/ started = xrayRun)
  BY <1>2 DEF NodeTypes, FileSets
<1>4. started.id # None
  <2>1. local.keys # None /\ files.xray.id = local.keys
    BY <1>1 DEF IInv, RunInv, StageInv, AfterXray, AfterCloudflared, AfterSave, AfterHy2
  <2>2. QED
    BY <2>1
<1> HIDE DEF started
<1>5. NodeTypes' /\ CloudTypes' /\ CountType'
  BY <1>1, <1>2, <1>3, FaultType DEF IInv, NodeTypes, CloudTypes, cloud
<1>6. CASE Fail
  BY <1>1, <1>5, <1>6, FailInv DEF cloud
<1>7. CASE xrayRun' = started /\ GoTo("mark")
  <2>1. NamedInv' /\ RunInv' /\ RunTypes'
    BY <1>1, <1>7, GoOnRun
       DEF cloud, IInv, RunInv, Steps, AfterTunnel, AfterVpn, AfterAdmin, AfterXray,
           AfterCloudflared, AfterSave, AfterHy2, AfterUnits
  <2>2. VpnRecord' = VpnRecord
    BY <1>1, <1>7 DEF GoTo, VpnRecord
  <2>3. StageInv'
    BY <1>1, <1>3, <1>4, <1>7, <2>2
       DEF cloud, IInv, GoTo, StageInv, AfterCert, AfterTunnel, AfterVpn, AfterAdmin, AfterXray,
           AfterCloudflared, AfterSave, AfterHy2, AfterUnits
  <2>4. QED
    BY <1>5, <2>1, <2>3, TypePartsPrime DEF IInv
<1>8. QED
  BY <1>1, <1>6, <1>7

LEMMA MarkInstalledInv ==
    ASSUME IInv, MarkInstalled
    PROVE  IInv'
<1>1. /\ pc = "mark" /\ UNCHANGED <<env, files, xrayRun, cloud, creds>>
      /\ Fault \/ NoFault
      /\ marker' \in {marker, TRUE}
      /\ Fail
  BY DEF MarkInstalled, At, Fail, ListAdminTunnels
<1>2. NodeTypes' /\ CloudTypes' /\ CountType'
  BY <1>1, TypeParts, FaultType DEF IInv, NodeTypes, CloudTypes, cloud
<1>3. QED
  BY <1>1, <1>2, FailInv DEF cloud

-----------------------------------------------------------------------------
(* The operator, and a run that is killed.                                 *)

LEMMA RunRotateCleanupInv ==
    ASSUME IInv, NEW t \in Ids, RunRotateCleanup(t)
    PROVE  IInv'
<1>1. /\ t \in offered /\ UNCHANGED <<env, marker, files, xrayRun, dns, pc, local>>
      /\ Fault \/ NoFault
      /\ tunnels' \in {tunnels, tunnels \ {t}} /\ creds' \in {creds, creds \ {t}}
      /\ offered' \in {offered, offered \ {t}}
  BY DEF RunRotateCleanup
<1>2. NodeTypes /\ CloudTypes /\ RunTypes
  BY TypeParts DEF IInv
<1>3. TypeOK'
  BY <1>1, <1>2, FaultType, TypePartsPrime DEF IInv, NodeTypes, CloudTypes, RunTypes
<1>4. env.tunnel # t /\ local.tunnel # t
  BY <1>1, NameTypes DEF IInv, NamedInv, RunInv
<1>5. NamedInv' /\ RunInv'
  BY <1>1, <1>4 DEF IInv, NamedInv, RunInv
<1>6. StageInv'
  BY <1>1 DEF IInv, StageInv, VpnRecord
<1>7. QED
  BY <1>3, <1>5, <1>6 DEF IInv

LEMMA ClearTunnelInv ==
    ASSUME IInv, ClearTunnel
    PROVE  IInv'
<1>1. /\ pc = "idle" /\ env.tunnel # None /\ env' = [env EXCEPT !.tunnel = None]
      /\ offered' = offered \cup {env.tunnel}
      /\ NoFault /\ UNCHANGED <<marker, files, xrayRun, cloud, creds, pc, local>>
  BY DEF ClearTunnel, At
<1>2. NodeTypes /\ CloudTypes /\ RunTypes
  BY TypeParts DEF IInv
<1>3. env' \in Envs /\ env'.tunnel = None
  BY <1>1, <1>2, NameTypes DEF NodeTypes, Envs
<1>4. env.tunnel \in Ids
  BY <1>1, <1>2 DEF NodeTypes, Envs, Names
<1>5. TypeOK'
  BY <1>1, <1>2, <1>3, <1>4, FaultType, TypePartsPrime
     DEF IInv, NodeTypes, CloudTypes, RunTypes, cloud
<1>6. NamedInv'
  BY <1>3 DEF NamedInv
<1>7. pc' = "idle" /\ local' = NoLocal
  BY <1>1 DEF IInv, RunInv
<1>8. QED
  BY <1>5, <1>6, <1>7, StopInv

LEMMA KillInv ==
    ASSUME IInv, Kill
    PROVE  IInv'
<1>1. /\ Fault /\ Fail /\ UNCHANGED <<env, marker, files, cloud, creds>>
      /\ xrayRun' \in {xrayRun, files.xray}
  BY DEF Kill
<1>2. NodeTypes' /\ CloudTypes' /\ CountType'
  BY <1>1, TypeParts, FaultType DEF IInv, NodeTypes, CloudTypes, FileSets, cloud
<1>3. QED
  BY <1>1, <1>2, FailInv DEF cloud

LEMMA NextIInv == IInv /\ [Next]_vars => IInv'
<1>1. SUFFICES ASSUME IInv, [Next]_vars PROVE IInv'
  OBVIOUS
<1>2. CASE UNCHANGED vars
  BY <1>1, <1>2
     DEF vars, cloud, IInv, TypeOK, NamedInv, RunInv, StageInv, VpnRecord
<1>3. ASSUME NEW force \in BOOLEAN, NEW mode \in Modes, NEW domain \in {None, Old},
             Start(force, mode, domain)
      PROVE  IInv'
  BY <1>1, <1>3, StartInv
<1>4. CASE Install
  BY <1>1, <1>4, WriteEnvInv, ResolveHostsInv, IssueCertInv, ProvisionAdminTunnelInv,
     DetectIPInv, ConfigureVpnDnsInv, ConfigureAdminDnsInv, WriteXrayConfigInv,
     WriteCloudflaredConfigInv, SaveEnvInv, ConfigureHy2DnsInv, InstallSystemdUnitsInv,
     MarkInstalledInv
     DEF Install
<1>5. ASSUME NEW t \in Ids, RunRotateCleanup(t) PROVE IInv'
  BY <1>1, <1>5, RunRotateCleanupInv
<1>6. QED
  BY <1>1, <1>2, <1>3, <1>4, <1>5, ClearTunnelInv, KillInv DEF Next

LEMMA InitIInv == Init => IInv
<1>1. SUFFICES ASSUME Init PROVE IInv
  OBVIOUS
<1>2. {None, Old} \subseteq Names /\ Old \in Ids
  BY BoundsAssumption, NameTypes DEF Old, Ids
<1>3. NodeTypes /\ CloudTypes
  <2>1. CASE /\ env = NoEnv /\ marker = FALSE /\ tunnels = {} /\ creds = {}
             /\ files = [xray |-> Blank, cloudflared |-> None, cert |-> None]
             /\ xrayRun = Blank
             /\ dns = [vpn |-> [type |-> "CNAME", host |-> None, to |-> None],
                       admin |-> None, hy2 |-> None]
    BY <1>2, <2>1, BlankTypes DEF NodeTypes, CloudTypes, FileSets, Records
  <2>2. ASSUME NEW mode \in Modes, NEW off \in BOOLEAN,
               /\ env = [mode |-> mode, host |-> Old, hy2Off |-> off,
                         keys |-> Old, reality |-> mode = "direct", tunnel |-> Old]
               /\ marker \in BOOLEAN /\ tunnels = {Old} /\ creds \in {{}, {Old}}
               /\ files = [xray |-> [mode |-> mode, id |-> Old], cloudflared |-> Old, cert |-> Old]
               /\ xrayRun = files.xray
               /\ dns = [vpn |-> [type |-> IF mode = "direct" THEN "A" ELSE "CNAME",
                                  host |-> Old, to |-> Old],
                         admin |-> Old, hy2 |-> Old]
        PROVE  NodeTypes /\ CloudTypes
    <3>1. (mode = "direct") \in BOOLEAN
      OBVIOUS
    <3>2. env \in Envs
      BY <1>2, <2>2, <3>1 DEF Envs
    <3>3. [mode |-> mode, id |-> Old] \in Xray
      BY <1>2 DEF Xray
    <3>4. files \in FileSets /\ xrayRun \in Xray
      BY <1>2, <2>2, <3>3 DEF FileSets
    <3>5. dns \in Records
      BY <1>2, <2>2 DEF Records
    <3>6. QED
      BY <1>2, <2>2, <3>2, <3>4, <3>5 DEF NodeTypes, CloudTypes
  <2>3. QED
    BY <1>1, <2>1, <2>2 DEF Init
<1>4. TypeOK
  BY <1>1, <1>3, BlankTypes, BoundsAssumption, TypeParts DEF Init, RunTypes, Steps, CountType
<1>5. NamedInv
  BY <1>1 DEF Init, NamedInv, NoEnv
<1>6. RunInv /\ StageInv
  BY <1>1
     DEF Init, RunInv, StageInv, NoLocal, AfterCert, AfterTunnel, AfterVpn, AfterAdmin,
         AfterXray, AfterCloudflared, AfterSave, AfterHy2, AfterUnits
<1>7. QED
  BY <1>4, <1>5, <1>6 DEF IInv

LEMMA Invariance == Spec => []IInv
BY InitIInv, NextIInv, PTL DEF Spec

\* The variables keep their types, however often the installation fails and is
\* run again (internal/commands/install.go and scripts/install-node.sh).
THEOREM InstallTypeCorrect == Spec => []TypeOK
<1>1. IInv => TypeOK
  BY DEF IInv
<1>2. QED
  BY <1>1, Invariance, PTL

\* The tunnel that cfvpn.env names stays in Cloudflare, and its credentials on the
\* disk, whatever fails and however late somebody follows a hint to clean up:
\* RunInstall offers only a tunnel that its own run has created, and a run that
\* has saved cfvpn.env offers none (internal/commands/install.go: hint, and
\* RunRotateCleanup in internal/commands/rotate.go).
THEOREM NamedTunnelStays == Spec => NamedTunnelIsKept
<1> DEFINE Kept == env.tunnel # None =>
                     /\ env.tunnel \in tunnels'
                     /\ env.tunnel \in creds => env.tunnel \in creds'
<1>1. IInv /\ [Next]_vars => [Kept]_vars
  <2>1. SUFFICES ASSUME IInv, Next, env.tunnel # None
                 PROVE  /\ env.tunnel \in tunnels'
                        /\ env.tunnel \in creds => env.tunnel \in creds'
    OBVIOUS
  <2>2. env.tunnel \in tunnels /\ env.tunnel \notin offered
    BY <2>1 DEF IInv, NamedInv
  <2>3. CASE UNCHANGED <<tunnels, creds>>
    BY <2>2, <2>3
  <2>4. CASE ProvisionAdminTunnel
    BY <2>1, <2>2, <2>4 DEF ProvisionAdminTunnel
  <2>5. ASSUME NEW t \in Ids, RunRotateCleanup(t)
        PROVE  env.tunnel \in tunnels' /\ (env.tunnel \in creds => env.tunnel \in creds')
    BY <2>2, <2>5 DEF RunRotateCleanup
  <2>6. QED
    BY <2>1, <2>3, <2>4, <2>5
       DEF Next, Start, Install, WriteEnv, ResolveHosts, IssueCert, DetectIP, ConfigureVpnDns,
           ConfigureAdminDns, WriteXrayConfig, WriteCloudflaredConfig, SaveEnv,
           ConfigureHy2Dns, InstallSystemdUnits, MarkInstalled, ClearTunnel, Kill, cloud
<1>2. QED
  BY <1>1, Invariance, PTL DEF Spec, NamedTunnelIsKept

\* A run that ends well has put in place what cfvpn.env says, whatever earlier runs
\* have left: every step of RunInstall overwrites what it answers for, and what the
\* run goes by is used by nobody else (internal/commands/install.go, RunInstall;
\* scripts/lib/cfvpn-env-file.sh, mark-installed).
THEOREM OkAgreesWithItself == Spec => OkMeansInstalled
<1> DEFINE Installed ==
      ~marker /\ marker' =>
         /\ files.xray = [mode |-> env.mode, id |-> env.keys]
         /\ {files.cert, dns.hy2, dns.vpn.host} = {env.host}
         /\ {files.cloudflared, dns.admin} = {env.tunnel}
         /\ dns.vpn = VpnRecord
         /\ env.tunnel \in tunnels \cap creds
         /\ xrayRun.id # None
         /\ xrayRun = files.xray \/ xrayRun.id # env.keys
<1>1. IInv /\ [Next]_vars => [Installed]_vars
  <2>1. SUFFICES ASSUME IInv, Next, ~marker, marker' PROVE Installed
    OBVIOUS
  <2>2. MarkInstalled
    BY <2>1
       DEF Next, Start, Install, WriteEnv, ResolveHosts, IssueCert, ProvisionAdminTunnel,
           DetectIP, ConfigureVpnDns, ConfigureAdminDns, WriteXrayConfig,
           WriteCloudflaredConfig, SaveEnv, ConfigureHy2Dns, InstallSystemdUnits,
           RunRotateCleanup, ClearTunnel, Kill
  <2>3. pc = "mark"
    BY <2>2 DEF MarkInstalled, At
  <2>4. /\ local.tunnel \in tunnels \cap creds /\ env.tunnel = local.tunnel
        /\ xrayRun.id # None
        /\ xrayRun.id # local.keys \/ xrayRun = files.xray
        /\ files.cert = local.host /\ dns.vpn = VpnRecord /\ dns.admin = local.tunnel
        /\ files.xray = [mode |-> env.mode, id |-> local.keys]
        /\ files.cloudflared = local.tunnel
        /\ env.host = local.host /\ env.keys = local.keys /\ dns.hy2 = local.host
    BY <2>1, <2>3
       DEF IInv, RunInv, StageInv, AfterCert, AfterTunnel, AfterVpn, AfterAdmin, AfterXray,
           AfterCloudflared, AfterSave, AfterHy2, AfterUnits
  <2>5. dns.vpn.host = env.host
    BY <2>4 DEF VpnRecord
  <2>6. QED
    BY <2>4, <2>5
<1>2. QED
  BY <1>1, Invariance, PTL DEF Spec, OkMeansInstalled
=============================================================================
