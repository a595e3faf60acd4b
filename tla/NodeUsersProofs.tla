-------------------------- MODULE NodeUsersProofs --------------------------
(***************************************************************************)
(* Theorems about NodeUsers, for any users, inbounds, requests, limit and  *)
(* number of failures.                                                     *)
(***************************************************************************)
EXTENDS NodeUsers, FiniteSetTheorems, TLAPS

\* The steps that use what `Load` planned.
Working == Holding \ {"loading"}

\* A request that asks for the lock or holds it has been read, and one that has
\* passed Load has planned what to write.
ReadyInv ==
    \A p \in Ops :
        /\ pc[p] \in Holding \cup {"waiting"} => req[p] \in Request
        /\ pc[p] \in Working => local[p] \in Locals

TypeInv == TypeOK /\ ReadyInv

LEMMA RequestKinds ==
    ASSUME NEW r \in Request
    PROVE  /\ r.kind \in AgentKinds \cup CliKinds
           /\ r.kind # "agent_sync" => r.user \in Users
           /\ r.kind = "agent_sync" => r.users \in SUBSET Users
BY DEF Request, SyncRequest, UserRequest, AgentKinds, CliKinds

LEMMA InitTypeInv == Init => TypeInv
<1>1. SUFFICES ASSUME Init PROVE TypeInv
  OBVIOUS
<1>2. PICK m \in [Users -> {PanelCred, NoCred}] :
        /\ xray = Rendered(m)
        /\ \/ hy = m /\ hyRun \in {m, NoUnit}
           \/ hy = Nobody /\ hyRun = NoFile
        /\ subs = [u \in Users |-> [x |-> m[u], h |-> ServedHy[u]]]
  BY <1>1 DEF Init
<1>3. m \in HyConfig /\ Nobody \in HyConfig
  BY DEF HyConfig, Nobody, Cred
<1>4. hy \in HyConfig /\ hyRun \in HyConfig \cup {Down, NoUnit, NoFile}
  BY <1>2, <1>3
<1>5. xray \in XrayConfig
  BY <1>2, <1>3 DEF Rendered, XrayConfig, HyConfig
<1>6. subs \in [Users -> [x : Cred, h : Cred]]
  <2>1. ServedHy \in HyConfig
    BY <1>3, <1>4 DEF ServedHy
  <2>2. QED
    BY <1>2, <1>3, <2>1 DEF HyConfig
<1>7. QED
  BY <1>1, <1>4, <1>5, <1>6, BoundsAssumption
     DEF Init, TypeInv, TypeOK, ReadyInv, Steps, Holding, Replies, Working

LEMMA GoToType ==
    ASSUME TypeOK, NEW p \in Ops, NEW step \in Steps, GoTo(p, step)
    PROVE  /\ pc' \in [Ops -> Steps] /\ pc' = [pc EXCEPT ![p] = step]
           /\ reply' \in [Ops -> Replies]
           /\ local' \in [Ops -> Locals \cup {None}] /\ local' = local
           /\ lock' \in Ops \cup {None} /\ lock' = lock
BY DEF GoTo, TypeOK

LEMMA ReturnType ==
    ASSUME TypeOK, NEW p \in Ops, NEW answer \in Replies, Return(p, answer)
    PROVE  /\ pc' \in [Ops -> Steps] /\ pc' = [pc EXCEPT ![p] = "done"]
           /\ reply' \in [Ops -> Replies]
           /\ local' \in [Ops -> Locals \cup {None}]
           /\ local' = [local EXCEPT ![p] = None]
           /\ lock' \in Ops \cup {None} /\ lock' = None
BY DEF Return, TypeOK, Steps

LEMMA PlanType ==
    ASSUME TypeOK, NEW p \in Ops, NEW step \in Working,
           NEW newX \in XrayConfig, NEW newH \in HyConfig, Plan(p, newX, newH, step)
    PROVE  /\ pc' \in [Ops -> Steps] /\ pc' = [pc EXCEPT ![p] = step]
           /\ reply' \in [Ops -> Replies]
           /\ local' \in [Ops -> Locals \cup {None}]
           /\ local' = [local EXCEPT ![p] = [oldX |-> xray, oldH |-> hy,
                                             newX |-> newX, newH |-> newH]]
           /\ local'[p] \in Locals
           /\ lock' \in Ops \cup {None} /\ lock' = lock
BY DEF Plan, TypeOK, Steps, Locals, Working

LEMMA FaultType ==
    ASSUME TypeOK, Fault \/ NoFault
    PROVE  faults' \in 0..MaxFaults
BY BoundsAssumption DEF TypeOK, Fault, NoFault

-----------------------------------------------------------------------------
(* What Load plans is well typed.                                          *)

LEMMA PlanAgentAddType ==
    ASSUME TypeInv, NEW p \in Ops, At(p, "loading"), PlanAgentAdd(p)
    PROVE  \/ \E x \in XrayConfig, h \in HyConfig : Plan(p, x, h, "write_xray")
           \/ Return(p, "limit")
<1> DEFINE u == req[p].user
           known == u \in Names(xray[Main])
           uuids == [xray[Main] EXCEPT ![u] = IF known THEN @ ELSE p]
           pws == [SyncPasswords(p) EXCEPT ![u] = IF known THEN @ ELSE p]
<1>1. xray[Main] \in [Users -> Cred]
  BY MainAssumption DEF TypeInv, TypeOK, XrayConfig
<1>2. SyncPasswords(p) \in HyConfig
  BY <1>1 DEF SyncPasswords, TypeInv, TypeOK, HyConfig, Cred
<1>3. uuids \in [Users -> Cred]
  BY <1>1 DEF Cred
<1>4. Rendered(uuids) \in XrayConfig
  BY <1>3 DEF Rendered, XrayConfig
<1>5. pws \in HyConfig
  BY <1>2 DEF HyConfig, Cred
<1>6. Plan(p, Rendered(uuids), pws, "write_xray") \/ Return(p, "limit")
  BY DEF PlanAgentAdd
<1>7. QED
  BY <1>4, <1>5, <1>6

LEMMA PlanAgentDeleteType ==
    ASSUME TypeInv, NEW p \in Ops, PlanAgentDelete(p)
    PROVE  \/ \E x \in XrayConfig, h \in HyConfig : Plan(p, x, h, "write_xray")
           \/ Return(p, "notfound")
<1> DEFINE u == req[p].user
           uuids == [xray[Main] EXCEPT ![u] = NoCred]
           pws == [SyncPasswords(p) EXCEPT ![u] = NoCred]
<1>1. xray[Main] \in [Users -> Cred]
  BY MainAssumption DEF TypeInv, TypeOK, XrayConfig
<1>2. pws \in HyConfig
  BY <1>1 DEF SyncPasswords, TypeInv, TypeOK, HyConfig, Cred
<1>3. Rendered(uuids) \in XrayConfig
  BY <1>1 DEF Rendered, XrayConfig, Cred
<1>4. Plan(p, Rendered(uuids), pws, "write_xray") \/ Return(p, "notfound")
  BY DEF PlanAgentDelete
<1>5. QED
  BY <1>2, <1>3, <1>4

LEMMA PlanAgentSyncType ==
    ASSUME TypeInv, NEW p \in Ops, PlanAgentSync(p)
    PROVE  /\ \/ \E x \in XrayConfig, h \in HyConfig : Plan(p, x, h, "write_xray")
              \/ Return(p, "empty")
           /\ Fault \/ NoFault
<1> DEFINE m == [u \in Users |-> IF u \in req[p].users THEN PanelCred ELSE NoCred]
<1>1. m \in HyConfig /\ Rendered(m) \in XrayConfig
  BY DEF HyConfig, XrayConfig, Rendered, Cred
<1>2. Plan(p, Rendered(m), m, "write_xray") \/ Return(p, "empty")
  BY DEF PlanAgentSync
<1>3. QED
  BY <1>1, <1>2 DEF PlanAgentSync

LEMMA PlanCliAddType ==
    ASSUME TypeInv, NEW p \in Ops, PlanCliAdd(p)
    PROVE  \/ \E x \in XrayConfig, h \in HyConfig, step \in {"write_xray", "write_hy"} :
                 Plan(p, x, h, step)
           \/ Return(p, "limit")
           \/ Return(p, "exists")
<1> DEFINE u == req[p].user
           x == [xray EXCEPT ![Main][u] = p]
           h == [hy EXCEPT ![u] = p]
<1>1. x \in XrayConfig
  BY MainAssumption DEF TypeInv, TypeOK, XrayConfig, Cred
<1>2. h \in HyConfig /\ hy \in HyConfig
  BY DEF TypeInv, TypeOK, HyConfig, Cred
<1>3. \/ Return(p, "limit") \/ Return(p, "exists")
      \/ Plan(p, x, hy, "write_xray") \/ Plan(p, x, h, "write_hy")
  BY DEF PlanCliAdd
<1>4. QED
  BY <1>1, <1>2, <1>3

LEMMA PlanCliRemoveType ==
    ASSUME TypeInv, NEW p \in Ops, PlanCliRemove(p)
    PROVE  \/ \E x \in XrayConfig, h \in HyConfig : Plan(p, x, h, "write_xray")
           \/ Return(p, "notfound")
<1> DEFINE u == req[p].user
           x == [xray EXCEPT ![Main][u] = NoCred]
           h == [hy EXCEPT ![u] = NoCred]
<1>1. x \in XrayConfig /\ h \in HyConfig
  BY MainAssumption DEF TypeInv, TypeOK, XrayConfig, HyConfig, Cred
<1>2. Plan(p, x, h, "write_xray") \/ Return(p, "notfound")
  BY DEF PlanCliRemove
<1>3. QED
  BY <1>1, <1>2

LEMMA LoadOutcome ==
    ASSUME TypeInv, NEW p \in Ops, Load(p)
    PROVE  /\ \/ \E x \in XrayConfig, h \in HyConfig, step \in {"write_xray", "write_hy"} :
                     Plan(p, x, h, step)
              \/ \E answer \in Replies : Return(p, answer)
           /\ Fault \/ NoFault
<1>1. At(p, "loading")
  BY DEF Load, Fails
<1>2. CASE NoFault /\ PlanAgentAdd(p)
  BY <1>1, <1>2, PlanAgentAddType DEF Replies
<1>3. CASE NoFault /\ PlanAgentDelete(p)
  BY <1>3, PlanAgentDeleteType DEF Replies
<1>4. CASE NoFault /\ PlanCliAdd(p)
  BY <1>4, PlanCliAddType DEF Replies
<1>5. CASE NoFault /\ PlanCliRemove(p)
  BY <1>5, PlanCliRemoveType DEF Replies
<1>6. CASE PlanAgentSync(p)
  BY <1>6, PlanAgentSyncType DEF Replies
<1>7. CASE (Fault \/ NoFault) /\ Return(p, "error")
  BY <1>7 DEF Replies
<1>8. QED
  BY <1>2, <1>3, <1>4, <1>5, <1>6, <1>7 DEF Load, PlanNothing, Fails


-----------------------------------------------------------------------------
(* Type correctness.                                                       *)

\* A step of p that ends in GoTo keeps the invariant if p stays within the lock
\* with its plan made; one that ends in Return keeps it always.
LEMMA GoToReady ==
    ASSUME TypeInv, NEW p \in Ops, NEW step \in Working, pc[p] \in Working,
           GoTo(p, step), UNCHANGED req
    PROVE  /\ pc' \in [Ops -> Steps] /\ reply' \in [Ops -> Replies]
           /\ local' \in [Ops -> Locals \cup {None}] /\ lock' \in Ops \cup {None}
           /\ ReadyInv'
<1>1. step \in Steps
  BY DEF Working, Steps
<1>2. QED
  BY <1>1, GoToType DEF TypeInv, ReadyInv, Working, TypeOK

LEMMA ReturnReady ==
    ASSUME TypeInv, NEW p \in Ops, NEW answer \in Replies, Return(p, answer), UNCHANGED req
    PROVE  /\ pc' \in [Ops -> Steps] /\ reply' \in [Ops -> Replies]
           /\ local' \in [Ops -> Locals \cup {None}] /\ lock' \in Ops \cup {None}
           /\ ReadyInv'
<1>1. /\ pc' \in [Ops -> Steps] /\ pc' = [pc EXCEPT ![p] = "done"]
      /\ reply' \in [Ops -> Replies]
      /\ local' \in [Ops -> Locals \cup {None}] /\ local' = [local EXCEPT ![p] = None]
      /\ lock' \in Ops \cup {None}
  BY ReturnType DEF TypeInv
<1>2. ReadyInv'
  BY <1>1 DEF TypeInv, TypeOK, ReadyInv, Working, Holding
<1>3. QED
  BY <1>1, <1>2

LEMMA LoadReady ==
    ASSUME TypeInv, NEW p \in Ops, Load(p)
    PROVE  TypeInv'
<1> USE DEF files, services
<1>1. UNCHANGED <<xray, hy, subs, xrayRun, hyRun, req, gone>> /\ pc[p] = "loading"
  BY DEF Load, Fails, At
<1>2. faults' \in 0..MaxFaults
  BY LoadOutcome, FaultType DEF TypeInv
<1>3. CASE \E x \in XrayConfig, h \in HyConfig, step \in {"write_xray", "write_hy"} :
               Plan(p, x, h, step)
  <2>1. PICK x \in XrayConfig, h \in HyConfig, step \in {"write_xray", "write_hy"} :
               Plan(p, x, h, step)
    BY <1>3
  <2>2. step \in Working
    BY DEF Working, Holding
  <2>3. /\ pc' \in [Ops -> Steps] /\ pc' = [pc EXCEPT ![p] = step]
        /\ reply' \in [Ops -> Replies]
        /\ local' \in [Ops -> Locals \cup {None}]
        /\ local' = [local EXCEPT ![p] = [oldX |-> xray, oldH |-> hy, newX |-> x, newH |-> h]]
        /\ local'[p] \in Locals
        /\ lock' \in Ops \cup {None}
    BY <2>1, <2>2, PlanType DEF TypeInv
  <2>4. ReadyInv'
    BY <1>1, <2>2, <2>3 DEF TypeInv, TypeOK, ReadyInv, Working, Holding
  <2>5. QED
    BY <1>1, <1>2, <2>3, <2>4 DEF TypeInv, TypeOK
<1>4. CASE \E answer \in Replies : Return(p, answer)
  BY <1>1, <1>2, <1>4, ReturnReady DEF TypeInv, TypeOK
<1>5. QED
  BY <1>3, <1>4, LoadOutcome

LEMMA StepTypeInv ==
    ASSUME TypeInv, NEW p \in Ops, Step(p)
    PROVE  TypeInv'
<1> USE DEF files, services
<1> DEFINE Moved == \/ \E step \in Working : pc[p] \in Working /\ GoTo(p, step)
                    \/ \E answer \in Replies : Return(p, answer)
<1>0. ASSUME Moved, UNCHANGED <<req, gone>>, faults' \in 0..MaxFaults,
             xray' \in XrayConfig, xrayRun' \in XrayConfig \cup {Down},
             hy' \in HyConfig, hyRun' \in HyConfig \cup {Down, NoUnit, NoFile},
             subs' \in [Users -> [x : Cred, h : Cred]]
      PROVE  TypeInv'
  BY <1>0, GoToReady, ReturnReady DEF TypeInv, TypeOK
<1>1. CASE AcquireConfigLock(p)
  BY <1>1 DEF AcquireConfigLock, At, TypeInv, TypeOK, ReadyInv, Steps, Working, Holding
<1>2. CASE ErrLockBusy(p)
  BY <1>2 DEF ErrLockBusy, At, TypeInv, TypeOK, ReadyInv, Steps, Working, Holding, Replies
<1>3. CASE Load(p)
  BY <1>3, LoadReady
<1>4. CASE WriteXrayConfigChecked(p)
  <2>1. pc[p] = "write_xray" /\ local[p] \in Locals
    BY <1>4 DEF WriteXrayConfigChecked, At, TypeInv, ReadyInv, Working, Holding
  <2>2. Moved /\ (Fault \/ NoFault)
    BY <1>4, <2>1 DEF WriteXrayConfigChecked, Working, Holding, Replies
  <2>3. xray' \in XrayConfig
    BY <1>4, <2>1 DEF WriteXrayConfigChecked, Locals, TypeInv, TypeOK
  <2>4. QED
    BY <1>0, <1>4, <2>2, <2>3, FaultType DEF WriteXrayConfigChecked, TypeInv, TypeOK
<1>5. CASE RestartXray(p)
  <2>1. pc[p] = "restart_xray" /\ req[p] \in Request
    BY <1>5 DEF RestartXray, At, TypeInv, ReadyInv, Holding
  <2>2. AfterRestart(p) \in Working
    BY <2>1, RequestKinds DEF AfterRestart, Agent, AgentKinds, CliKinds, Working, Holding
  <2>3. Moved /\ (Fault \/ NoFault)
    BY <1>5, <2>1, <2>2 DEF RestartXray, Working, Holding, Replies
  <2>4. xrayRun' \in XrayConfig \cup {Down}
    BY <1>5 DEF RestartXray, TypeInv, TypeOK
  <2>5. QED
    BY <1>0, <1>5, <2>3, <2>4, FaultType DEF RestartXray, TypeInv, TypeOK
<1>6. CASE RestoreXray(p)
  <2>1. pc[p] = "restore_xray" /\ local[p] \in Locals
    BY <1>6 DEF RestoreXray, Fails, At, TypeInv, ReadyInv, Working, Holding
  <2>2. Moved /\ (Fault \/ NoFault)
    BY <1>6, <2>1 DEF RestoreXray, Fails, Working, Holding, Replies
  <2>3. xray' \in XrayConfig
    BY <1>6, <2>1 DEF RestoreXray, Fails, Locals, TypeInv, TypeOK
  <2>4. QED
    BY <1>0, <1>6, <2>2, <2>3, FaultType DEF RestoreXray, Fails, TypeInv, TypeOK
<1>7. CASE RestartOld(p)
  <2>1. Moved /\ (Fault \/ NoFault)
    BY <1>7 DEF RestartOld, Replies
  <2>2. xrayRun' \in XrayConfig \cup {Down}
    BY <1>7 DEF RestartOld, TypeInv, TypeOK
  <2>3. QED
    BY <1>0, <1>7, <2>1, <2>2, FaultType DEF RestartOld, TypeInv, TypeOK
<1>8. CASE SetUsers(p)
  <2>1. pc[p] = "write_hy" /\ local[p] \in Locals
    BY <1>8 DEF SetUsers, Fails, At, TypeInv, ReadyInv, Working, Holding
  <2>2. Moved /\ (Fault \/ NoFault)
    BY <1>8, <2>1 DEF SetUsers, Fails, Working, Holding, Replies
  <2>3. hy' \in HyConfig
    BY <1>8, <2>1 DEF SetUsers, Fails, Locals, TypeInv, TypeOK
  <2>4. QED
    BY <1>0, <1>8, <2>2, <2>3, FaultType DEF SetUsers, Fails, TypeInv, TypeOK
<1>9. CASE ReloadService(p)
  <2>1. pc[p] = "reload_hy"
    BY <1>9 DEF ReloadService, At
  <2>2. Moved /\ (Fault \/ NoFault)
    BY <1>9, <2>1 DEF ReloadService, AfterHysteria, Working, Holding, Replies
  <2>3. hyRun' \in HyConfig \cup {Down, NoUnit, NoFile}
    BY <1>9 DEF ReloadService, TypeInv, TypeOK
  <2>4. QED
    BY <1>0, <1>9, <2>2, <2>3, FaultType DEF ReloadService, TypeInv, TypeOK
<1>10. CASE RemoveSubscription(p)
  <2>1. pc[p] = "remove_sub"
    BY <1>10 DEF RemoveSubscription, Fails, At
  <2>2. Moved /\ (Fault \/ NoFault)
    BY <1>10, <2>1 DEF RemoveSubscription, Fails, Working, Holding, Replies
  <2>3. subs' \in [Users -> [x : Cred, h : Cred]]
    BY <1>10 DEF RemoveSubscription, Fails, TypeInv, TypeOK, Cred
  <2>4. QED
    BY <1>0, <1>10, <2>2, <2>3, FaultType DEF RemoveSubscription, Fails, TypeInv, TypeOK
<1>11. CASE WriteSubscriptions(p)
  <2>1. Moved /\ (Fault \/ NoFault)
    BY <1>11 DEF WriteSubscriptions, Fails, Replies
  <2>2. xray[Main] \in [Users -> Cred]
    BY MainAssumption DEF TypeInv, TypeOK, XrayConfig
  <2>3. ASSUME NEW S, NEW pws \in HyConfig
        PROVE  Written(S, pws) \in [Users -> [x : Cred, h : Cred]]
    BY <2>2 DEF Written, TypeInv, TypeOK, HyConfig
  <2>4. subs' \in [Users -> [x : Cred, h : Cred]]
    <3>1. ServedHy \in HyConfig /\ Nobody \in HyConfig
      BY DEF ServedHy, Nobody, HyConfig, Cred, TypeInv, TypeOK
    <3>2. QED
      BY <1>11, <2>3, <3>1 DEF WriteSubscriptions
  <2>5. QED
    BY <1>0, <1>11, <2>1, <2>4, FaultType DEF WriteSubscriptions, Fails, TypeInv, TypeOK
<1>12. QED
  BY <1>1, <1>2, <1>3, <1>4, <1>5, <1>6, <1>7, <1>8, <1>9, <1>10, <1>11 DEF Step

LEMMA KillTypeInv ==
    ASSUME TypeInv, NEW S, Kill(S),
           xrayRun' \in {xrayRun, xray}, hyRun' \in {hyRun, hy, Down, NoUnit, NoFile}
    PROVE  TypeInv'
<1>1. faults' \in 0..MaxFaults
  BY FaultType DEF Kill, TypeInv
<1>2. /\ pc' \in [Ops -> Steps]
      /\ \A p \in Ops : pc'[p] \in {pc[p], "dead"}
      /\ \A p \in Ops : pc'[p] # "dead" => local'[p] = local[p]
  BY DEF Kill, TypeInv, TypeOK, Steps
<1>3. local' \in [Ops -> Locals \cup {None}]
  BY DEF Kill, TypeInv, TypeOK
<1>4. ReadyInv'
  BY <1>2 DEF Kill, TypeInv, ReadyInv, Working, Holding
<1>5. QED
  BY <1>1, <1>2, <1>3, <1>4 DEF Kill, TypeInv, TypeOK, files

LEMMA NextTypeInv == TypeInv /\ [Next]_vars => TypeInv'
<1>1. SUFFICES ASSUME TypeInv, [Next]_vars PROVE TypeInv'
  OBVIOUS
<1> USE DEF files, services
<1>2. ASSUME NEW p \in Ops, Arrive(p) PROVE TypeInv'
  BY <1>1, <1>2 DEF Arrive, At, TypeInv, TypeOK, ReadyInv, Steps, Working, Holding, Replies
<1>3. ASSUME NEW p \in Ops, Step(p) PROVE TypeInv'
  BY <1>1, <1>3, StepTypeInv
<1>4. ASSUME NEW p \in Ops, ClientGone(p) PROVE TypeInv'
  BY <1>1, <1>4, FaultType DEF ClientGone, TypeInv, TypeOK, ReadyInv
<1>5. ASSUME NEW p \in Ops, CliCrash(p) PROVE TypeInv'
  BY <1>1, <1>5, KillTypeInv DEF CliCrash
<1>6. CASE AgentCrash
  BY <1>1, <1>6, KillTypeInv DEF AgentCrash
<1>7. CASE Reboot
  BY <1>1, <1>7, KillTypeInv DEF Reboot
<1>8. CASE UNCHANGED vars
  BY <1>1, <1>8 DEF vars, TypeInv, TypeOK, ReadyInv
<1>9. QED
  BY <1>1, <1>2, <1>3, <1>4, <1>5, <1>6, <1>7, <1>8 DEF Next

\* Every reachable state is well typed; TypeInv adds that no request works without
\* having been read and planned.
THEOREM TypeCorrect == Spec => []TypeOK
<1>1. TypeInv => TypeOK
  BY DEF TypeInv
<1>2. QED
  BY <1>1, InitTypeInv, NextTypeInv, PTL DEF Spec


-----------------------------------------------------------------------------
(* The lock excludes, so that nobody's plan goes stale.                    *)

\* The requests at work are the holder of the lock.
LockInv == \A p \in Ops : pc[p] \in Holding <=> lock = p

\* What the files hold while p is at work: xray what p read until p writes it and
\* what p planned until it is restarted, hysteria what p read until p writes it.
\* `cfvpnctl add-user` writes hysteria first, the others xray.
PlanOf(p) ==
    /\ pc[p] = "write_xray" => xray = local[p].oldX
    /\ pc[p] \in {"write_hy", "reload_hy"} /\ req[p].kind = "cli_add" => xray = local[p].oldX
    /\ pc[p] \in {"restart_xray", "restore_xray"} => xray = local[p].newX
    /\ pc[p] = "write_hy" => hy = local[p].oldH
    /\ pc[p] \in {"write_xray", "restart_xray", "remove_sub"} /\ req[p].kind # "cli_add"
          => hy = local[p].oldH
    /\ pc[p] = "remove_sub" => req[p].kind # "cli_add"

PlanInv == \A p \in Ops : PlanOf(p)

LEMMA InitLockPlan == Init => LockInv /\ PlanInv
BY NoneAssumption DEF Init, LockInv, PlanInv, PlanOf, Holding

\* Only the holder of the lock takes a step of Holding, and its successor step is
\* either one of Holding again or the return that frees the lock.
LEMMA GoToLock ==
    ASSUME TypeInv, LockInv, NEW p \in Ops, NEW step \in Holding, pc[p] \in Holding,
           GoTo(p, step)
    PROVE  LockInv'
BY DEF GoTo, LockInv, TypeInv, TypeOK

LEMMA ReturnLock ==
    ASSUME TypeInv, LockInv, NEW p \in Ops, NEW answer, pc[p] \in Holding, Return(p, answer)
    PROVE  LockInv'
BY NoneAssumption DEF Return, LockInv, TypeInv, TypeOK, Holding

LEMMA PlanLock ==
    ASSUME TypeInv, LockInv, NEW p \in Ops, NEW step \in Holding, pc[p] \in Holding,
           NEW x, NEW h, Plan(p, x, h, step)
    PROVE  LockInv'
BY DEF Plan, LockInv, TypeInv, TypeOK

LEMMA StepLock ==
    ASSUME TypeInv, LockInv, NEW p \in Ops, Step(p)
    PROVE  LockInv'
<1>1. CASE AcquireConfigLock(p)
  BY <1>1, NoneAssumption DEF AcquireConfigLock, At, LockInv, TypeInv, TypeOK, Holding
<1>2. CASE ErrLockBusy(p)
  BY <1>2 DEF ErrLockBusy, At, LockInv, TypeInv, TypeOK, Holding
<1>3. CASE Load(p)
  <2>1. pc[p] \in Holding
    BY <1>3 DEF Load, Fails, At, Holding
  <2>2. {"write_xray", "write_hy"} \subseteq Holding
    BY DEF Holding
  <2>3. QED
    BY <1>3, <2>1, <2>2, LoadOutcome, PlanLock, ReturnLock
<1>4. CASE WriteXrayConfigChecked(p)
  BY <1>4, GoToLock, ReturnLock DEF WriteXrayConfigChecked, At, Holding
<1>5. CASE RestartXray(p)
  BY <1>5, GoToLock, ReturnLock DEF RestartXray, AfterRestart, At, Holding
<1>6. CASE RestoreXray(p)
  BY <1>6, GoToLock, ReturnLock DEF RestoreXray, Fails, At, Holding
<1>7. CASE RestartOld(p)
  BY <1>7, ReturnLock DEF RestartOld, At, Holding
<1>8. CASE SetUsers(p)
  BY <1>8, GoToLock, ReturnLock DEF SetUsers, Fails, At, Holding
<1>9. CASE ReloadService(p)
  BY <1>9, GoToLock, ReturnLock DEF ReloadService, AfterHysteria, At, Holding
<1>10. CASE RemoveSubscription(p)
  BY <1>10, GoToLock, ReturnLock DEF RemoveSubscription, Fails, At, Holding
<1>11. CASE WriteSubscriptions(p)
  BY <1>11, ReturnLock DEF WriteSubscriptions, Fails, At, Holding
<1>12. QED
  BY <1>1, <1>2, <1>3, <1>4, <1>5, <1>6, <1>7, <1>8, <1>9, <1>10, <1>11 DEF Step

LEMMA NextLock == TypeInv /\ LockInv /\ [Next]_vars => LockInv'
<1>1. SUFFICES ASSUME TypeInv, LockInv, [Next]_vars PROVE LockInv'
  OBVIOUS
<1>2. ASSUME NEW S \in SUBSET Live, Kill(S) PROVE LockInv'
  BY <1>1, <1>2, NoneAssumption DEF Kill, Live, LockInv, TypeInv, TypeOK, Holding
<1>3. ASSUME NEW p \in Ops, Arrive(p) PROVE LockInv'
  BY <1>1, <1>3 DEF Arrive, At, LockInv, TypeInv, TypeOK, Holding
<1>4. ASSUME NEW p \in Ops, Step(p) PROVE LockInv'
  BY <1>1, <1>4, StepLock
<1>5. ASSUME NEW p \in Ops, ClientGone(p) PROVE LockInv'
  BY <1>1, <1>5 DEF ClientGone, LockInv
<1>6. ASSUME NEW p \in Ops, CliCrash(p) PROVE LockInv'
  BY <1>2, <1>6 DEF CliCrash
<1>7. CASE AgentCrash
  <2>1. {p \in Live : Agent(p)} \in SUBSET Live
    OBVIOUS
  <2>2. QED
    BY <1>2, <1>7, <2>1 DEF AgentCrash
<1>8. CASE Reboot
  BY <1>2, <1>8 DEF Reboot
<1>9. CASE UNCHANGED vars
  BY <1>1, <1>9 DEF vars, LockInv
<1>10. QED
  BY <1>1, <1>3, <1>4, <1>5, <1>6, <1>7, <1>8, <1>9 DEF Next

\* At most one request works on the files of the node at any moment.
THEOREM MutualExclusion ==
    Spec => [](\A p, q \in Ops : pc[p] \in Holding /\ pc[q] \in Holding => p = q)
<1>1. LockInv => \A p, q \in Ops : pc[p] \in Holding /\ pc[q] \in Holding => p = q
  BY DEF LockInv
<1>2. QED
  BY <1>1, InitTypeInv, NextTypeInv, InitLockPlan, NextLock, PTL DEF Spec

\* With the lock, the plans of the others do not matter.
LEMMA OnlyHolder ==
    ASSUME LockInv', \A p \in Ops : lock' = p => PlanOf(p)'
    PROVE  PlanInv'
BY DEF LockInv, PlanInv, PlanOf, Holding

\* A request that returns has no plan left.
LEMMA ReturnPlan ==
    ASSUME LockInv', NEW p \in Ops, NEW answer, Return(p, answer)
    PROVE  PlanInv'
BY OnlyHolder, NoneAssumption DEF Return

\* A request that goes on keeps the lock, and its own plan is what matters.
LEMMA GoToPlan ==
    ASSUME TypeInv, LockInv, LockInv', NEW p \in Ops, pc[p] \in Holding, NEW step,
           GoTo(p, step), PlanOf(p)'
    PROVE  PlanInv'
<1>1. lock' = p
  BY DEF GoTo, LockInv
<1>2. QED
  BY <1>1, OnlyHolder

LEMMA LoadPlan ==
    ASSUME TypeInv, LockInv, LockInv', NEW p \in Ops, Load(p)
    PROVE  PlanInv'
<1>1. pc[p] = "loading" /\ lock = p /\ UNCHANGED <<xray, hy, req>>
  BY DEF Load, Fails, At, LockInv, Holding, files
<1>2. CASE \E x \in XrayConfig, h \in HyConfig, step \in {"write_xray", "write_hy"} :
               Plan(p, x, h, step)
  <2>1. PICK x \in XrayConfig, h \in HyConfig, step \in {"write_xray", "write_hy"} :
               Plan(p, x, h, step)
    BY <1>2
  <2>2. /\ lock' = p /\ pc'[p] = step
        /\ local'[p].oldX = xray /\ local'[p].oldH = hy
    BY <1>1, <2>1 DEF Plan, TypeInv, TypeOK
  <2>3. PlanOf(p)'
    BY <1>1, <2>2 DEF PlanOf
  <2>4. QED
    BY <2>2, <2>3, OnlyHolder
<1>3. CASE \E answer \in Replies : Return(p, answer)
  BY <1>3, ReturnPlan
<1>4. QED
  BY <1>2, <1>3, LoadOutcome

LEMMA StepPlan ==
    ASSUME TypeInv, LockInv, PlanInv, LockInv', NEW p \in Ops, Step(p)
    PROVE  PlanInv'
<1> USE DEF files, services
<1>0. PlanOf(p) /\ pc \in [Ops -> Steps]
  BY DEF PlanInv, TypeInv, TypeOK
<1>1. CASE AcquireConfigLock(p)
  <2>1. lock' = p /\ pc'[p] = "loading"
    BY <1>0, <1>1 DEF AcquireConfigLock
  <2>2. PlanOf(p)'
    BY <2>1 DEF PlanOf
  <2>3. QED
    BY <2>1, <2>2, OnlyHolder
<1>2. CASE ErrLockBusy(p)
  BY <1>0, <1>2, OnlyHolder DEF ErrLockBusy, PlanInv, PlanOf
<1>3. CASE Load(p)
  BY <1>3, LoadPlan
<1>4. CASE WriteXrayConfigChecked(p)
  <2>1. pc[p] = "write_xray" /\ pc[p] \in Holding
    BY <1>4 DEF WriteXrayConfigChecked, At, Holding
  <2>2. ASSUME xray' = local[p].newX, GoTo(p, "restart_xray") PROVE PlanInv'
    <3>1. PlanOf(p)'
      BY <1>0, <1>4, <2>1, <2>2 DEF WriteXrayConfigChecked, GoTo, PlanOf
    <3>2. QED
      BY <2>1, <2>2, <3>1, GoToPlan
  <2>3. QED
    BY <1>4, <2>2, ReturnPlan DEF WriteXrayConfigChecked
<1>5. CASE RestartXray(p)
  <2>1. pc[p] = "restart_xray" /\ pc[p] \in Holding /\ UNCHANGED <<xray, hy, req>>
    BY <1>5 DEF RestartXray, At, Holding
  <2>2. ASSUME GoTo(p, "restore_xray") PROVE PlanInv'
    <3>1. PlanOf(p)'
      BY <1>0, <2>1, <2>2 DEF GoTo, PlanOf
    <3>2. QED
      BY <2>1, <2>2, <3>1, GoToPlan
  <2>3. ASSUME GoTo(p, AfterRestart(p)) PROVE PlanInv'
    <3>1. PlanOf(p)'
      BY <1>0, <2>1, <2>3
         DEF GoTo, PlanOf, AfterRestart, Agent, AgentKinds
    <3>2. QED
      BY <2>1, <2>3, <3>1, GoToPlan
  <2>4. QED
    BY <1>5, <2>2, <2>3 DEF RestartXray
<1>6. CASE RestoreXray(p)
  <2>1. pc[p] = "restore_xray" /\ pc[p] \in Holding
    BY <1>6 DEF RestoreXray, Fails, At, Holding
  <2>2. ASSUME GoTo(p, "restart_old") PROVE PlanInv'
    <3>1. PlanOf(p)'
      BY <1>0, <2>1, <2>2 DEF GoTo, PlanOf
    <3>2. QED
      BY <2>1, <2>2, <3>1, GoToPlan
  <2>3. QED
    BY <1>6, <2>2, ReturnPlan DEF RestoreXray, Fails
<1>7. CASE RestartOld(p)
  BY <1>7, ReturnPlan DEF RestartOld
<1>8. CASE SetUsers(p)
  <2>1. pc[p] = "write_hy" /\ pc[p] \in Holding /\ UNCHANGED <<xray, req>>
    BY <1>8 DEF SetUsers, Fails, At, Holding
  <2>2. ASSUME NEW step \in {"write_subs", "reload_hy"}, GoTo(p, step) PROVE PlanInv'
    <3>1. PlanOf(p)'
      BY <1>0, <2>1, <2>2 DEF GoTo, PlanOf
    <3>2. QED
      BY <2>1, <2>2, <3>1, GoToPlan
  <2>3. QED
    BY <1>8, <2>2, ReturnPlan DEF SetUsers, Fails
<1>9. CASE ReloadService(p)
  <2>1. pc[p] = "reload_hy" /\ pc[p] \in Holding /\ UNCHANGED <<xray, hy, req>>
    BY <1>9 DEF ReloadService, At, Holding
  <2>2. ASSUME GoTo(p, "write_subs") PROVE PlanInv'
    <3>1. PlanOf(p)'
      BY <1>0, <2>1, <2>2 DEF GoTo, PlanOf
    <3>2. QED
      BY <2>1, <2>2, <3>1, GoToPlan
  <2>3. ASSUME GoTo(p, "write_xray"), req[p].kind = "cli_add" PROVE PlanInv'
    <3>1. PlanOf(p)'
      BY <1>0, <2>1, <2>3 DEF GoTo, PlanOf
    <3>2. QED
      BY <2>1, <2>3, <3>1, GoToPlan
  <2>4. QED
    BY <1>9, <2>2, <2>3, ReturnPlan DEF ReloadService, AfterHysteria
<1>10. CASE RemoveSubscription(p)
  <2>1. pc[p] = "remove_sub" /\ pc[p] \in Holding /\ UNCHANGED <<xray, hy, req>>
    BY <1>10 DEF RemoveSubscription, Fails, At, Holding
  <2>2. ASSUME GoTo(p, "write_hy") PROVE PlanInv'
    <3>1. PlanOf(p)'
      BY <1>0, <2>1, <2>2 DEF GoTo, PlanOf
    <3>2. QED
      BY <2>1, <2>2, <3>1, GoToPlan
  <2>3. QED
    BY <1>10, <2>2, ReturnPlan DEF RemoveSubscription, Fails
<1>11. CASE WriteSubscriptions(p)
  BY <1>11, ReturnPlan DEF WriteSubscriptions, Fails
<1>12. QED
  BY <1>1, <1>2, <1>3, <1>4, <1>5, <1>6, <1>7, <1>8, <1>9, <1>10, <1>11 DEF Step

LEMMA NextPlan == TypeInv /\ LockInv /\ PlanInv /\ LockInv' /\ [Next]_vars => PlanInv'
<1>1. SUFFICES ASSUME TypeInv, LockInv, PlanInv, LockInv', [Next]_vars PROVE PlanInv'
  OBVIOUS
<1> USE DEF files, services
<1>2. ASSUME NEW S, Kill(S) PROVE PlanInv'
  <2>1. /\ UNCHANGED <<xray, hy, req>>
        /\ \A p \in Ops : pc'[p] # "dead" => pc'[p] = pc[p] /\ local'[p] = local[p]
    BY <1>2 DEF Kill
  <2>2. QED
    BY <1>1, <2>1 DEF PlanInv, PlanOf
<1>3. ASSUME NEW p \in Ops, Arrive(p) PROVE PlanInv'
  <2>1. /\ UNCHANGED <<xray, hy, local>>
        /\ pc'[p] \in {"done", "waiting"}
        /\ \A q \in Ops : q # p => pc'[q] = pc[q] /\ req'[q] = req[q]
    BY <1>1, <1>3 DEF Arrive, TypeInv, TypeOK
  <2>2. QED
    BY <1>1, <2>1 DEF PlanInv, PlanOf
<1>4. ASSUME NEW p \in Ops, Step(p) PROVE PlanInv'
  BY <1>1, <1>4, StepPlan
<1>5. ASSUME NEW p \in Ops, ClientGone(p) PROVE PlanInv'
  BY <1>1, <1>5 DEF ClientGone, PlanInv, PlanOf
<1>6. ASSUME NEW p \in Ops, CliCrash(p) PROVE PlanInv'
  BY <1>2, <1>6 DEF CliCrash
<1>7. CASE AgentCrash
  BY <1>2, <1>7 DEF AgentCrash
<1>8. CASE Reboot
  BY <1>2, <1>8 DEF Reboot
<1>9. CASE UNCHANGED vars
  BY <1>1, <1>9 DEF vars, PlanInv, PlanOf
<1>10. QED
  BY <1>1, <1>3, <1>4, <1>5, <1>6, <1>7, <1>8, <1>9 DEF Next

\* No lost update, for any number of requests: what a request replaces is what it
\* read, and what it undoes is what it wrote.
THEOREM NoUpdateIsLost == Spec => []NoLostUpdate
<1>1. PlanInv /\ TypeInv => NoLostUpdate
  <2>1. SUFFICES ASSUME PlanInv, NEW p \in Ops
                 PROVE  /\ At(p, "write_xray") => xray = local[p].oldX
                        /\ At(p, "write_hy") => hy = local[p].oldH
                        /\ At(p, "restore_xray") => xray = local[p].newX
    BY DEF NoLostUpdate
  <2>2. QED
    BY <2>1 DEF PlanInv, PlanOf, At
<1>2. QED
  BY <1>1, InitTypeInv, NextTypeInv, InitLockPlan, NextLock, NextPlan, PTL DEF Spec

-----------------------------------------------------------------------------
(* The user limit.                                                         *)

Bounded(x) == \A i \in Inbounds : Cardinality(Names(x[i])) <= MaxUsers

\* WithinLimit, and what keeps it: the limit also holds of the configuration a
\* request means to write or to put back, and of the list of a sync.
LimitInv ==
    /\ Bounded(xray)
    /\ xrayRun # Down => Bounded(xrayRun)
    /\ \A p \in Ops :
        /\ pc[p] \in Working => Bounded(local[p].oldX) /\ Bounded(local[p].newX)
        /\ pc[p] \in Holding \cup {"waiting"} /\ req[p].kind = "agent_sync"
              => Cardinality(req[p].users) <= MaxUsers

LEMMA NamesFinite ==
    ASSUME NEW m
    PROVE  IsFiniteSet(Names(m)) /\ Cardinality(Names(m)) \in Nat
<1>1. Names(m) \in SUBSET Users
  BY DEF Names
<1>2. QED
  BY <1>1, UsersAssumption, FS_Subset, FS_CardinalityType

\* A list of users whose names are among those of a list within the limit is
\* within the limit.
LEMMA FewerNames ==
    ASSUME NEW m, NEW S, IsFiniteSet(S), Cardinality(S) <= MaxUsers, Names(m) \subseteq S
    PROVE  Cardinality(Names(m)) <= MaxUsers
<1>1. Cardinality(Names(m)) <= Cardinality(S)
  BY FS_Subset
<1>2. QED
  BY <1>1, NamesFinite, FS_CardinalityType, BoundsAssumption

\* One more user is one more name at most.
LEMMA OneMoreName ==
    ASSUME NEW m \in [Users -> Cred], NEW u \in Users, NEW c,
           Cardinality(Names(m)) + 1 <= MaxUsers
    PROVE  Cardinality(Names([m EXCEPT ![u] = c])) <= MaxUsers
<1> DEFINE S == Names(m) \cup {u}
<1>1. IsFiniteSet(S) /\ Cardinality(S) <= Cardinality(Names(m)) + 1
  <2>1. IsFiniteSet(Names(m)) /\ Cardinality(Names(m)) \in Nat
    BY NamesFinite
  <2>2. /\ IsFiniteSet(S)
        /\ Cardinality(S) = IF u \in Names(m) THEN Cardinality(Names(m))
                            ELSE Cardinality(Names(m)) + 1
    BY <2>1, FS_AddElement, Zenon
  <2>3. QED
    BY <2>1, <2>2
<1>2. Cardinality(S) <= MaxUsers
  <2>1. Cardinality(S) \in Nat /\ Cardinality(Names(m)) \in Nat
    BY <1>1, NamesFinite, FS_CardinalityType
  <2>2. QED
    BY <1>1, <2>1, BoundsAssumption
<1>3. Names([m EXCEPT ![u] = c]) \subseteq S
  BY DEF Names
<1>4. QED
  BY <1>1, <1>2, <1>3, FewerNames

LEMMA RemovedName ==
    ASSUME NEW m \in [Users -> Cred], NEW u \in Users, Cardinality(Names(m)) <= MaxUsers
    PROVE  Cardinality(Names([m EXCEPT ![u] = NoCred])) <= MaxUsers
<1>1. Names([m EXCEPT ![u] = NoCred]) \subseteq Names(m)
  BY DEF Names
<1>2. QED
  BY <1>1, NamesFinite, FewerNames

LEMMA RenderedBounded ==
    ASSUME NEW m, Cardinality(Names(m)) <= MaxUsers
    PROVE  Bounded(Rendered(m))
BY DEF Bounded, Rendered

\* A change of the first inbound alone.
LEMMA MainBounded ==
    ASSUME NEW x \in XrayConfig, Bounded(x), NEW u \in Users, NEW c \in Cred,
           Cardinality(Names([x[Main] EXCEPT ![u] = c])) <= MaxUsers
    PROVE  Bounded([x EXCEPT ![Main][u] = c])
<1> DEFINE y == [x EXCEPT ![Main][u] = c]
<1>1. SUFFICES ASSUME NEW i \in Inbounds PROVE Cardinality(Names(y[i])) <= MaxUsers
  BY DEF Bounded
<1>2. CASE i = Main
  <2>1. y[i] = [x[Main] EXCEPT ![u] = c]
    BY <1>2, MainAssumption DEF XrayConfig
  <2>2. QED
    BY <2>1
<1>3. CASE i # Main
  <2>1. y[i] = x[i]
    BY <1>3 DEF XrayConfig
  <2>2. QED
    BY <2>1 DEF Bounded
<1>4. QED
  BY <1>2, <1>3

\* Every plan of Load keeps the limit.
LEMMA LoadBounded ==
    ASSUME TypeInv, LimitInv, NEW p \in Ops, Load(p)
    PROVE  \/ \E x, h, step : Bounded(x) /\ Plan(p, x, h, step)
           \/ \E answer : Return(p, answer)
<1>1. req[p] \in Request /\ pc[p] = "loading"
  BY DEF Load, Fails, At, TypeInv, ReadyInv, Holding
<1>2. Bounded(xray) /\ Cardinality(Names(xray[Main])) <= MaxUsers
  BY MainAssumption DEF LimitInv, Bounded
<1>3. xray \in XrayConfig /\ xray[Main] \in [Users -> Cred]
  BY MainAssumption DEF TypeInv, TypeOK, XrayConfig
<1>4. CASE PlanAgentAdd(p)
  <2> DEFINE u == req[p].user
             known == u \in Names(xray[Main])
             uuids == [xray[Main] EXCEPT ![u] = IF known THEN @ ELSE p]
             pws == [SyncPasswords(p) EXCEPT ![u] = IF known THEN @ ELSE p]
  <2>1. u \in Users
    BY <1>1, <1>4, RequestKinds DEF PlanAgentAdd
  <2>2. CASE known
    <3>1. uuids = xray[Main]
      BY <1>3, <2>2
    <3>2. Bounded(Rendered(uuids))
      BY <1>2, <3>1, RenderedBounded
    <3>3. Plan(p, Rendered(uuids), pws, "write_xray") \/ Return(p, "limit")
      BY <1>4 DEF PlanAgentAdd
    <3>4. QED
      BY <3>2, <3>3
  <2>3. CASE ~known /\ ~OverLimit(Cardinality(Names(xray[Main])) + 1)
    <3>0. Cardinality(Names(xray[Main])) + 1 <= MaxUsers
      BY <2>3, NamesFinite, BoundsAssumption DEF OverLimit
    <3>1. Cardinality(Names(uuids)) <= MaxUsers
      BY <1>3, <2>1, <2>3, <3>0, OneMoreName
    <3>2. Bounded(Rendered(uuids))
      BY <3>1, RenderedBounded
    <3>3. Plan(p, Rendered(uuids), pws, "write_xray")
      BY <1>4, <2>3 DEF PlanAgentAdd
    <3>4. QED
      BY <3>2, <3>3
  <2>4. CASE ~known /\ OverLimit(Cardinality(Names(xray[Main])) + 1)
    BY <1>4, <2>4 DEF PlanAgentAdd
  <2>5. QED
    BY <2>2, <2>3, <2>4
<1>5. CASE PlanAgentDelete(p)
  <2> DEFINE u == req[p].user
             uuids == [xray[Main] EXCEPT ![u] = NoCred]
             pws == [SyncPasswords(p) EXCEPT ![u] = NoCred]
  <2>1. u \in Users
    BY <1>1, <1>5, RequestKinds DEF PlanAgentDelete
  <2>2. Bounded(Rendered(uuids))
    BY <1>2, <1>3, <2>1, RemovedName, RenderedBounded
  <2>3. Plan(p, Rendered(uuids), pws, "write_xray") \/ Return(p, "notfound")
    BY <1>5 DEF PlanAgentDelete
  <2>4. QED
    BY <2>2, <2>3
<1>6. CASE PlanAgentSync(p)
  <2> DEFINE m == [u \in Users |-> IF u \in req[p].users THEN PanelCred ELSE NoCred]
  <2>1. req[p].users \in SUBSET Users /\ Cardinality(req[p].users) <= MaxUsers
    BY <1>1, <1>6, RequestKinds DEF PlanAgentSync, LimitInv, Holding
  <2>2. IsFiniteSet(req[p].users)
    BY <2>1, UsersAssumption, FS_Subset
  <2>3. Names(m) \subseteq req[p].users
    BY DEF Names
  <2>4. Bounded(Rendered(m))
    BY <2>1, <2>2, <2>3, FewerNames, RenderedBounded
  <2>5. Plan(p, Rendered(m), m, "write_xray") \/ Return(p, "empty")
    BY <1>6 DEF PlanAgentSync
  <2>6. QED
    BY <2>4, <2>5
<1>7. CASE PlanCliAdd(p)
  <2> DEFINE u == req[p].user
             x == [xray EXCEPT ![Main][u] = p]
  <2>1. u \in Users /\ p \in Cred
    BY <1>1, <1>7, RequestKinds DEF PlanCliAdd, Cred
  <2>2. CASE Cardinality(Names(xray[Main])) >= MaxUsers
    BY <1>7, <2>2 DEF PlanCliAdd
  <2>3. CASE ~(Cardinality(Names(xray[Main])) >= MaxUsers)
    <3>1. Cardinality(Names(xray[Main])) + 1 <= MaxUsers
      BY <2>3, NamesFinite, BoundsAssumption
    <3>2. Cardinality(Names([xray[Main] EXCEPT ![u] = p])) <= MaxUsers
      BY <1>3, <2>1, <3>1, OneMoreName
    <3>3. Bounded(x)
      BY <1>2, <1>3, <2>1, <3>2, MainBounded
    <3>4. \/ Return(p, "limit") \/ Return(p, "exists")
          \/ Plan(p, x, hy, "write_xray") \/ Plan(p, x, [hy EXCEPT ![u] = p], "write_hy")
      BY <1>7 DEF PlanCliAdd
    <3>5. QED
      BY <3>3, <3>4
  <2>4. QED
    BY <2>2, <2>3
<1>8. CASE PlanCliRemove(p)
  <2> DEFINE u == req[p].user
             x == [xray EXCEPT ![Main][u] = NoCred]
  <2>1. u \in Users /\ NoCred \in Cred
    BY <1>1, <1>8, RequestKinds DEF PlanCliRemove, Cred
  <2>2. Cardinality(Names([xray[Main] EXCEPT ![u] = NoCred])) <= MaxUsers
    BY <1>2, <1>3, <2>1, RemovedName
  <2>3. Bounded(x)
    BY <1>2, <1>3, <2>1, <2>2, MainBounded
  <2>4. Plan(p, x, [hy EXCEPT ![u] = NoCred], "write_xray") \/ Return(p, "notfound")
    BY <1>8 DEF PlanCliRemove
  <2>5. QED
    BY <2>3, <2>4
<1>9. CASE Return(p, "error")
  BY <1>9
<1>10. QED
  BY <1>4, <1>5, <1>6, <1>7, <1>8, <1>9 DEF Load, PlanNothing, Fails

LEMMA InitLimit == Init => LimitInv
<1>1. SUFFICES ASSUME Init PROVE LimitInv
  OBVIOUS
<1>2. Bounded(xray)
  <2>1. PICK m \in [Users -> {PanelCred, NoCred}] :
          Cardinality(Names(m)) <= MaxUsers /\ xray = Rendered(m)
    BY <1>1 DEF Init
  <2>2. QED
    BY <2>1, RenderedBounded
<1>3. QED
  BY <1>1, <1>2 DEF Init, LimitInv, Working, Holding

\* A step of p that ends in GoTo or Return keeps the limit if it holds of the two
\* configurations of xray after it.
LEMMA MovedLimit ==
    ASSUME TypeInv, LimitInv, NEW p \in Ops, UNCHANGED req,
           Bounded(xray'), xrayRun' # Down => Bounded(xrayRun'),
           \/ pc[p] \in Working /\ \E step : GoTo(p, step)
           \/ \E answer : Return(p, answer)
    PROVE  LimitInv'
<1>1. CASE pc[p] \in Working /\ \E step : GoTo(p, step)
  <2>1. /\ local' = local
        /\ \A q \in Ops : pc'[q] \in Working => pc[q] \in Working
        /\ \A q \in Ops : pc'[q] \in Holding \cup {"waiting"} => pc[q] \in Holding \cup {"waiting"}
    BY <1>1 DEF GoTo, TypeInv, TypeOK, Working
  <2>2. QED
    BY <2>1 DEF LimitInv, Bounded
<1>2. CASE \E answer : Return(p, answer)
  <2>1. \A q \in Ops : pc'[q] \in Holding \cup {"waiting"} => pc'[q] = pc[q] /\ local'[q] = local[q]
    BY <1>2 DEF Return, TypeInv, TypeOK, Holding
  <2>2. QED
    BY <2>1 DEF LimitInv, Bounded, Working
<1>3. QED
  BY <1>1, <1>2

LEMMA StepLimit ==
    ASSUME TypeInv, LimitInv, NEW p \in Ops, Step(p)
    PROVE  LimitInv'
<1> USE DEF files, services
<1> DEFINE Moved == \/ pc[p] \in Working /\ \E step : GoTo(p, step)
                    \/ \E answer : Return(p, answer)
<1>0. /\ Bounded(xray) /\ (xrayRun # Down => Bounded(xrayRun))
      /\ pc[p] \in Working => Bounded(local[p].oldX) /\ Bounded(local[p].newX)
  BY DEF LimitInv
<1>1. CASE AcquireConfigLock(p)
  <2>1. /\ UNCHANGED <<xray, xrayRun, req, local>>
        /\ \A q \in Ops : pc'[q] \in Working => pc[q] \in Working
        /\ \A q \in Ops : pc'[q] \in Holding \cup {"waiting"} => pc[q] \in Holding \cup {"waiting"}
    BY <1>1 DEF AcquireConfigLock, At, TypeInv, TypeOK, Working, Holding
  <2>2. QED
    BY <2>1 DEF LimitInv, Bounded
<1>2. CASE ErrLockBusy(p)
  <2>1. /\ UNCHANGED <<xray, xrayRun, req, local>>
        /\ \A q \in Ops : pc'[q] \in Working => pc[q] \in Working
        /\ \A q \in Ops : pc'[q] \in Holding \cup {"waiting"} => pc[q] \in Holding \cup {"waiting"}
    BY <1>2 DEF ErrLockBusy, At, TypeInv, TypeOK, Working, Holding
  <2>2. QED
    BY <2>1 DEF LimitInv, Bounded
<1>3. CASE Load(p)
  <2>1. UNCHANGED <<xray, xrayRun, req>> /\ pc[p] = "loading"
    BY <1>3 DEF Load, Fails, At
  <2>2. ASSUME NEW x, NEW h, NEW step, Bounded(x), Plan(p, x, h, step) PROVE LimitInv'
    <3>1. /\ \A q \in Ops : q # p => pc'[q] = pc[q] /\ local'[q] = local[q]
          /\ local'[p].oldX = xray /\ local'[p].newX = x
          /\ pc[p] \in Holding
      BY <2>1, <2>2 DEF Plan, TypeInv, TypeOK, Holding
    <3>2. QED
      BY <1>0, <2>1, <2>2, <3>1 DEF LimitInv, Bounded
  <2>3. ASSUME NEW answer, Return(p, answer) PROVE LimitInv'
    BY <1>0, <2>1, <2>3, MovedLimit
  <2>4. QED
    BY <1>3, <2>2, <2>3, LoadBounded
<1>4. CASE WriteXrayConfigChecked(p)
  <2>1. pc[p] \in Working
    BY <1>4 DEF WriteXrayConfigChecked, At, Working, Holding
  <2>2. Moved
    BY <1>4, <2>1 DEF WriteXrayConfigChecked
  <2>3. QED
    BY <1>0, <1>4, <2>1, <2>2, MovedLimit DEF WriteXrayConfigChecked
<1>5. CASE RestartXray(p)
  <2>1. pc[p] \in Working
    BY <1>5 DEF RestartXray, At, Working, Holding
  <2>2. Moved
    BY <1>5, <2>1 DEF RestartXray
  <2>3. QED
    BY <1>0, <1>5, <2>2, MovedLimit DEF RestartXray
<1>6. CASE RestoreXray(p)
  <2>1. pc[p] \in Working
    BY <1>6 DEF RestoreXray, Fails, At, Working, Holding
  <2>2. Moved
    BY <1>6, <2>1 DEF RestoreXray, Fails
  <2>3. QED
    BY <1>0, <1>6, <2>1, <2>2, MovedLimit DEF RestoreXray, Fails
<1>7. CASE RestartOld(p)
  <2>1. Moved
    BY <1>7 DEF RestartOld
  <2>2. QED
    BY <1>0, <1>7, <2>1, MovedLimit DEF RestartOld
<1>8. CASE SetUsers(p)
  <2>1. Moved
    BY <1>8 DEF SetUsers, Fails, At, Working, Holding
  <2>2. QED
    BY <1>0, <1>8, <2>1, MovedLimit DEF SetUsers, Fails
<1>9. CASE ReloadService(p)
  <2>1. Moved
    BY <1>9 DEF ReloadService, AfterHysteria, At, Working, Holding
  <2>2. QED
    BY <1>0, <1>9, <2>1, MovedLimit DEF ReloadService
<1>10. CASE RemoveSubscription(p)
  <2>1. Moved
    BY <1>10 DEF RemoveSubscription, Fails, At, Working, Holding
  <2>2. QED
    BY <1>0, <1>10, <2>1, MovedLimit DEF RemoveSubscription, Fails
<1>11. CASE WriteSubscriptions(p)
  <2>1. Moved
    BY <1>11 DEF WriteSubscriptions, Fails
  <2>2. QED
    BY <1>0, <1>11, <2>1, MovedLimit DEF WriteSubscriptions, Fails
<1>12. QED
  BY <1>1, <1>2, <1>3, <1>4, <1>5, <1>6, <1>7, <1>8, <1>9, <1>10, <1>11 DEF Step

LEMMA NextLimit == TypeInv /\ LimitInv /\ [Next]_vars => LimitInv'
<1>1. SUFFICES ASSUME TypeInv, LimitInv, [Next]_vars PROVE LimitInv'
  OBVIOUS
<1> USE DEF files, services
<1>2. ASSUME NEW S, Kill(S), xrayRun' \in {xrayRun, xray} PROVE LimitInv'
  <2>1. /\ UNCHANGED <<xray, req>>
        /\ \A p \in Ops : pc'[p] # "dead" => pc'[p] = pc[p] /\ local'[p] = local[p]
    BY <1>2 DEF Kill
  <2>2. QED
    BY <1>1, <1>2, <2>1 DEF LimitInv, Bounded, Working, Holding
<1>3. ASSUME NEW p \in Ops, Arrive(p) PROVE LimitInv'
  <2>1. /\ UNCHANGED <<xray, xrayRun, local>>
        /\ \A q \in Ops : q # p => pc'[q] = pc[q] /\ req'[q] = req[q]
        /\ pc'[p] \in {"done", "waiting"}
        /\ pc'[p] = "waiting" /\ req'[p].kind = "agent_sync"
             => ~(Cardinality(req'[p].users) > MaxUsers)
    BY <1>1, <1>3 DEF Arrive, OverLimit, TypeInv, TypeOK
  <2>2. pc'[p] = "waiting" /\ req'[p].kind = "agent_sync"
             => Cardinality(req'[p].users) <= MaxUsers
    <3>1. SUFFICES ASSUME pc'[p] = "waiting", req'[p].kind = "agent_sync"
                   PROVE  Cardinality(req'[p].users) <= MaxUsers
      OBVIOUS
    <3>2. req'[p] \in Request
      BY <1>1, <1>3 DEF Arrive, TypeInv, TypeOK
    <3>3. req'[p].users \in SUBSET Users
      BY <3>1, <3>2, RequestKinds
    <3>4. Cardinality(req'[p].users) \in Nat
      BY <3>3, UsersAssumption, FS_Subset, FS_CardinalityType
    <3>5. QED
      BY <2>1, <3>1, <3>4, BoundsAssumption
  <2>3. QED
    BY <1>1, <2>1, <2>2 DEF LimitInv, Bounded, Working, Holding
<1>4. ASSUME NEW p \in Ops, Step(p) PROVE LimitInv'
  BY <1>1, <1>4, StepLimit
<1>5. ASSUME NEW p \in Ops, ClientGone(p) PROVE LimitInv'
  BY <1>1, <1>5 DEF ClientGone, LimitInv, Bounded
<1>6. ASSUME NEW p \in Ops, CliCrash(p) PROVE LimitInv'
  BY <1>2, <1>6 DEF CliCrash
<1>7. CASE AgentCrash
  BY <1>2, <1>7 DEF AgentCrash
<1>8. CASE Reboot
  BY <1>2, <1>8 DEF Reboot
<1>9. CASE UNCHANGED vars
  BY <1>1, <1>9 DEF vars, LimitInv, Bounded
<1>10. QED
  BY <1>1, <1>3, <1>4, <1>5, <1>6, <1>7, <1>8, <1>9 DEF Next

\* The user limit of the node, for any number of users and requests: neither the
\* file nor the running xray ever has more than MaxUsers users in an inbound,
\* through failures, restores, crashes and reboots.
THEOREM LimitHolds == Spec => []WithinLimit
<1>1. LimitInv => WithinLimit
  BY DEF LimitInv, Bounded, WithinLimit
<1>2. QED
  BY <1>1, InitTypeInv, NextTypeInv, InitLimit, NextLimit, PTL DEF Spec

-----------------------------------------------------------------------------
(* What a request has planned.                                             *)

\* The steps taken with the lock leave the others where they are.
LEMMA HolderMoves ==
    ASSUME TypeInv, LockInv, [Next]_vars, NEW p \in Ops, pc'[p] \in Working
    PROVE  \/ Step(p) /\ pc[p] \in Holding /\ req' = req /\ gone' = gone
           \/ /\ UNCHANGED <<xray, xrayRun, hy, hyRun, subs>>
              /\ pc'[p] = pc[p] /\ local'[p] = local[p] /\ req'[p] = req[p]
<1> DEFINE Steps0 == Step(p) /\ pc[p] \in Holding /\ req' = req /\ gone' = gone
           Stays == /\ UNCHANGED <<xray, xrayRun, hy, hyRun, subs>>
                    /\ pc'[p] = pc[p] /\ local'[p] = local[p] /\ req'[p] = req[p]
<1> USE DEF files, services
<1>0. /\ pc \in [Ops -> Steps] /\ local \in [Ops -> Locals \cup {None}]
      /\ req \in [Ops -> Request \cup {None}] /\ reply \in [Ops -> Replies]
  BY DEF TypeInv, TypeOK
<1>1. Working \subseteq Holding /\ "dead" \notin Working /\ "waiting" \notin Working
      /\ "loading" \notin Working /\ "done" \notin Working
  BY DEF Working, Holding
<1>2. ASSUME NEW q \in Ops, Arrive(q) PROVE Stays
  BY <1>0, <1>1, <1>2 DEF Arrive, At
<1>3. ASSUME NEW q \in Ops, ClientGone(q) PROVE Stays
  BY <1>3 DEF ClientGone
<1>4. ASSUME NEW S \in SUBSET Live, Kill(S) PROVE pc[p] \in Holding /\ p \notin S /\ lock = p
  BY <1>0, <1>1, <1>4 DEF Kill, LockInv
<1>5. ASSUME NEW q \in Ops, CliCrash(q) PROVE Stays
  BY <1>1, <1>4, <1>5 DEF CliCrash, Kill
<1>6. CASE AgentCrash
  <2>1. {q \in Live : Agent(q)} \in SUBSET Live
    OBVIOUS
  <2>2. QED
    BY <1>4, <1>6, <2>1 DEF AgentCrash, Kill
<1>7. CASE Reboot
  BY <1>4, <1>7 DEF Reboot, Live
<1>8. ASSUME NEW q \in Ops, q # p, Step(q) PROVE Stays
  <2>1. CASE AcquireConfigLock(q)
    BY <1>0, <1>1, <1>8, <2>1, NoneAssumption DEF AcquireConfigLock, LockInv
  <2>2. CASE ErrLockBusy(q)
    BY <1>0, <1>1, <1>8, <2>2 DEF ErrLockBusy
  <2>3. ASSUME pc[q] \in Holding, pc'[p] = pc[p] PROVE FALSE
    BY <1>1, <1>8, <2>3 DEF LockInv
  <2>4. CASE Load(q)
    <3>1. pc[q] \in Holding
      BY <2>4 DEF Load, Fails, At, Holding
    <3>2. pc'[p] = pc[p]
      BY <1>0, <1>8, <2>4, LoadOutcome DEF Plan, Return
    <3>3. QED
      BY <2>3, <3>1, <3>2
  <2>5. CASE \/ WriteXrayConfigChecked(q) \/ RestartXray(q) \/ RestoreXray(q) \/ RestartOld(q)
             \/ SetUsers(q) \/ ReloadService(q) \/ RemoveSubscription(q) \/ WriteSubscriptions(q)
    <3>1. pc[q] \in Holding
      BY <2>5 DEF WriteXrayConfigChecked, RestartXray, RestoreXray, RestartOld, SetUsers,
         ReloadService, RemoveSubscription, WriteSubscriptions, Fails, At, Holding
    <3>2. (\E step : GoTo(q, step)) \/ (\E answer : Return(q, answer))
      BY <2>5 DEF WriteXrayConfigChecked, RestartXray, RestoreXray, RestartOld, SetUsers,
         ReloadService, AfterHysteria, RemoveSubscription, WriteSubscriptions, Fails
    <3>3. pc'[p] = pc[p]
      BY <1>0, <1>8, <3>2 DEF GoTo, Return
    <3>4. QED
      BY <2>3, <3>1, <3>3
  <2>6. QED
    BY <1>8, <2>1, <2>2, <2>4, <2>5 DEF Step
<1>9. CASE Step(p)
  <2>1. pc[p] \in Holding
    BY <1>0, <1>1, <1>9 DEF Step, AcquireConfigLock, ErrLockBusy, Load, WriteXrayConfigChecked,
       RestartXray, RestoreXray, RestartOld, SetUsers, ReloadService, RemoveSubscription,
       WriteSubscriptions, Fails, At, Holding
  <2>2. req' = req /\ gone' = gone
    BY <1>9 DEF Step, AcquireConfigLock, ErrLockBusy, Load, WriteXrayConfigChecked,
       RestartXray, RestoreXray, RestartOld, SetUsers, ReloadService, RemoveSubscription,
       WriteSubscriptions
  <2>3. QED
    BY <1>9, <2>1, <2>2
<1>10. CASE UNCHANGED vars
  BY <1>10 DEF vars
<1>11. QED
  BY <1>2, <1>3, <1>5, <1>6, <1>7, <1>8, <1>9, <1>10 DEF Next

\* Whoever is at work has gone from one step to the next, or from Load.
LEMMA StepFrom ==
    ASSUME TypeInv, NEW p \in Ops, Step(p), pc'[p] \in Working
    PROVE  \/ Load(p)
           \/ WriteXrayConfigChecked(p) /\ NoFault /\ p \notin gone /\ pc'[p] = "restart_xray"
              /\ xray' = local[p].newX
           \/ RestartXray(p) /\ NoFault /\ p \notin gone /\ pc'[p] = AfterRestart(p) /\ xrayRun' = xray
           \/ RestartXray(p) /\ pc'[p] = "restore_xray" /\ (Fault \/ p \in gone)
           \/ RestoreXray(p) /\ NoFault /\ pc'[p] = "restart_old" /\ xray' = local[p].oldX
           \/ SetUsers(p) /\ NoFault /\ hy' = local[p].newH
              /\ pc'[p] = IF Agent(p) /\ ~Hy2On THEN "write_subs" ELSE "reload_hy"
           \/ ReloadService(p) /\ NoFault /\ p \notin gone /\ Hy2On /\ hyRun' = hy
              /\ \/ Agent(p) /\ pc'[p] = "write_subs"
                 \/ ~Agent(p) /\ req[p].kind = "cli_add" /\ pc'[p] = "write_xray"
           \/ RemoveSubscription(p) /\ NoFault /\ pc'[p] = "write_hy" /\ req[p].user \in Names(hy)
              /\ subs' = [subs EXCEPT ![req[p].user] = [x |-> NoCred, h |-> NoCred]]
<1>1. pc \in [Ops -> Steps] /\ "done" \notin Working /\ "loading" \notin Working
  BY DEF TypeInv, TypeOK, Working, Holding
<1>2. ASSUME NEW answer, Return(p, answer) PROVE FALSE
  BY <1>1, <1>2 DEF Return
<1>3. ASSUME NEW step, GoTo(p, step) PROVE pc'[p] = step
  BY <1>1, <1>3 DEF GoTo
<1>4. ~AcquireConfigLock(p) /\ ~ErrLockBusy(p) /\ ~RestartOld(p) /\ ~WriteSubscriptions(p)
  BY <1>1, <1>2 DEF AcquireConfigLock, ErrLockBusy, RestartOld, WriteSubscriptions, Fails
<1>5. CASE WriteXrayConfigChecked(p)
  BY <1>2, <1>3, <1>5 DEF WriteXrayConfigChecked
<1>6. CASE RestartXray(p)
  BY <1>3, <1>6 DEF RestartXray
<1>7. CASE RestoreXray(p)
  BY <1>2, <1>3, <1>7 DEF RestoreXray, Fails
<1>8. CASE SetUsers(p)
  BY <1>2, <1>3, <1>8 DEF SetUsers, Fails
<1>9. CASE ReloadService(p)
  BY <1>2, <1>3, <1>9 DEF ReloadService, AfterHysteria
<1>10. CASE RemoveSubscription(p)
  BY <1>2, <1>3, <1>10 DEF RemoveSubscription, Fails
<1>11. QED
  BY <1>4, <1>5, <1>6, <1>7, <1>8, <1>9, <1>10 DEF Step

\* The last steps but Load keep what was planned.
LEMMA StepKeeps ==
    ASSUME TypeInv, NEW p \in Ops, Step(p), pc'[p] \in Working, ~Load(p)
    PROVE  local' = local /\ pc[p] \in Working
<1>1. pc \in [Ops -> Steps] /\ "done" \notin Working
  BY DEF TypeInv, TypeOK, Working, Holding
<1>2. ASSUME NEW answer, Return(p, answer) PROVE FALSE
  BY <1>1, <1>2 DEF Return
<1>3. pc[p] \in Working
  BY StepFrom DEF WriteXrayConfigChecked, RestartXray, RestoreXray, SetUsers,
     ReloadService, RemoveSubscription, Fails, At, Working, Holding
<1>4. local' = local
  BY <1>2, StepFrom DEF WriteXrayConfigChecked, RestartXray, RestoreXray, SetUsers,
     ReloadService, AfterHysteria, RemoveSubscription, Fails, GoTo
<1>5. QED
  BY <1>3, <1>4

\* Whether there is a hysteria config, and HY2_ENABLED, do not change.
LEMMA HyStays ==
    ASSUME TypeInv, [Next]_vars
    PROVE  (HyFile' <=> HyFile) /\ (Hy2On' <=> Hy2On)
<1> USE DEF services, files, HyFile, Hy2On
<1>1. hy \in HyConfig /\ hy # NoUnit /\ hy # NoFile /\ Down # NoUnit /\ Down # NoFile
      /\ NoUnit # NoFile
  BY RunAssumption DEF TypeInv, TypeOK
<1> DEFINE Same == hyRun' = hyRun \/ (Hy2On /\ hyRun' \in {hy, Down})
<1>2. ASSUME NEW p \in Ops, Step(p) PROVE Same
  <2>1. CASE ReloadService(p)
    BY <2>1 DEF ReloadService
  <2>2. QED
    BY <1>2, <2>1 DEF Step, AcquireConfigLock, ErrLockBusy, Load, WriteXrayConfigChecked, RestartXray,
       RestoreXray, RestartOld, SetUsers, RemoveSubscription, WriteSubscriptions
<1>3. ASSUME Reboot PROVE Same
  BY <1>3 DEF Reboot
<1>4. Same
  BY <1>2, <1>3 DEF Next, Arrive, ClientGone, CliCrash, AgentCrash, vars
<1>5. QED
  BY <1>1, <1>4

\* What Load plans.  The commands change one user of the first inbound, the
\* requests of the agent render the same users for both files, and only a sync
\* changes the credentials of a user that stays.
Adds(p) == req[p].kind \in {"agent_add", "cli_add"}
Removes(p) == req[p].kind \in {"agent_delete", "cli_remove"}

Planned(p) ==
    LET u == req[p].user
        was == local[p].oldX[Main]
        new == local[p].newX[Main]
        wasH == local[p].oldH
        newH == local[p].newH
    IN  /\ req[p].kind = "cli_add" =>
              /\ new = [was EXCEPT ![u] = p] /\ u \notin Names(was)
              /\ newH = IF u \in Names(wasH) \/ ~HyFile THEN wasH ELSE [wasH EXCEPT ![u] = p]
        /\ req[p].kind = "cli_remove" =>
              /\ new = [was EXCEPT ![u] = NoCred] /\ u \in Names(was)
              /\ newH = [wasH EXCEPT ![u] = NoCred]
        /\ Agent(p) => Names(new) = Names(newH)
        /\ req[p].kind # "agent_sync" => \A v \in Users :
              /\ v \in Names(was) => \/ new[v] = was[v]
                                     \/ v \notin Names(new) /\ v = u /\ Removes(p)
              /\ v \in Names(new) => new[v] = was[v] \/ (v \notin Names(was) /\ v = u /\ Adds(p))
              /\ v \in Names(wasH) => \/ newH[v] = wasH[v] \/ v \notin Names(was)
                                      \/ v \notin Names(newH) /\ v = u /\ Removes(p)

PlannedInv == \A p \in Ops : pc[p] \in Working => Planned(p)

LEMMA PlanMade ==
    ASSUME TypeInv, NEW p \in Ops, NEW x, NEW h, NEW step, Plan(p, x, h, step)
    PROVE  /\ pc'[p] = step
           /\ local'[p].oldX = xray /\ local'[p].oldH = hy
           /\ local'[p].newX = x /\ local'[p].newH = h
BY DEF Plan, TypeInv, TypeOK

\* A password for exactly the users of the first inbound; those that hysteria has
\* stay as they are.
LEMMA Passwords ==
    ASSUME TypeInv, NEW p \in Ops
    PROVE  /\ SyncPasswords(p) \in HyConfig
           /\ Names(SyncPasswords(p)) = Names(xray[Main])
           /\ \A v \in Names(hy) \cap Names(xray[Main]) : SyncPasswords(p)[v] = hy[v]
<1>1. xray[Main] \in [Users -> Cred] /\ hy \in [Users -> Cred] /\ p # NoCred
  BY MainAssumption, CredAssumption DEF TypeInv, TypeOK, XrayConfig, HyConfig
<1>2. SyncPasswords(p) \in HyConfig
  BY <1>1 DEF SyncPasswords, HyConfig, Cred
<1>3. QED
  BY <1>1, <1>2 DEF SyncPasswords, Names

LEMMA LoadPlanned ==
    ASSUME TypeInv, NEW p \in Ops, Load(p), pc'[p] \in Working
    PROVE  /\ Planned(p)'
           /\ local'[p].oldX = xray /\ local'[p].oldH = hy
           /\ UNCHANGED <<xray, xrayRun, hy, hyRun, subs>>
           /\ \/ /\ pc'[p] = "write_xray"
                 /\ req[p].kind = "cli_add" =>
                      local'[p].newH = hy /\ (req[p].user \in Names(hy) \/ ~HyFile)
              \/ pc'[p] = "write_hy" /\ req[p].kind = "cli_add" /\ req[p].user \notin Names(hy)
<1>1. req[p] \in Request /\ req' = req /\ UNCHANGED <<xray, xrayRun, hy, hyRun, subs>>
  BY DEF Load, Fails, At, TypeInv, ReadyInv, Holding, files, services
<1>2. xray[Main] \in [Users -> Cred] /\ hy \in [Users -> Cred] /\ xray \in XrayConfig
      /\ p # NoCred /\ PanelCred # NoCred /\ NoCred \in Cred /\ p \in Cred
  BY MainAssumption, CredAssumption DEF TypeInv, TypeOK, XrayConfig, HyConfig, Cred
<1>3. ASSUME NEW answer, Return(p, answer) PROVE FALSE
  BY <1>3 DEF Return, TypeInv, TypeOK, Working, Holding
<1>4. \A m : Rendered(m)[Main] = m
  BY MainAssumption DEF Rendered
<1>0. HyFile' <=> HyFile
  BY <1>1 DEF HyFile
<1> DEFINE u == req[p].user
           Made(x, h, step) == Planned(p)' /\ pc'[p] = step /\ local'[p].newH = h
                               /\ local'[p].oldX = xray /\ local'[p].oldH = hy
<1>5. CASE PlanAgentAdd(p)
  <2> DEFINE known == u \in Names(xray[Main])
             uuids == [xray[Main] EXCEPT ![u] = IF known THEN @ ELSE p]
             pws == [SyncPasswords(p) EXCEPT ![u] = IF known THEN @ ELSE p]
  <2>1. req[p].kind = "agent_add" /\ u \in Users /\ Plan(p, Rendered(uuids), pws, "write_xray")
    BY <1>1, <1>3, <1>5, RequestKinds DEF PlanAgentAdd
  <2>2. uuids \in [Users -> Cred] /\ pws \in [Users -> Cred]
    BY <1>2, Passwords DEF HyConfig
  <2>3. Names(uuids) = Names(xray[Main]) \cup {u} /\ Names(pws) = Names(xray[Main]) \cup {u}
    <3>1. \A v \in Users \ {u} : uuids[v] = xray[Main][v] /\ pws[v] = SyncPasswords(p)[v]
      BY <1>2, Passwords DEF HyConfig
    <3>2. uuids[u] # NoCred /\ pws[u] # NoCred
      BY <1>2, <2>1, Passwords DEF HyConfig, Names
    <3>3. QED
      BY <2>1, <3>1, <3>2, Passwords DEF Names
  <2>4. \A v \in Users :
          /\ v \in Names(xray[Main]) => uuids[v] = xray[Main][v]
          /\ v \in Names(uuids) => uuids[v] = xray[Main][v] \/ (v \notin Names(xray[Main]) /\ v = u)
          /\ v \in Names(hy) => pws[v] = hy[v] \/ v \notin Names(xray[Main])
    BY <1>2, <2>1, Passwords DEF HyConfig
  <2> HIDE DEF uuids, pws, known
  <2>5. /\ req'[p] = req[p]
        /\ pc'[p] = "write_xray" /\ local'[p].oldX = xray /\ local'[p].oldH = hy
        /\ local'[p].newX[Main] = uuids /\ local'[p].newH = pws
    BY <1>1, <1>4, <2>1, PlanMade
  <2>6. Planned(p)'
    BY <2>1, <2>3, <2>4, <2>5 DEF Planned, Adds
  <2>7. QED
    BY <1>1, <2>1, <2>5, <2>6
<1>6. CASE PlanAgentDelete(p)
  <2> DEFINE uuids == [xray[Main] EXCEPT ![u] = NoCred]
             pws == [SyncPasswords(p) EXCEPT ![u] = NoCred]
  <2>1. req[p].kind = "agent_delete" /\ u \in Users /\ Plan(p, Rendered(uuids), pws, "write_xray")
    BY <1>1, <1>3, <1>6, RequestKinds DEF PlanAgentDelete
  <2>2. Names(uuids) = Names(xray[Main]) \ {u} /\ Names(pws) = Names(xray[Main]) \ {u}
    <3>1. \A v \in Users \ {u} : uuids[v] = xray[Main][v] /\ pws[v] = SyncPasswords(p)[v]
      BY <1>2, Passwords DEF HyConfig
    <3>2. uuids[u] = NoCred /\ pws[u] = NoCred
      BY <1>2, <2>1, Passwords DEF HyConfig
    <3>3. QED
      BY <3>1, <3>2, Passwords DEF Names
  <2>3. \A v \in Users :
          /\ v \in Names(xray[Main]) => uuids[v] = xray[Main][v] \/ (v \notin Names(uuids) /\ v = u)
          /\ v \in Names(uuids) => uuids[v] = xray[Main][v]
          /\ v \in Names(hy) => \/ pws[v] = hy[v] \/ v \notin Names(xray[Main])
                                \/ v \notin Names(pws) /\ v = u
    BY <1>2, <2>1, <2>2, Passwords DEF HyConfig
  <2> HIDE DEF uuids, pws
  <2>4. /\ req'[p] = req[p]
        /\ pc'[p] = "write_xray" /\ local'[p].oldX = xray /\ local'[p].oldH = hy
        /\ local'[p].newX[Main] = uuids /\ local'[p].newH = pws
    BY <1>1, <1>4, <2>1, PlanMade
  <2>5. Planned(p)'
    BY <2>1, <2>2, <2>3, <2>4 DEF Planned, Removes
  <2>6. QED
    BY <1>1, <2>1, <2>4, <2>5
<1>7. CASE PlanAgentSync(p)
  <2> DEFINE m == [v \in Users |-> IF v \in req[p].users THEN PanelCred ELSE NoCred]
  <2>1. req[p].kind = "agent_sync" /\ Plan(p, Rendered(m), m, "write_xray")
    BY <1>3, <1>7 DEF PlanAgentSync
  <2> HIDE DEF m
  <2>2. Made(Rendered(m), m, "write_xray")
    BY <1>1, <1>4, <2>1, PlanMade DEF Planned
  <2>3. QED
    BY <1>1, <2>1, <2>2
<1>8. CASE PlanCliAdd(p)
  <2> DEFINE x == [xray EXCEPT ![Main][u] = p]
             h == IF u \in Names(hy) \/ ~HyFile THEN hy ELSE [hy EXCEPT ![u] = p]
             step == IF u \in Names(hy) \/ ~HyFile THEN "write_xray" ELSE "write_hy"
  <2>1. req[p].kind = "cli_add" /\ u \in Users /\ u \notin Names(xray[Main]) /\ Plan(p, x, h, step)
    BY <1>1, <1>3, <1>8, RequestKinds DEF PlanCliAdd
  <2>2. x[Main] = [xray[Main] EXCEPT ![u] = p]
    BY <1>2, MainAssumption DEF XrayConfig
  <2>3. \A v \in Users :
          /\ v \in Names(xray[Main]) => x[Main][v] = xray[Main][v]
          /\ v \in Names(x[Main]) => x[Main][v] = xray[Main][v] \/ (v \notin Names(xray[Main]) /\ v = u)
          /\ v \in Names(hy) => h[v] = hy[v] \/ v \notin Names(xray[Main])
    BY <1>2, <2>1, <2>2
  <2>4. ~Agent(p)
    BY <2>1 DEF Agent, AgentKinds
  <2>5. /\ req'[p] = req[p] /\ ~Agent(p)'
        /\ pc'[p] = step /\ local'[p].oldX = xray /\ local'[p].oldH = hy
        /\ local'[p].newX = x /\ local'[p].newH = h
    BY <1>1, <2>1, <2>4, PlanMade DEF Agent
  <2> HIDE DEF x
  <2>6. Planned(p)'
    BY <2>1, <2>2, <2>3, <2>5, <1>0 DEF Planned, Adds, Removes
  <2>7. QED
    BY <1>1, <2>1, <2>5, <2>6
<1>9. CASE PlanCliRemove(p)
  <2> DEFINE x == [xray EXCEPT ![Main][u] = NoCred]
             h == [hy EXCEPT ![u] = NoCred]
  <2>1. req[p].kind = "cli_remove" /\ u \in Users /\ u \in Names(xray[Main])
        /\ Plan(p, x, h, "write_xray")
    BY <1>1, <1>3, <1>9, RequestKinds DEF PlanCliRemove
  <2>2. x[Main] = [xray[Main] EXCEPT ![u] = NoCred]
    BY <1>2, MainAssumption DEF XrayConfig
  <2>3. \A v \in Users :
          /\ v \in Names(xray[Main]) => x[Main][v] = xray[Main][v] \/ (v \notin Names(x[Main]) /\ v = u)
          /\ v \in Names(x[Main]) => x[Main][v] = xray[Main][v]
          /\ v \in Names(hy) => h[v] = hy[v] \/ (v \notin Names(h) /\ v = u)
    BY <1>2, <2>1, <2>2 DEF Names
  <2>4. ~Agent(p)
    BY <2>1 DEF Agent, AgentKinds
  <2> HIDE DEF x
  <2>5. /\ req'[p] = req[p] /\ ~Agent(p)'
        /\ pc'[p] = "write_xray" /\ local'[p].oldX = xray /\ local'[p].oldH = hy
        /\ local'[p].newX = x /\ local'[p].newH = h
    BY <1>1, <2>1, <2>4, PlanMade DEF Agent
  <2>6. Planned(p)'
    BY <2>1, <2>2, <2>3, <2>5, <1>0 DEF Planned, Adds, Removes
  <2>7. QED
    BY <1>1, <2>1, <2>5, <2>6
<1>10. QED
  BY <1>3, <1>5, <1>6, <1>7, <1>8, <1>9 DEF Load, PlanNothing, Fails

LEMMA NextPlanned == TypeInv /\ LockInv /\ PlannedInv /\ [Next]_vars => PlannedInv'
<1>1. SUFFICES ASSUME TypeInv, LockInv, PlannedInv, [Next]_vars, NEW p \in Ops, pc'[p] \in Working
               PROVE  Planned(p)'
  BY DEF PlannedInv
<1>2. CASE Load(p)
  BY <1>1, <1>2, LoadPlanned
<1>3. ASSUME pc[p] \in Working, local'[p] = local[p], req'[p] = req[p] PROVE Planned(p)'
  BY <1>1, <1>3, HyStays DEF PlannedInv, Planned, Adds, Removes, Agent
<1>4. QED
  BY <1>1, <1>2, <1>3, HolderMoves, StepKeeps

LEMMA InitPlanned == Init => PlannedInv
BY DEF Init, PlannedInv, Working, Holding

\* Credentials in clients' hands stay valid, through every failure and restore:
\* only a sync, the removal of a user or the undoing of a failed add changes or
\* drops its uuid in the first inbound, and only a sync or the removal of a user
\* its password in hysteria, unless an earlier removal had been cut short there.
THEOREM CredentialsAreStable == Spec => StableCredentials
<1> DEFINE StableX(u) == u \in Names(xray[Main]) =>
                           \/ xray'[Main][u] = xray[Main][u]
                           \/ u \notin Names(xray'[Main]) /\ (Leaving(u) \/ Undone(u))
           StableH(u) == u \in Names(hy) =>
                           \/ hy'[u] = hy[u] \/ Orphan(u)
                           \/ u \notin Names(hy') /\ Leaving(u)
           Stable == ~Syncing =>
             \A u \in Users :
               /\ u \in Names(xray[Main]) =>
                    \/ xray'[Main][u] = xray[Main][u]
                    \/ u \notin Names(xray'[Main]) /\ (Leaving(u) \/ Undone(u))
               /\ u \in Names(hy) =>
                    \/ hy'[u] = hy[u] \/ Orphan(u)
                    \/ u \notin Names(hy') /\ Leaving(u)
<1>1. TypeInv /\ PlanInv /\ PlannedInv /\ [Next]_vars => [Stable]_vars
  <2>1. SUFFICES ASSUME TypeInv, PlanInv, PlannedInv, [Next]_vars, ~Syncing, NEW u \in Users
                 PROVE  StableX(u) /\ StableH(u)
    OBVIOUS
  <2>2. ASSUME NEW p \in Ops, pc[p] \in {"write_xray", "restore_xray", "write_hy"}
        PROVE  LET was == local[p].oldX[Main]
                   new == local[p].newX[Main]
                   newH == local[p].newH
               IN  /\ u \in Names(was) => new[u] = was[u] \/ (u \notin Names(new) /\ Leaving(u))
                   /\ u \in Names(new) /\ pc[p] = "restore_xray" =>
                        new[u] = was[u] \/ (u \notin Names(was) /\ Undone(u))
                   /\ u \in Names(local[p].oldH) =>
                        \/ newH[u] = local[p].oldH[u] \/ u \notin Names(was)
                        \/ u \notin Names(newH) /\ Leaving(u)
    <3>1. pc[p] \in Working /\ pc[p] \in Holding
      BY <2>2 DEF Working, Holding
    <3>2. req[p].kind # "agent_sync"
      BY <2>1, <3>1 DEF Syncing, AtWork
    <3>3. /\ u = req[p].user /\ Removes(p) => Leaving(u)
          /\ u = req[p].user /\ Adds(p) /\ pc[p] = "restore_xray" => Undone(u)
      BY <3>1 DEF Removes, Adds, Leaving, Undone, AtWork, At
    <3>4. QED
      BY <2>1, <3>1, <3>2, <3>3 DEF PlannedInv, Planned
  <2>3. ASSUME NEW p \in Ops, WriteXrayConfigChecked(p) PROVE StableX(u) /\ hy' = hy
    <3>1. /\ pc[p] = "write_xray" /\ hy' = hy /\ xray' \in {xray, local[p].newX}
          /\ xray = local[p].oldX
      BY <2>1, <2>3 DEF WriteXrayConfigChecked, At, PlanInv, PlanOf
    <3>2. QED
      BY <2>2, <3>1
  <2>4. ASSUME NEW p \in Ops, RestoreXray(p) PROVE StableX(u) /\ hy' = hy
    <3>1. /\ pc[p] = "restore_xray" /\ hy' = hy /\ xray' \in {xray, local[p].oldX}
          /\ xray = local[p].newX
      BY <2>1, <2>4 DEF RestoreXray, Fails, At, PlanInv, PlanOf
    <3>2. QED
      BY <2>2, <3>1
  <2>5. ASSUME NEW p \in Ops, SetUsers(p) PROVE StableH(u) /\ xray' = xray
    <3>1. /\ pc[p] = "write_hy" /\ xray' = xray /\ hy' \in {hy, local[p].newH}
          /\ hy = local[p].oldH
      BY <2>1, <2>5 DEF SetUsers, Fails, At, PlanInv, PlanOf
    <3>2. u \notin Names(local[p].oldX[Main]) => Orphan(u)
      BY <3>1 DEF Orphan, At
    <3>3. QED
      BY <2>2, <3>1, <3>2
  <2>6. CASE UNCHANGED <<xray, hy>>
    BY <2>6
  <2>7. ASSUME NEW p \in Ops, Step(p)
        PROVE  \/ WriteXrayConfigChecked(p) \/ RestoreXray(p) \/ SetUsers(p)
               \/ UNCHANGED <<xray, hy>>
    BY <2>7 DEF Step, AcquireConfigLock, ErrLockBusy, Load, RestartXray, RestartOld, ReloadService,
       RemoveSubscription, WriteSubscriptions, files
  <2>8. CASE UNCHANGED files \/ UNCHANGED vars
    BY <2>6, <2>8 DEF files, vars
  <2>9. QED
    BY <2>1, <2>3, <2>4, <2>5, <2>6, <2>7, <2>8
       DEF Next, Arrive, ClientGone, CliCrash, AgentCrash, Reboot, Kill
<1>2. QED
  BY <1>1, InitTypeInv, InitLockPlan, InitPlanned, NextTypeInv, NextLock, NextPlan, NextPlanned,
     PTL DEF Spec, StableCredentials

-----------------------------------------------------------------------------
(* What a request has applied.                                             *)

\* How far p has got with its plan at each of its steps.
Applied(p) ==
    LET written == xray = local[p].newX /\ xrayRun = xray
        add == req[p].kind = "cli_add"
    IN  /\ pc[p] \in {"write_hy", "reload_hy"} => add \/ written
        /\ pc[p] \in {"remove_sub", "write_subs"} => written
        /\ pc[p] = "remove_sub" => req[p].kind = "cli_remove"
        /\ pc[p] \in {"reload_hy", "write_subs"} => hy = local[p].newH
        /\ pc[p] \in {"write_xray", "restart_xray"} /\ add => hy = local[p].newH
        /\ pc[p] = "write_subs" => req[p].kind # "cli_remove" /\ (Agent(p) /\ Hy2On => hyRun = hy)
        /\ pc[p] \in {"write_hy", "reload_hy"} /\ req[p].kind = "cli_remove" =>
              subs[req[p].user] = [x |-> NoCred, h |-> NoCred]

AppliedInv == \A p \in Ops : pc[p] \in Working => Applied(p)

LEMMA NextApplied ==
    TypeInv /\ LockInv /\ PlanInv /\ PlannedInv /\ AppliedInv /\ [Next]_vars => AppliedInv'
<1>1. SUFFICES ASSUME TypeInv, LockInv, PlanInv, PlannedInv, AppliedInv, [Next]_vars,
                      NEW p \in Ops, pc'[p] \in Working
               PROVE  Applied(p)'
  BY DEF AppliedInv
<1>2. CASE Load(p)
  <2>1. /\ req' = req /\ hy' = hy
        /\ \/ pc'[p] = "write_xray" /\ (req[p].kind = "cli_add" => local'[p].newH = hy)
           \/ pc'[p] = "write_hy" /\ req[p].kind = "cli_add"
    BY <1>1, <1>2, LoadPlanned DEF Load
  <2>2. QED
    BY <2>1 DEF Applied
<1>3. ASSUME UNCHANGED <<xray, xrayRun, hy, hyRun, subs>>,
             pc'[p] = pc[p], local'[p] = local[p], req'[p] = req[p]
      PROVE  Applied(p)'
  BY <1>1, <1>3 DEF AppliedInv, Applied, Agent, Hy2On
<1>4. CASE Step(p) /\ ~Load(p) /\ req' = req
  <2>1. local' = local /\ pc[p] \in Working /\ Applied(p) /\ PlanOf(p) /\ Planned(p)
    BY <1>1, <1>4, StepKeeps DEF AppliedInv, PlanInv, PlannedInv
  <2>2. CASE WriteXrayConfigChecked(p) /\ pc'[p] = "restart_xray" /\ xray' = local[p].newX
    BY <1>4, <2>1, <2>2 DEF WriteXrayConfigChecked, At, Applied, services
  <2>3. CASE RestartXray(p) /\ pc'[p] = AfterRestart(p) /\ xrayRun' = xray
    <3>1. pc[p] = "restart_xray" /\ UNCHANGED <<xray, hy, hyRun, local, req>> /\ req[p] \in Request
      BY <1>1, <1>4, <2>1, <2>3 DEF RestartXray, At, files, TypeInv, ReadyInv, Holding
    <3>2. xray = local[p].newX
      BY <2>1, <3>1 DEF PlanOf
    <3>3. CASE Agent(p)
      <4>1. req[p].kind \notin {"cli_add", "cli_remove"}
        BY <3>3 DEF Agent, AgentKinds
      <4>2. QED
        BY <2>3, <3>1, <3>2, <3>3, <4>1 DEF AfterRestart, Applied
    <3>4. CASE req[p].kind = "cli_add"
      BY <2>1, <2>3, <3>1, <3>2, <3>4 DEF AfterRestart, Applied, Agent, AgentKinds
    <3>5. CASE req[p].kind = "cli_remove"
      BY <2>3, <3>1, <3>2, <3>5 DEF AfterRestart, Applied, Agent, AgentKinds
    <3>6. QED
      BY <3>1, <3>3, <3>4, <3>5, RequestKinds DEF Agent, CliKinds
  <2>4. CASE pc'[p] \in {"restore_xray", "restart_old"}
    BY <2>4 DEF Applied
  <2>5. CASE SetUsers(p) /\ hy' = local[p].newH
             /\ pc'[p] = IF Agent(p) /\ ~Hy2On THEN "write_subs" ELSE "reload_hy"
    <3>1. pc[p] = "write_hy" /\ UNCHANGED <<xray, xrayRun, hyRun, subs, local, req>>
      BY <1>4, <2>1, <2>5 DEF SetUsers, At, services
    <3>2. Agent(p) => req[p].kind \notin {"cli_add", "cli_remove"}
      BY DEF Agent, AgentKinds
    <3>3. QED
      BY <2>1, <2>5, <3>1, <3>2 DEF Applied, Agent, Hy2On
  <2>6. CASE /\ ReloadService(p) /\ hyRun' = hy
             /\ \/ Agent(p) /\ pc'[p] = "write_subs"
                \/ ~Agent(p) /\ req[p].kind = "cli_add" /\ pc'[p] = "write_xray"
    <3>1. pc[p] = "reload_hy" /\ UNCHANGED <<xray, xrayRun, hy, subs, local, req>>
      BY <1>4, <2>1, <2>6 DEF ReloadService, At, files
    <3>2. Agent(p) => req[p].kind \notin {"cli_add", "cli_remove"}
      BY DEF Agent, AgentKinds
    <3>3. QED
      BY <2>1, <2>6, <3>1, <3>2 DEF Applied, Agent, Hy2On
  <2>7. CASE RemoveSubscription(p) /\ pc'[p] = "write_hy" /\ req[p].user \in Names(hy)
             /\ subs' = [subs EXCEPT ![req[p].user] = [x |-> NoCred, h |-> NoCred]]
    <3>1. pc[p] = "remove_sub" /\ UNCHANGED <<xray, xrayRun, hy, hyRun, local, req>>
      BY <1>4, <2>1, <2>7 DEF RemoveSubscription, At, services
    <3>2. subs'[req[p].user] = [x |-> NoCred, h |-> NoCred]
      <4>1. subs' = [subs EXCEPT ![req[p].user] = [x |-> NoCred, h |-> NoCred]]
            /\ req[p].user \in Names(hy)
        BY <2>7
      <4>2. QED
        BY <1>1, <4>1 DEF TypeInv, TypeOK, Names
    <3>3. QED
      BY <2>1, <2>7, <3>1, <3>2 DEF Applied
  <2>8. QED
    BY <1>1, <1>4, <2>2, <2>3, <2>4, <2>5, <2>6, <2>7, StepFrom
<1>5. QED
  BY <1>1, <1>2, <1>3, <1>4, HolderMoves

LEMMA InitApplied == Init => AppliedInv
BY DEF Init, AppliedInv, Working, Holding

\* Answers come from the steps of the request that is answered.
LEMMA OkReturns ==
    ASSUME TypeInv, [Next]_vars, NEW p \in Ops, Answers(p, "ok")
    PROVE  /\ Return(p, "ok")
           /\ \/ ReloadService(p) /\ ~Agent(p) /\ req[p].kind # "cli_add"
              \/ RemoveSubscription(p) /\ req[p].user \notin Names(hy)
              \/ WriteSubscriptions(p)
<1>1. reply \in [Ops -> Replies] /\ reply[p] = "none" /\ reply'[p] = "ok"
  BY DEF TypeInv, TypeOK, Answers
<1>2. ASSUME NEW q \in Ops, NEW answer, Return(q, answer) PROVE q = p /\ answer = "ok"
  BY <1>1, <1>2 DEF Return
<1>3. reply' # reply
  BY <1>1
<1>4. ASSUME NEW q \in Ops, Arrive(q) PROVE FALSE
  BY <1>1, <1>4 DEF Arrive
<1>5. PICK q \in Ops : Step(q)
  BY <1>3, <1>4 DEF Next, ClientGone, CliCrash, AgentCrash, Reboot, Kill, vars
<1>6. ~AcquireConfigLock(q) /\ ~ErrLockBusy(q)
  BY <1>1 DEF AcquireConfigLock, ErrLockBusy
<1>7. ASSUME NEW step, GoTo(q, step) PROVE FALSE
  BY <1>3, <1>7 DEF GoTo
<1>8. ~Load(q)
  <2>1. ASSUME NEW x, NEW h, NEW step, Plan(q, x, h, step) PROVE FALSE
    BY <1>3, <2>1 DEF Plan
  <2>2. QED
    BY <1>2, <2>1 DEF Load, Fails, PlanNothing, PlanAgentAdd, PlanAgentDelete, PlanAgentSync, PlanCliAdd,
       PlanCliRemove
<1>9. ~WriteXrayConfigChecked(q) /\ ~RestartXray(q) /\ ~RestoreXray(q) /\ ~RestartOld(q) /\ ~SetUsers(q)
  BY <1>2, <1>7 DEF WriteXrayConfigChecked, RestartXray, RestoreXray, RestartOld, SetUsers, Fails
<1>10. CASE ReloadService(q)
  BY <1>2, <1>7, <1>10 DEF ReloadService, AfterHysteria
<1>11. CASE RemoveSubscription(q)
  BY <1>2, <1>7, <1>11 DEF RemoveSubscription, Fails
<1>12. CASE WriteSubscriptions(q)
  BY <1>2, <1>12 DEF WriteSubscriptions, Fails
<1>13. QED
  BY <1>5, <1>6, <1>8, <1>9, <1>10, <1>11, <1>12 DEF Step

\* An ok is never a lie, whatever failed before it, for any number of requests:
\* the files hold what the request planned and answers with, xray runs that file,
\* after a request of the agent so does hysteria, and the subscriptions follow: every
\* user an agent request leaves in xray has its own, so has the one a command adds,
\* and the one a command removes has none.
THEOREM OkIsApplied == Spec => SuccessIsApplied
<1> DEFINE Is(p) ==
         /\ xray' = local[p].newX /\ xrayRun' = xray'
         /\ hy' = local[p].newH
         /\ Agent(p) /\ Hy2On => hyRun' = hy'
         /\ Agent(p) => \A u \in Names(xray'[Main]) : Subscribed(u)
         /\ req[p].kind = "cli_add" => Subscribed(req[p].user)
         /\ req[p].kind = "cli_remove" =>
              subs'[req[p].user] = [x |-> NoCred, h |-> NoCred]
           IsApplied == \A p \in Ops : Answers(p, "ok") => Is(p)
<1>1. TypeInv /\ PlanInv /\ PlannedInv /\ AppliedInv /\ [Next]_vars => [IsApplied]_vars
  <2>1. SUFFICES ASSUME TypeInv, PlanInv, PlannedInv, AppliedInv, [Next]_vars,
                        NEW p \in Ops, Answers(p, "ok")
                 PROVE  Is(p)
    OBVIOUS
  <2>2. ASSUME pc[p] \in {"reload_hy", "remove_sub", "write_subs"}
        PROVE  /\ Applied(p) /\ PlanOf(p) /\ Planned(p) /\ local[p].oldH \in HyConfig
               /\ req[p] \in Request
    BY <2>1, <2>2 DEF AppliedInv, PlanInv, PlannedInv, TypeInv, ReadyInv, Working, Holding, Locals
  <2>3. CASE ReloadService(p) /\ ~Agent(p) /\ req[p].kind # "cli_add"
    <3>1. pc[p] = "reload_hy" /\ UNCHANGED <<xray, xrayRun, hy, subs>>
      BY <2>3 DEF ReloadService, At, files
    <3>2. QED
      BY <2>2, <2>3, <3>1 DEF Applied
  <2>4. CASE RemoveSubscription(p) /\ req[p].user \notin Names(hy)
    <3>1. pc[p] = "remove_sub" /\ UNCHANGED <<xray, xrayRun, hy, hyRun>>
      BY <2>4 DEF RemoveSubscription, At, services
    <3>2. req[p].kind = "cli_remove" /\ ~Agent(p) /\ xray = local[p].newX /\ xrayRun = xray
      BY <2>2, <3>1 DEF Applied, Agent, AgentKinds
    <3>3. hy = local[p].oldH /\ local[p].newH = [local[p].oldH EXCEPT ![req[p].user] = NoCred]
      BY <2>2, <3>1, <3>2 DEF PlanOf, Planned
    <3>4. local[p].newH = hy
      BY <2>2, <2>4, <3>1, <3>3 DEF Names, HyConfig
    <3>5. subs' = [subs EXCEPT ![req[p].user] = [x |-> NoCred, h |-> NoCred]]
          /\ req[p].user \in Users
      <4>1. Return(p, "ok")
        BY <2>1, OkReturns
      <4>2. ~Return(p, "error")
        BY <2>1, <4>1 DEF Return, TypeInv, TypeOK
      <4>3. QED
        BY <2>2, <2>4, <3>1, <3>2, <4>2, RequestKinds DEF RemoveSubscription, Fails
    <3>6. subs'[req[p].user] = [x |-> NoCred, h |-> NoCred]
      BY <2>1, <3>5 DEF TypeInv, TypeOK
    <3>7. QED
      BY <3>1, <3>2, <3>4, <3>6
  <2>5. CASE WriteSubscriptions(p)
    <3> DEFINE due == IF Agent(p) THEN Names(xray[Main]) ELSE {req[p].user}
    <3>1. pc[p] = "write_subs" /\ UNCHANGED <<xray, xrayRun, hy, hyRun>>
      BY <2>5 DEF WriteSubscriptions, At, services
    <3>2. ServedHy' = ServedHy
      BY <3>1 DEF ServedHy, Hy2On, Nobody
    <3>3. subs' = Written(due, ServedHy) \/ (Fault /\ subs' = Written(due, Nobody))
      <4>1. Return(p, "ok")
        BY <2>1, OkReturns
      <4>2. ~Return(p, "error")
        BY <2>1, <4>1 DEF Return, TypeInv, TypeOK
      <4>3. QED
        BY <2>5, <4>2 DEF WriteSubscriptions, Fails
    <3>4. ASSUME NEW u \in due, u \in Users PROVE Subscribed(u)
      BY <3>1, <3>2, <3>3, <3>4 DEF Written, Nobody, Subscribed
    <3>5. /\ Agent(p) => \A u \in Names(xray'[Main]) : Subscribed(u)
          /\ req[p].kind = "cli_add" => Subscribed(req[p].user)
      <4>1. req[p].kind = "cli_add" => ~Agent(p) /\ req[p].user \in Users
        BY <2>2, <3>1, RequestKinds DEF Agent, AgentKinds
      <4>2. Names(xray[Main]) \subseteq Users
        BY DEF Names
      <4>3. QED
        BY <3>1, <3>4, <4>1, <4>2
    <3>6. QED
      BY <2>2, <3>1, <3>5 DEF Applied
  <2>6. QED
    BY <2>1, <2>3, <2>4, <2>5, OkReturns
<1>2. QED
  BY <1>1, InitTypeInv, InitLockPlan, InitPlanned, InitApplied, NextTypeInv, NextLock, NextPlan,
     NextPlanned, NextApplied, PTL DEF Spec, SuccessIsApplied

-----------------------------------------------------------------------------
(* One failure does not leave xray down.                                   *)

Undoing == {"restore_xray", "restart_old"}

\* The first failure that takes xray down is that of the restart, after which the
\* request holds the lock until it has started xray again.
ServeInv ==
    /\ gone # {} => faults > 0
    /\ \A p \in Ops : pc[p] \in Undoing => faults > 0
    /\ xrayRun = Down => \/ faults > 1
                         \/ faults = 1 /\ \E p \in Ops \ gone : pc[p] \in Undoing

LEMMA FaultCounts ==
    ASSUME TypeInv, [Next]_vars
    PROVE  /\ faults \in Nat /\ faults' \in {faults, faults + 1}
           /\ Fault => faults' = faults + 1
           /\ gone' = gone \/ Fault
<1>1. faults \in Nat
  BY BoundsAssumption DEF TypeInv, TypeOK
<1>2. ASSUME NEW p \in Ops, Step(p) PROVE gone' = gone /\ (Fault \/ faults' = faults)
  <2>1. CASE Load(p)
    BY <2>1, LoadOutcome DEF Load, NoFault
  <2>2. QED
    BY <1>2, <2>1 DEF Step, AcquireConfigLock, ErrLockBusy, WriteXrayConfigChecked, RestartXray,
       RestoreXray, RestartOld, SetUsers, ReloadService, RemoveSubscription, WriteSubscriptions,
       Fails, NoFault
<1>3. gone' = gone \/ Fault
  BY <1>2 DEF Next, Arrive, ClientGone, CliCrash, AgentCrash, Reboot, Kill, vars
<1>4. Fault \/ faults' = faults
  BY <1>2 DEF Next, Arrive, ClientGone, CliCrash, AgentCrash, Reboot, Kill, vars
<1>5. QED
  BY <1>1, <1>3, <1>4 DEF Fault

LEMMA OtherStays ==
    ASSUME TypeInv, NEW p \in Ops, NEW q \in Ops \ {p}, Step(q)
    PROVE  pc'[p] = pc[p]
<1>1. pc \in [Ops -> Steps]
  BY DEF TypeInv, TypeOK
<1>2. CASE Load(q)
  BY <1>1, <1>2, LoadOutcome DEF Plan, Return
<1>3. CASE AcquireConfigLock(q) \/ ErrLockBusy(q)
  BY <1>1, <1>3 DEF AcquireConfigLock, ErrLockBusy
<1>4. CASE \/ WriteXrayConfigChecked(q) \/ RestartXray(q) \/ RestoreXray(q) \/ RestartOld(q)
           \/ SetUsers(q) \/ ReloadService(q) \/ RemoveSubscription(q) \/ WriteSubscriptions(q)
  <2>1. (\E step : GoTo(q, step)) \/ (\E answer : Return(q, answer))
    BY <1>4 DEF WriteXrayConfigChecked, RestartXray, RestoreXray, RestartOld, SetUsers,
       ReloadService, AfterHysteria, RemoveSubscription, WriteSubscriptions, Fails
  <2>2. QED
    BY <1>1, <2>1 DEF GoTo, Return
<1>5. QED
  BY <1>2, <1>3, <1>4 DEF Step

LEMMA NextServe == TypeInv /\ LockInv /\ ServeInv /\ [Next]_vars => ServeInv'
<1>1. SUFFICES ASSUME TypeInv, LockInv, ServeInv, [Next]_vars PROVE ServeInv'
  OBVIOUS
<1> USE DEF files, services
<1>2. /\ faults \in Nat /\ faults' \in {faults, faults + 1} /\ faults' \in Nat
      /\ Fault => faults' = faults + 1
      /\ gone' = gone \/ Fault
  BY <1>1, FaultCounts
<1>3. xray \in XrayConfig /\ xray # Down /\ pc \in [Ops -> Steps]
  BY <1>1, RunAssumption DEF TypeInv, TypeOK
<1>4. gone' # {} => faults' > 0
  BY <1>1, <1>2 DEF ServeInv
<1>5. ASSUME NEW p \in Ops, pc'[p] \in Undoing PROVE faults' > 0
  <2>1. pc'[p] \in Working
    BY <1>5 DEF Undoing, Working, Holding
  <2>2. CASE pc'[p] = pc[p]
    BY <1>1, <1>2, <1>5, <2>2 DEF ServeInv
  <2>3. CASE Step(p)
    <3>1. ~Load(p)
      BY <1>1, <1>5, <2>1, LoadPlanned DEF Undoing
    <3>2. (RestartXray(p) /\ (Fault \/ p \in gone)) \/ RestoreXray(p)
      BY <1>1, <1>5, <2>1, <2>3, <3>1, StepFrom DEF Undoing, AfterRestart
    <3>3. p \in gone => faults > 0
      BY <1>1 DEF ServeInv
    <3>4. RestoreXray(p) => faults > 0
      BY <1>1 DEF RestoreXray, Fails, At, ServeInv, Undoing
    <3>5. QED
      BY <1>2, <3>2, <3>3, <3>4
  <2>4. QED
    BY <1>1, <2>1, <2>2, <2>3, HolderMoves
<1>6. ASSUME xrayRun' = Down, faults' <= 1
      PROVE  faults' = 1 /\ \E p \in Ops \ gone' : pc'[p] \in Undoing
  <2>1. CASE xrayRun = Down
    <3>1. faults = 1 /\ faults' = 1 /\ ~Fault /\ gone' = gone
      BY <1>1, <1>2, <1>6, <2>1 DEF ServeInv
    <3>2. PICK p \in Ops \ gone : pc[p] \in Undoing
      BY <1>1, <1>2, <2>1, <3>1 DEF ServeInv
    <3>3. CASE Step(p)
      <4>1. RestoreXray(p) \/ RestartOld(p)
        BY <3>2, <3>3 DEF Undoing, Step, AcquireConfigLock, ErrLockBusy, Load, WriteXrayConfigChecked,
           RestartXray, SetUsers, ReloadService, RemoveSubscription, WriteSubscriptions, Fails, At
      <4>2. ~RestartOld(p)
        BY <1>3, <1>6, <3>1, <3>2 DEF RestartOld
      <4>3. pc'[p] = "restart_old"
        BY <1>3, <3>1, <4>1, <4>2 DEF RestoreXray, Fails, GoTo
      <4>4. QED
        BY <3>1, <3>2, <4>3 DEF Undoing
    <3>4. CASE pc'[p] = pc[p]
      BY <3>1, <3>2, <3>4
    <3>5. ASSUME NEW q \in Ops, Arrive(q) PROVE pc'[p] = pc[p]
      BY <1>3, <3>2, <3>5 DEF Arrive, At, Undoing
    <3>6. QED
      BY <1>1, <3>1, <3>2, <3>3, <3>4, <3>5, OtherStays
         DEF Next, ClientGone, CliCrash, AgentCrash, Reboot, Kill, vars
  <2>2. CASE xrayRun # Down
    <3>1. PICK p \in Ops : RestartXray(p) \/ RestartOld(p)
      BY <1>1, <1>3, <1>6, <2>2 DEF Next, Step, Arrive, ClientGone, CliCrash, AgentCrash, Reboot, vars,
         AcquireConfigLock, ErrLockBusy, Load, WriteXrayConfigChecked, RestoreXray, SetUsers,
         ReloadService, RemoveSubscription, WriteSubscriptions
    <3>2. CASE RestartXray(p)
      <4>1. p \notin gone /\ Fault /\ GoTo(p, "restore_xray") /\ gone' = gone
        BY <1>3, <1>6, <2>2, <3>2 DEF RestartXray
      <4>2. pc'[p] = "restore_xray"
        BY <1>3, <4>1 DEF GoTo
      <4>3. QED
        BY <1>2, <1>6, <4>1, <4>2 DEF Undoing
    <3>3. CASE RestartOld(p)
      <4>1. Fault
        BY <1>3, <1>6, <2>2, <3>3 DEF RestartOld
      <4>2. faults > 0
        BY <1>1, <3>3 DEF RestartOld, At, ServeInv, Undoing
      <4>3. QED
        BY <1>2, <1>6, <4>1, <4>2
    <3>4. QED
      BY <3>1, <3>2, <3>3
  <2>3. QED
    BY <2>1, <2>2
<1>7. QED
  BY <1>2, <1>4, <1>5, <1>6 DEF ServeInv

LEMMA InitServe == Init => ServeInv
BY MainAssumption, RunAssumption, InitTypeInv DEF Init, ServeInv, Undoing, TypeInv, TypeOK

\* "so the node is never left with a config xray refuses AND xray down"
\* (applyXrayConfig): one failure of any kind, a crash, a reboot or a client that
\* hangs up included, never leaves xray down once the lock is free.
THEOREM OneFaultIsSurvived == Spec => []XraySurvivesOneFault
<1>1. TypeInv /\ LockInv /\ ServeInv => XraySurvivesOneFault
  <2>1. SUFFICES ASSUME TypeInv, LockInv, ServeInv, faults <= 1, lock = None, xrayRun = Down
                 PROVE  FALSE
    BY DEF XraySurvivesOneFault
  <2>2. PICK p \in Ops : pc[p] \in Undoing
    BY <2>1, BoundsAssumption DEF ServeInv, TypeInv, TypeOK
  <2>3. lock = p
    BY <2>1, <2>2 DEF LockInv, Undoing, Holding
  <2>4. QED
    BY <2>1, <2>3, NoneAssumption
<1>2. QED
  BY <1>1, InitTypeInv, InitLockPlan, InitServe, NextTypeInv, NextLock, NextServe, PTL DEF Spec

-----------------------------------------------------------------------------
(* The order in which the commands write the two files.                    *)

KindsInv == \A p \in Ops : pc[p] \in Holding \cup {"waiting"} => req[p].kind \in Kinds

\* The files p read agreed on this too, and hysteria's is where p left it when p
\* puts xray's back: add-user has written it by then, remove-user has not.
Ordered(p) ==
    /\ HyFile => Names(local[p].oldX[Main]) \subseteq Names(local[p].oldH)
    /\ pc[p] = "restore_xray"
         => hy = IF req[p].kind = "cli_add" THEN local[p].newH ELSE local[p].oldH

OrderInv ==
    /\ NoXrayOnlyUser
    /\ \A p \in Ops : pc[p] \in Working => Ordered(p)

LEMMA NextKinds == TypeInv /\ LockInv /\ KindsInv /\ [Next]_vars => KindsInv'
<1>1. SUFFICES ASSUME TypeInv, LockInv, KindsInv, [Next]_vars PROVE KindsInv'
  OBVIOUS
<1> USE DEF Holding, KindsInv
<1>2. pc \in [Ops -> Steps] /\ req \in [Ops -> Request \cup {None}]
  BY <1>1 DEF TypeInv, TypeOK
<1>3. ASSUME NEW q \in Ops, Arrive(q) PROVE KindsInv'
  BY <1>1, <1>2, <1>3 DEF Arrive
<1>4. ASSUME NEW q \in Ops, Step(q) PROVE KindsInv'
  <2>1. req' = req /\ pc[q] \in Holding \cup {"waiting"}
    BY <1>4 DEF Step, AcquireConfigLock, ErrLockBusy, Load, WriteXrayConfigChecked, RestartXray,
       RestoreXray, RestartOld, SetUsers, ReloadService, RemoveSubscription, WriteSubscriptions,
       Fails, At
  <2>2. QED
    BY <1>1, <1>4, <2>1, OtherStays
<1>5. CASE req' = req /\ \A q \in Ops : pc'[q] \in {pc[q], "dead"}
  BY <1>1, <1>5
<1>6. QED
  BY <1>1, <1>3, <1>4, <1>5 DEF Next, ClientGone, CliCrash, AgentCrash, Reboot, Kill, vars

LEMMA PlanOrder ==
    ASSUME TypeInv, PlannedInv, NEW p \in Ops, pc[p] \in Working, Ordered(p), HyFile
    PROVE  /\ req[p].kind = "cli_add" =>
                Names(local[p].oldX[Main]) \cup Names(local[p].newX[Main]) \subseteq Names(local[p].newH)
           /\ req[p].kind = "cli_remove" =>
                /\ Names(local[p].oldX[Main]) \cup Names(local[p].newX[Main])
                     \subseteq Names(local[p].oldH)
                /\ Names(local[p].newX[Main]) \subseteq Names(local[p].newH)
<1> DEFINE u == req[p].user
           was == local[p].oldX[Main]
           new == local[p].newX[Main]
           wasH == local[p].oldH
           newH == local[p].newH
<1>1. /\ was \in [Users -> Cred] /\ wasH \in [Users -> Cred] /\ p # NoCred
      /\ Names(was) \subseteq Names(wasH)
  BY MainAssumption, CredAssumption
     DEF TypeInv, ReadyInv, Locals, XrayConfig, HyConfig, Ordered
<1>2. CASE req[p].kind = "cli_add"
  <2>1. /\ new = [was EXCEPT ![u] = p]
        /\ newH = IF u \in Names(wasH) THEN wasH ELSE [wasH EXCEPT ![u] = p]
    BY <1>2 DEF PlannedInv, Planned
  <2>2. QED
    BY <1>1, <1>2, <2>1 DEF Names
<1>3. CASE req[p].kind = "cli_remove"
  <2>1. new = [was EXCEPT ![u] = NoCred] /\ newH = [wasH EXCEPT ![u] = NoCred]
    BY <1>3 DEF PlannedInv, Planned
  <2>2. QED
    BY <1>1, <1>3, <2>1 DEF Names
<1>4. QED
  BY <1>2, <1>3

LEMMA NextOrder ==
    ASSUME Kinds \subseteq CliKinds
    PROVE  /\ TypeInv /\ LockInv /\ PlanInv /\ PlannedInv /\ AppliedInv /\ KindsInv /\ OrderInv
           /\ [Next]_vars
           => OrderInv'
<1>1. SUFFICES ASSUME TypeInv, LockInv, PlanInv, PlannedInv, AppliedInv, KindsInv, OrderInv,
                      [Next]_vars
               PROVE  OrderInv'
  OBVIOUS
<1> USE DEF files, services
<1>0. HyFile' <=> HyFile
  BY <1>1, HyStays
<1>2. ASSUME NEW p \in Ops, pc[p] \in Working, HyFile
      PROVE  /\ req[p].kind \in {"cli_add", "cli_remove"}
             /\ PlanOf(p) /\ Applied(p) /\ Ordered(p)
             /\ req[p].kind = "cli_add" =>
                  Names(local[p].oldX[Main]) \cup Names(local[p].newX[Main])
                    \subseteq Names(local[p].newH)
             /\ req[p].kind = "cli_remove" =>
                  /\ Names(local[p].oldX[Main]) \cup Names(local[p].newX[Main])
                       \subseteq Names(local[p].oldH)
                  /\ Names(local[p].newX[Main]) \subseteq Names(local[p].newH)
  <2>1. req[p].kind \in {"cli_add", "cli_remove"}
    BY <1>1, <1>2 DEF KindsInv, CliKinds, Working
  <2>2. PlanOf(p) /\ Applied(p) /\ Ordered(p)
    BY <1>1, <1>2 DEF PlanInv, AppliedInv, OrderInv
  <2>3. QED
    BY <1>1, <1>2, <2>1, <2>2, PlanOrder
<1>3. ASSUME HyFile PROVE NoXrayOnlyUser'
  <2>1. ASSUME NEW p \in Ops, WriteXrayConfigChecked(p) PROVE NoXrayOnlyUser'
    <3>1. pc[p] = "write_xray" /\ hy' = hy /\ xray' \in {xray, local[p].newX}
      BY <2>1 DEF WriteXrayConfigChecked, At
    <3>2. Names(local[p].newX[Main]) \subseteq Names(hy)
      BY <1>2, <1>3, <3>1 DEF PlanOf, Applied, Working, Holding
    <3>3. QED
      BY <1>1, <1>3, <3>1, <3>2 DEF OrderInv, NoXrayOnlyUser
  <2>2. ASSUME NEW p \in Ops, RestoreXray(p) PROVE NoXrayOnlyUser'
    <3>1. pc[p] = "restore_xray" /\ hy' = hy /\ xray' \in {xray, local[p].oldX}
      BY <2>2 DEF RestoreXray, Fails, At
    <3>2. Names(local[p].oldX[Main]) \subseteq Names(hy)
      BY <1>2, <1>3, <3>1 DEF Ordered, Working, Holding
    <3>3. QED
      BY <1>1, <1>3, <3>1, <3>2 DEF OrderInv, NoXrayOnlyUser
  <2>3. ASSUME NEW p \in Ops, SetUsers(p) PROVE NoXrayOnlyUser'
    <3>1. pc[p] = "write_hy" /\ xray' = xray /\ hy' \in {hy, local[p].newH}
      BY <2>3 DEF SetUsers, Fails, At
    <3>2. Names(xray[Main]) \subseteq Names(local[p].newH)
      BY <1>2, <1>3, <3>1 DEF PlanOf, Applied, Working, Holding
    <3>3. QED
      BY <1>1, <1>3, <3>1, <3>2 DEF OrderInv, NoXrayOnlyUser
  <2>4. CASE UNCHANGED <<xray, hy>>
    BY <1>1, <1>3, <2>4 DEF OrderInv, NoXrayOnlyUser
  <2>5. ASSUME NEW p \in Ops, Step(p)
        PROVE  \/ WriteXrayConfigChecked(p) \/ RestoreXray(p) \/ SetUsers(p)
               \/ UNCHANGED <<xray, hy>>
    BY <2>5 DEF Step, AcquireConfigLock, ErrLockBusy, Load, RestartXray, RestartOld, ReloadService,
       RemoveSubscription, WriteSubscriptions
  <2>6. CASE UNCHANGED files \/ UNCHANGED vars
    BY <2>4, <2>6 DEF vars
  <2>7. QED
    BY <1>1, <2>1, <2>2, <2>3, <2>4, <2>5, <2>6
       DEF Next, Arrive, ClientGone, CliCrash, AgentCrash, Reboot, Kill
<1>4. ASSUME NEW p \in Ops, pc'[p] \in Working PROVE Ordered(p)'
  <2>1. CASE Load(p)
    BY <1>0, <1>1, <1>4, <2>1, LoadPlanned DEF Ordered, OrderInv, NoXrayOnlyUser
  <2>2. ASSUME UNCHANGED <<xray, xrayRun, hy, hyRun, subs>>,
               pc'[p] = pc[p], local'[p] = local[p], req'[p] = req[p]
        PROVE  Ordered(p)'
    BY <1>0, <1>1, <1>4, <2>2 DEF Ordered, OrderInv
  <2>3. CASE Step(p) /\ ~Load(p) /\ req' = req
    <3>1. local' = local /\ pc[p] \in Working
      BY <1>1, <1>4, <2>3, StepKeeps
    <3>2. pc'[p] = "restore_xray" => RestartXray(p)
      BY <1>1, <1>4, <2>3, StepFrom DEF AfterRestart
    <3>3. RestartXray(p) => pc[p] = "restart_xray" /\ hy' = hy
      BY DEF RestartXray, At
    <3>4. Ordered(p) /\ PlanOf(p) /\ Applied(p) /\ req[p].kind \in {"cli_add", "cli_remove"}
      BY <1>1, <3>1 DEF PlanInv, AppliedInv, OrderInv, KindsInv, CliKinds, Working
    <3>5. QED
      BY <1>0, <2>3, <3>1, <3>2, <3>3, <3>4 DEF Ordered, PlanOf, Applied
  <2>4. QED
    BY <1>1, <1>4, <2>1, <2>2, <2>3, HolderMoves
<1>5. QED
  BY <1>0, <1>3, <1>4 DEF OrderInv, NoXrayOnlyUser

LEMMA InitOrder == Init => KindsInv /\ OrderInv
<1>1. SUFFICES ASSUME Init PROVE KindsInv /\ OrderInv
  OBVIOUS
<1>2. HyFile => xray[Main] = hy
  BY <1>1, MainAssumption DEF Init, Rendered, HyFile
<1>3. QED
  BY <1>1, <1>2 DEF Init, KindsInv, OrderInv, NoXrayOnlyUser, Working, Holding

\* `cfvpnctl add-user` writes hysteria first and remove-user xray first, so that
\* as long as only they change the users, xray never has a user that hysteria has
\* not, whatever fails, is killed or is put back half way.
THEOREM CommandsKeepOrder ==
    ASSUME Kinds \subseteq CliKinds
    PROVE  Spec => []NoXrayOnlyUser
<1>1. OrderInv => NoXrayOnlyUser
  BY DEF OrderInv
<1>2. TypeInv /\ LockInv /\ PlanInv /\ PlannedInv /\ AppliedInv /\ KindsInv /\ OrderInv /\ [Next]_vars
      => OrderInv'
  BY NextOrder
<1>3. QED
  BY <1>1, <1>2, InitTypeInv, InitLockPlan, InitPlanned, InitApplied, InitOrder, NextTypeInv, NextLock,
     NextPlan, NextPlanned, NextApplied, NextKinds, PTL DEF Spec

-----------------------------------------------------------------------------
(* Agreement.                                                              *)

Agreed ==
    /\ xrayRun = xray
    /\ Hy2On => hyRun = hy
    /\ Names(hy) = Names(xray[Main])
    /\ \A u \in Names(hy) : subs[u] = [x |-> xray[Main][u], h |-> ServedHy[u]]

\* How far a request that nothing has hit is from the next agreement.
Agreeing(p) ==
    LET u == req[p].user
        new == local[p].newX[Main]
        newH == local[p].newH
    IN  /\ pc[p] \in {"write_xray", "write_hy", "reload_hy"} => xrayRun = xray
        /\ pc[p] # "reload_hy" /\ Hy2On => hyRun = hy
        /\ pc[p] = "reload_hy" => Hy2On
        /\ Names(new) = Names(newH)
        /\ req[p].kind = "cli_remove" => u \in Names(hy) \/ pc[p] = "reload_hy"
        /\ ~Agent(p) => Hy2On /\ \A v \in Names(newH) \ {u} : subs[v] = [x |-> new[v], h |-> newH[v]]

RestInv ==
    faults = 0 /\ Suited =>
        /\ (\A p \in Ops : pc[p] \notin Working) => Agreed
        /\ \A p \in Ops : pc[p] \in Working => Agreeing(p)

\* Nothing failed before if nothing has failed yet, and the requests that were
\* there are the ones that are.
LEMMA CleanBefore ==
    ASSUME TypeInv, ServeInv, [Next]_vars, faults' = 0, Suited'
    PROVE  /\ faults = 0 /\ ~Fault /\ gone = {} /\ gone' = {} /\ Suited /\ (Hy2On' <=> Hy2On)
           /\ (\E p \in Ops : Arrive(p) \/ Step(p)) \/ UNCHANGED vars
<1>1. faults = 0 /\ ~Fault /\ gone' = gone
  BY FaultCounts
<1>2. (\E p \in Ops : Arrive(p) \/ Step(p)) \/ UNCHANGED vars
  BY <1>1 DEF Next, ClientGone, CliCrash, AgentCrash, Reboot, Kill
<1>3. pc \in [Ops -> Steps] /\ req \in [Ops -> Request \cup {None}]
  BY DEF TypeInv, TypeOK
<1>4. ASSUME NEW p \in Ops, pc[p] # "idle" PROVE pc'[p] # "idle" /\ req'[p] = req[p]
  <2>1. ASSUME NEW q \in Ops, Arrive(q) PROVE pc'[p] # "idle" /\ req'[p] = req[p]
    BY <1>3, <1>4, <2>1 DEF Arrive, At
  <2>2. ASSUME NEW q \in Ops, Step(q) PROVE pc'[p] # "idle" /\ req'[p] = req[p]
    <3>1. req' = req
      BY <2>2 DEF Step, AcquireConfigLock, ErrLockBusy, Load, WriteXrayConfigChecked, RestartXray,
         RestoreXray, RestartOld, SetUsers, ReloadService, RemoveSubscription, WriteSubscriptions
    <3>2. CASE q # p
      BY <1>4, <2>2, <3>1, <3>2, OtherStays
    <3>3. CASE q = p
      <4>1. pc'[p] \in Working => pc'[p] # "idle"
        BY DEF Working, Holding
      <4>2. CASE pc'[p] \notin Working
        <5>1. CASE AcquireConfigLock(p) \/ ErrLockBusy(p)
          BY <1>3, <5>1 DEF AcquireConfigLock, ErrLockBusy
        <5>2. CASE Load(p)
          <6>1. ASSUME NEW x, NEW h, NEW step \in {"write_xray", "write_hy"}, Plan(p, x, h, step)
                PROVE  pc'[p] # "idle"
            BY <6>1, PlanMade
          <6>2. ASSUME NEW answer, Return(p, answer) PROVE pc'[p] # "idle"
            BY <1>3, <6>2 DEF Return
          <6>3. QED
            BY <3>1, <5>2, <6>1, <6>2, LoadOutcome
        <5>3. CASE \/ WriteXrayConfigChecked(p) \/ RestartXray(p) \/ RestoreXray(p) \/ RestartOld(p)
                   \/ SetUsers(p) \/ ReloadService(p) \/ RemoveSubscription(p) \/ WriteSubscriptions(p)
          BY <1>3, <5>3 DEF WriteXrayConfigChecked, RestartXray, RestoreXray, RestartOld, SetUsers,
             ReloadService, RemoveSubscription, WriteSubscriptions, Fails, AfterHysteria, AfterRestart,
             GoTo, Return
        <5>4. QED
          BY <2>2, <3>3, <5>1, <5>2, <5>3 DEF Step
      <4>3. QED
        BY <3>1, <4>1, <4>2
    <3>4. QED
      BY <3>2, <3>3
  <2>3. QED
    BY <1>2, <1>4, <2>1, <2>2 DEF vars
<1>5. gone = {}
  BY <1>1 DEF ServeInv
<1>6. Suited
  BY <1>4, HyStays DEF Suited, Agent
<1>7. QED
  BY <1>1, <1>2, <1>5, <1>6, HyStays

\* A request that reads the files of a node at rest is on its way to the next rest.
LEMMA LoadAgrees ==
    ASSUME TypeInv, Agreed, Suited, NEW p \in Ops, Load(p), pc'[p] \in Working
    PROVE  Agreeing(p)'
<1> DEFINE u == req[p].user
           was == local'[p].oldX[Main]
           new == local'[p].newX[Main]
           wasH == local'[p].oldH
           newH == local'[p].newH
<1>1. /\ Planned(p)' /\ req' = req /\ local'[p].oldX = xray /\ wasH = hy
      /\ UNCHANGED <<xray, xrayRun, hy, hyRun, subs>>
      /\ pc'[p] \in {"write_xray", "write_hy"}
      /\ pc[p] = "loading" /\ req[p] \in Request
  BY LoadPlanned DEF Load, Fails, At, TypeInv, ReadyInv, Holding
<1>2. /\ xray[Main] \in [Users -> Cred] /\ hy \in [Users -> Cred] /\ p # NoCred
      /\ Names(hy) = Names(xray[Main])
  BY MainAssumption, CredAssumption DEF TypeInv, TypeOK, XrayConfig, HyConfig, Agreed
<1>3. CASE Agent(p)
  <2>1. Agent(p)' /\ Names(new) = Names(newH)
    BY <1>1, <1>3 DEF Agent, Planned
  <2>2. req[p].kind # "cli_remove"
    BY <1>3 DEF Agent, AgentKinds
  <2>3. QED
    BY <1>1, <2>1, <2>2 DEF Agreeing, Agreed, Hy2On
<1>4. CASE ~Agent(p)
  <2>1. Hy2On /\ ~Agent(p)' /\ Hy2On'
    BY <1>1, <1>4 DEF Suited, Agent, Hy2On
  <2>2. /\ \A v \in Names(newH) \ {u} : v \in Names(hy) /\ new[v] = xray[Main][v] /\ newH[v] = hy[v]
        /\ Names(new) = Names(newH)
        /\ req[p].kind = "cli_remove" => u \in Names(hy)
    <3>1. req[p].kind \in {"cli_add", "cli_remove"} /\ u \in Users
      BY <1>1, <1>4, RequestKinds DEF Agent, AgentKinds, CliKinds
    <3>2. CASE req[p].kind = "cli_add"
      <4>1. new = [xray[Main] EXCEPT ![u] = p] /\ u \notin Names(hy)
            /\ newH = [hy EXCEPT ![u] = p]
        BY <1>1, <1>2, <3>2 DEF Planned, Suited, HyFile, Hy2On
      <4>2. QED
        BY <1>2, <3>1, <3>2, <4>1 DEF Names
    <3>3. CASE req[p].kind = "cli_remove"
      <4>1. new = [xray[Main] EXCEPT ![u] = NoCred] /\ u \in Names(hy)
            /\ newH = [hy EXCEPT ![u] = NoCred]
        BY <1>1, <1>2, <3>3 DEF Planned
      <4>2. QED
        BY <1>2, <3>1, <4>1 DEF Names
    <3>4. QED
      BY <3>1, <3>2, <3>3
  <2>3. \A v \in Names(newH) \ {u} : subs[v] = [x |-> new[v], h |-> newH[v]]
    BY <2>1, <2>2 DEF Agreed, ServedHy
  <2>4. QED
    BY <1>1, <2>1, <2>2, <2>3 DEF Agreeing, Agreed
<1>5. QED
  BY <1>3, <1>4

\* Every step of it that is not the last keeps it on that way.
LEMMA StepAgrees ==
    ASSUME TypeInv, PlanInv, AppliedInv, NEW p \in Ops, Step(p), ~Load(p), pc'[p] \in Working,
           req' = req, gone = {}, ~Fault, pc[p] \notin Undoing, Agreeing(p)
    PROVE  Agreeing(p)'
<1>1. local' = local /\ pc[p] \in Working /\ PlanOf(p) /\ Applied(p) /\ req[p] \in Request
  BY StepKeeps DEF PlanInv, AppliedInv, TypeInv, ReadyInv, Working
<1>2. Agent(p) => req[p].kind \notin {"cli_add", "cli_remove"}
  BY DEF Agent, AgentKinds
<1>3. Agent(p)' <=> Agent(p)
  BY DEF Agent
<1>4. CASE WriteXrayConfigChecked(p) /\ pc'[p] = "restart_xray"
  BY <1>1, <1>3, <1>4 DEF WriteXrayConfigChecked, At, Agreeing, Hy2On, services
<1>5. CASE RestartXray(p) /\ pc'[p] = AfterRestart(p) /\ xrayRun' = xray
  <2>1. pc[p] = "restart_xray" /\ UNCHANGED <<xray, hy, hyRun, subs>>
        /\ pc'[p] \in {"write_hy", "write_subs", "remove_sub"}
    BY <1>5 DEF RestartXray, At, AfterRestart, files
  <2>2. QED
    BY <1>1, <1>3, <1>5, <2>1 DEF Agreeing, Hy2On
<1>6. CASE RestoreXray(p)
  BY <1>6 DEF RestoreXray, Fails, At, Undoing
<1>7. CASE SetUsers(p) /\ hy' = local[p].newH
           /\ pc'[p] = IF Agent(p) /\ ~Hy2On THEN "write_subs" ELSE "reload_hy"
  <2>1. pc[p] = "write_hy" /\ UNCHANGED <<xray, xrayRun, hyRun, subs>>
    BY <1>7 DEF SetUsers, At, services
  <2>2. pc'[p] = "write_subs" => Agent(p) /\ ~Hy2On
    BY <1>7
  <2>3. QED
    BY <1>1, <1>2, <1>3, <1>7, <2>1, <2>2 DEF Agreeing, Hy2On
<1>8. CASE /\ ReloadService(p) /\ Hy2On /\ hyRun' = hy
           /\ \/ Agent(p) /\ pc'[p] = "write_subs"
              \/ ~Agent(p) /\ req[p].kind = "cli_add" /\ pc'[p] = "write_xray"
  <2>1. pc[p] = "reload_hy" /\ UNCHANGED <<xray, xrayRun, hy, subs>>
    BY <1>8 DEF ReloadService, At, files
  <2>2. Hy2On'
    BY <1>8, <2>1, RunAssumption DEF Hy2On, TypeInv, TypeOK
  <2>3. QED
    BY <1>1, <1>2, <1>3, <1>8, <2>1, <2>2 DEF Agreeing
<1>9. CASE RemoveSubscription(p) /\ pc'[p] = "write_hy" /\ req[p].user \in Names(hy)
           /\ subs' = [subs EXCEPT ![req[p].user] = [x |-> NoCred, h |-> NoCred]]
  <2>1. pc[p] = "remove_sub" /\ UNCHANGED <<xray, xrayRun, hy, hyRun>>
    BY <1>9 DEF RemoveSubscription, At, services
  <2>2. \A v \in Users \ {req[p].user} : subs'[v] = subs[v]
    BY <1>9 DEF TypeInv, TypeOK
  <2>3. xrayRun = xray /\ req[p].kind = "cli_remove"
    BY <1>1, <2>1 DEF Applied
  <2>4. QED
    BY <1>1, <1>2, <1>3, <1>9, <2>1, <2>2, <2>3 DEF Agreeing, Hy2On, Names
<1>10. QED
  BY <1>4, <1>5, <1>6, <1>7, <1>8, <1>9, StepFrom

\* The last one brings the node back to rest.
LEMMA LastAgrees ==
    ASSUME TypeInv, AppliedInv, PlannedInv, NEW p \in Ops, Step(p), pc[p] \in Working,
           pc'[p] \notin Working, HyFile, gone = {}, ~Fault, pc[p] \notin Undoing, Agreeing(p)
    PROVE  Agreed'
<1> DEFINE u == req[p].user
           new == local[p].newX[Main]
           newH == local[p].newH
<1>0. pc \in [Ops -> Steps] /\ subs \in [Users -> [x : Cred, h : Cred]] /\ hy \in [Users -> Cred]
      /\ req[p] \in Request /\ Applied(p) /\ Planned(p) /\ Names(new) = Names(newH)
  BY DEF TypeInv, TypeOK, ReadyInv, HyConfig, Working, AppliedInv, PlannedInv, Agreeing
<1>1. ASSUME NEW step \in Working, GoTo(p, step) PROVE FALSE
  BY <1>0, <1>1 DEF GoTo
<1>2. /\ ~WriteXrayConfigChecked(p) /\ ~RestartXray(p) /\ ~SetUsers(p)
      /\ ~RestoreXray(p) /\ ~RestartOld(p)
      /\ ~Load(p) /\ ~AcquireConfigLock(p) /\ ~ErrLockBusy(p)
  <2>1. ~WriteXrayConfigChecked(p) /\ ~RestartXray(p) /\ ~SetUsers(p)
    BY <1>1 DEF WriteXrayConfigChecked, RestartXray, SetUsers, Fails, AfterRestart, Working, Holding
  <2>2. ~RestoreXray(p) /\ ~RestartOld(p)
    BY DEF RestoreXray, RestartOld, Fails, At, Undoing
  <2>3. ~Load(p) /\ ~AcquireConfigLock(p) /\ ~ErrLockBusy(p)
    BY DEF Load, Fails, AcquireConfigLock, ErrLockBusy, At, Working, Holding
  <2>4. QED
    BY <2>1, <2>2, <2>3
<1>3. CASE ReloadService(p)
  <2>1. pc[p] = "reload_hy" /\ Hy2On /\ hyRun' = hy /\ UNCHANGED <<xray, xrayRun, hy, subs>>
        /\ AfterHysteria(p)
    BY <1>3 DEF ReloadService, At, files, Agreeing
  <2>2. ~Agent(p) /\ req[p].kind # "cli_add"
    BY <1>1, <2>1 DEF AfterHysteria, Working, Holding
  <2>3. req[p].kind = "cli_remove"
    BY <1>0, <2>2, RequestKinds DEF Agent, CliKinds
  <2>4. xrayRun = xray /\ xray[Main] = new /\ hy = newH
    BY <1>0, <2>1, <2>2 DEF Applied, Agreeing
  <2>5. u \notin Names(newH)
    BY <1>0, <2>3, <2>4 DEF Planned, TypeInv, ReadyInv, Locals, HyConfig, Names
  <2>6. \A v \in Names(hy) : subs[v] = [x |-> xray[Main][v], h |-> hy[v]]
    BY <2>2, <2>4, <2>5 DEF Agreeing
  <2>7. Hy2On'
    BY <2>1, RunAssumption DEF Hy2On, TypeInv, TypeOK
  <2>8. QED
    BY <1>0, <2>1, <2>4, <2>6, <2>7 DEF Agreed, ServedHy
<1>4. CASE RemoveSubscription(p)
  <2>1. pc[p] = "remove_sub" /\ u \notin Names(hy)
    BY <1>1, <1>4 DEF RemoveSubscription, Fails, At, Working, Holding
  <2>2. req[p].kind = "cli_remove"
    BY <1>0, <2>1 DEF Applied
  <2>3. QED
    BY <2>1, <2>2 DEF Agreeing
<1>5. CASE WriteSubscriptions(p)
  <2> DEFINE due == IF Agent(p) THEN Names(xray[Main]) ELSE {u}
  <2>1. /\ pc[p] = "write_subs" /\ UNCHANGED <<xray, xrayRun, hy, hyRun>>
        /\ subs' = Written(due, ServedHy)
    BY <1>5 DEF WriteSubscriptions, Fails, At, services
  <2>2. xrayRun = xray /\ xray[Main] = new /\ hy = newH /\ (Hy2On => hyRun = hy)
    BY <1>0, <2>1 DEF Applied, Agreeing
  <2>3. ASSUME NEW v \in Names(hy) PROVE subs'[v] = [x |-> xray[Main][v], h |-> ServedHy[v]]
    <3>1. v \in Users /\ v \in Names(xray[Main])
      BY <1>0, <2>2, <2>3 DEF Names
    <3>2. CASE v \in due
      BY <2>1, <3>1, <3>2 DEF Written
    <3>3. CASE v \notin due
      <4>1. subs'[v] = subs[v] /\ ~Agent(p) /\ v # u
        BY <2>1, <3>1, <3>3 DEF Written
      <4>2. QED
        BY <2>2, <2>3, <4>1 DEF Agreeing, ServedHy
    <3>4. QED
      BY <3>2, <3>3
  <2>4. QED
    BY <1>0, <2>1, <2>2, <2>3 DEF Agreed, ServedHy, Hy2On, Nobody
<1>6. QED
  BY <1>2, <1>3, <1>4, <1>5 DEF Step

LEMMA NextRest ==
    /\ TypeInv /\ LockInv /\ PlanInv /\ PlannedInv /\ AppliedInv /\ ServeInv /\ RestInv
    /\ [Next]_vars
    => RestInv'
<1>1. SUFFICES ASSUME TypeInv, LockInv, PlanInv, PlannedInv, AppliedInv, ServeInv, RestInv,
                      [Next]_vars, faults' = 0, Suited'
               PROVE  /\ (\A p \in Ops : pc'[p] \notin Working) => Agreed'
                      /\ \A p \in Ops : pc'[p] \in Working => Agreeing(p)'
  BY DEF RestInv
<1> USE DEF files, services
<1>2. /\ faults = 0 /\ ~Fault /\ gone = {} /\ Suited /\ HyFile /\ (Hy2On' <=> Hy2On)
      /\ (\E p \in Ops : Arrive(p) \/ Step(p)) \/ UNCHANGED vars
      /\ \A p \in Ops : pc[p] \notin Undoing
  BY <1>1, CleanBefore DEF ServeInv, Suited, HyFile, Hy2On
<1>3. /\ (\A p \in Ops : pc[p] \notin Working) => Agreed
      /\ \A p \in Ops : pc[p] \in Working => Agreeing(p)
  BY <1>1, <1>2 DEF RestInv
<1>4. ASSUME NEW p \in Ops, pc'[p] \in Working PROVE Agreeing(p)'
  <2>1. CASE Load(p)
    <3>1. pc[p] = "loading"
      BY <2>1 DEF Load, Fails, At
    <3>2. \A q \in Ops : pc[q] \notin Working
      BY <1>1, <3>1 DEF LockInv, Working, Holding
    <3>3. QED
      BY <1>1, <1>2, <1>3, <1>4, <2>1, <3>2, LoadAgrees
  <2>2. ASSUME UNCHANGED <<xray, xrayRun, hy, hyRun, subs>>,
               pc'[p] = pc[p], local'[p] = local[p], req'[p] = req[p]
        PROVE  Agreeing(p)'
    BY <1>3, <1>4, <2>2 DEF Agreeing, Agent, Hy2On
  <2>3. CASE Step(p) /\ ~Load(p) /\ req' = req
    <3>1. pc[p] \in Working
      BY <1>1, <1>4, <2>3, StepKeeps
    <3>2. QED
      BY <1>1, <1>2, <1>3, <1>4, <2>3, <3>1, StepAgrees
  <2>4. QED
    BY <1>1, <1>4, <2>1, <2>2, <2>3, HolderMoves
<1>5. ASSUME \A p \in Ops : pc'[p] \notin Working PROVE Agreed'
  <2>1. ASSUME NEW p \in Ops, pc[p] \in Working PROVE Agreed'
    <3>1. pc \in [Ops -> Steps] /\ pc'[p] # pc[p]
      BY <1>1, <1>5, <2>1 DEF TypeInv, TypeOK
    <3>2. Step(p)
      <4>1. ASSUME NEW q \in Ops, Arrive(q) PROVE FALSE
        BY <2>1, <3>1, <4>1 DEF Arrive, At, Working, Holding
      <4>2. QED
        BY <1>1, <1>2, <3>1, <4>1, OtherStays DEF vars
    <3>3. QED
      BY <1>1, <1>2, <1>3, <1>5, <2>1, <3>2, LastAgrees
  <2>2. CASE \A p \in Ops : pc[p] \notin Working
    <3>1. UNCHANGED <<xray, xrayRun, hy, hyRun, subs>>
      <4>1. ASSUME NEW p \in Ops, Step(p) PROVE UNCHANGED <<xray, xrayRun, hy, hyRun, subs>>
        BY <2>2, <4>1 DEF Step, AcquireConfigLock, ErrLockBusy, Load, WriteXrayConfigChecked,
           RestartXray, RestoreXray, RestartOld, SetUsers, ReloadService, RemoveSubscription,
           WriteSubscriptions, Fails, At, Working, Holding
      <4>2. QED
        BY <1>2, <4>1 DEF Arrive, vars
    <3>2. QED
      BY <1>3, <2>2, <3>1 DEF Agreed, ServedHy, Hy2On, Nobody
  <2>3. QED
    BY <2>1, <2>2
<1>6. QED
  BY <1>4, <1>5

LEMMA InitRest == Init => RestInv
<1>1. SUFFICES ASSUME Init, Suited PROVE Agreed
  BY DEF Init, RestInv, Working, Holding
<1>2. HyFile
  BY <1>1 DEF Suited, HyFile, Hy2On
<1>3. PICK m \in [Users -> {PanelCred, NoCred}] :
        /\ xray = Rendered(m) /\ hy = m /\ hyRun \in {m, NoUnit}
        /\ subs = [u \in Users |-> [x |-> m[u], h |-> ServedHy[u]]]
  BY <1>1, <1>2 DEF Init, HyFile
<1>4. xray[Main] = hy
  BY <1>3, MainAssumption DEF Rendered
<1>5. \A u \in Names(hy) : subs[u] = [x |-> xray[Main][u], h |-> ServedHy[u]]
  BY <1>3, <1>4 DEF Names
<1>6. QED
  BY <1>1, <1>3, <1>4, <1>5 DEF Init, Agreed, Hy2On

\* As long as nothing has failed, a node that nobody is writing to agrees with
\* itself, for any number of requests of every kind: both services run what is on
\* disk, and xray, hysteria and the subscriptions have the same users with the
\* same credentials.
THEOREM NodeAgrees == Spec => []AgreementAtRest
<1>1. LockInv /\ RestInv => AgreementAtRest
  <2>1. SUFFICES ASSUME LockInv, RestInv, faults = 0, lock = None, Suited PROVE Agreed
    BY DEF AgreementAtRest, Agreed
  <2>2. \A p \in Ops : pc[p] \notin Working
    BY <2>1, NoneAssumption DEF LockInv, Working
  <2>3. QED
    BY <2>1, <2>2 DEF RestInv
<1>2. QED
  BY <1>1, InitTypeInv, InitLockPlan, InitPlanned, InitApplied, InitServe, InitRest, NextTypeInv,
     NextLock, NextPlan, NextPlanned, NextApplied, NextServe, NextRest, PTL DEF Spec
=============================================================================
