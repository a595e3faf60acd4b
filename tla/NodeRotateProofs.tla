-------------------------- MODULE NodeRotateProofs --------------------------
(***************************************************************************)
(* Theorems about NodeRotate, for any number of rotations and failures.    *)
(***************************************************************************)
EXTENDS NodeRotate, TLAPS

\* The steps with the new certificate in place.
Issued == (Forward \ {"load", "issue"}) \cup Moved

LockInv == \A p \in Rotations : pc[p] \in Holding => lock = p

\* What the agent and the panel know at a step.
ReadyInv ==
    \A p \in Rotations :
        /\ pc[p] # "idle" => req[p] \in Request /\ req[p].hy2 = p
        /\ pc[p] \in Holding \ {"load"} => local[p] \in Locals
        /\ pc[p] \in Issued => cert = p

TypeInv == TypeOK /\ LockInv /\ ReadyInv

LEMMA StepNames ==
    /\ Holding \subseteq Steps /\ Issued \subseteq Holding \ {"load"}
    /\ Forward \subseteq Holding /\ Undo \subseteq Holding /\ Moved \subseteq Holding
    /\ Holding \cap {"idle", "waiting", "ok", "error", "dead"} = {}
    /\ {"idle", "waiting", "ok", "error", "dead"} \subseteq Steps
BY DEF Holding, Steps, Issued, Forward, Undo, Moved

LEMMA InitTypeInv == Init => TypeInv
<1>1. SUFFICES ASSUME Init PROVE TypeInv
  OBVIOUS
<1>2. env \in Env /\ row \in Row /\ Named \in Names
  BY <1>1 DEF Init, Env, Row, Names, Named, Hosts
<1>3. {Vpn(Old), Hy2(Old)} \subseteq Records
  BY DEF Vpn, Hy2, Records, Hosts
<1>4. TypeOK
  BY <1>1, <1>2, <1>3, FaultsAssumption, StepNames
     DEF Init, TypeOK, Hosts, Answers, Hy2On
<1>5. QED
  BY <1>1, <1>4, StepNames DEF Init, TypeInv, LockInv, ReadyInv

\* The shape of a step of the holder: it goes on or it answers.
Moves(p) ==
    \/ \E step \in Holding \ {"load"} :
        /\ pc' = [pc EXCEPT ![p] = step]
        /\ step \in Issued => cert' = p
        /\ local'[p] \in Locals
        /\ \A q \in Rotations \ {p} : local'[q] = local[q]
        /\ lock' = lock
    \/ \E result \in {"ok", "error"} :
        /\ pc' = [pc EXCEPT ![p] = result]
        /\ local' = [local EXCEPT ![p] = None]
        /\ lock' = None

\* Whoever holds the lock keeps the bookkeeping right, whatever it does to the rest.
LEMMA HolderStep ==
    ASSUME TypeInv, NEW p \in Rotations, pc[p] \in Holding, Moves(p), UNCHANGED req,
           local' \in [Rotations -> Locals \cup {None}]
    PROVE  LockInv' /\ ReadyInv' /\ pc' \in [Rotations -> Steps]
           /\ lock' \in Rotations \cup {None}
<1>1. \A q \in Rotations \ {p} : pc[q] \notin Holding /\ pc'[q] = pc[q]
  BY NoneAssumption DEF TypeInv, TypeOK, LockInv, Moves
<1>2. /\ pc' \in [Rotations -> Steps]
      /\ pc'[p] \in Holding => lock' = lock /\ local'[p] \in Locals /\ pc'[p] # "load"
      /\ pc'[p] \in Issued => cert' = p
      /\ pc'[p] # "idle"
  BY StepNames DEF Moves, TypeInv, TypeOK
<1>3. pc[p] # "idle"
  BY StepNames
<1>4. lock' \in Rotations \cup {None}
  BY DEF Moves, TypeInv, TypeOK
<1>5. LockInv'
  BY <1>1, <1>2 DEF LockInv, TypeInv
<1>6. ReadyInv'
  BY <1>1, <1>2, <1>3, StepNames DEF ReadyInv, TypeInv
<1>7. QED
  BY <1>2, <1>4, <1>5, <1>6

LEMMA GoToMoves ==
    ASSUME TypeInv, NEW p \in Rotations, pc[p] \in Holding \ {"load"},
           NEW step \in Holding \ {"load"}, GoTo(p, step),
           step \in Issued => cert' = p
    PROVE  Moves(p) /\ local' \in [Rotations -> Locals \cup {None}] /\ gone' = gone
BY DEF GoTo, Become, Moves, TypeInv, TypeOK, ReadyInv

LEMMA ReplyMoves ==
    ASSUME TypeInv, NEW p \in Rotations, NEW result \in {"ok", "error"}, Reply(p, result)
    PROVE  Moves(p) /\ local' \in [Rotations -> Locals \cup {None}] /\ gone' = gone
BY DEF Reply, Become, Moves, TypeInv, TypeOK

LEMMA FaultType ==
    ASSUME TypeOK, Fault \/ NoFault
    PROVE  faults' \in 0..MaxFaults
BY FaultsAssumption DEF TypeOK, Fault, NoFault

LEMMA CallFaults ==
    ASSUME NEW p, Works(p) \/ Breaks(p)
    PROVE  Fault \/ NoFault
BY DEF Works, Breaks

-----------------------------------------------------------------------------
(* Types.                                                                  *)

LEMMA RequestType ==
    ASSUME TypeInv, NEW p \in Rotations, pc[p] # "idle"
    PROVE  /\ req[p].new \in Hosts /\ req[p].hy2 \in Hosts /\ req[p].hy2 = p
           /\ req[p].old.host \in Hosts /\ req[p].old.hy2 \in Hosts
           /\ \A h \in Hosts : Vpn(h) \in Records /\ Hy2(h) \in Records
BY DEF TypeInv, ReadyInv, Request, Names, Hosts, Vpn, Hy2, Records

\* What a step of the holder does to the node is well typed.
NodeTypes ==
    /\ xray' \in Hosts /\ cfd' \in Hosts /\ cert' \in Hosts \cup {Mixed}
    /\ {xrayRun', cfdRun', hyRun'} \subseteq Hosts \cup {Down}
    /\ env' \in Env
    /\ subs' \in Names \cup {Mixed}
    /\ dns' \subseteq Records
    /\ gone' \subseteq Rotations
    /\ faults' \in 0..MaxFaults

LEMMA HolderType ==
    ASSUME TypeInv, NEW p \in Rotations, pc[p] \in Holding, Moves(p), NodeTypes,
           local' \in [Rotations -> Locals \cup {None}], UNCHANGED panel
    PROVE  TypeInv'
<1>1. LockInv' /\ ReadyInv' /\ pc' \in [Rotations -> Steps] /\ lock' \in Rotations \cup {None}
  BY HolderStep DEF panel
<1>2. QED
  BY <1>1 DEF NodeTypes, TypeInv, TypeOK, panel

LEMMA LoadMoves ==
    ASSUME TypeInv, NEW p \in Rotations, Load(p)
    PROVE  /\ Moves(p) /\ gone' = gone /\ local' \in [Rotations -> Locals \cup {None}]
<1> DEFINE kept == [xray |-> xray, cfd |-> cfd, cert |-> cert,
                    created |-> {}, cfdTouched |-> FALSE]
<1>1. kept \in Locals
  BY DEF TypeInv, TypeOK, Locals
<1>2. CASE Reply(p, "error")
  BY <1>2, ReplyMoves
<1>3. CASE local' = [local EXCEPT ![p] = kept] /\ Become(p, "issue") /\ UNCHANGED <<lock, gone>>
  <2>1. "issue" \in Holding \ {"load"} /\ "issue" \notin Issued
    BY DEF Holding, Forward, Issued, Moved
  <2>2. local' \in [Rotations -> Locals \cup {None}] /\ local'[p] \in Locals
    BY <1>1, <1>3 DEF TypeInv, TypeOK
  <2>3. \A q \in Rotations \ {p} : local'[q] = local[q]
    BY <1>3 DEF TypeInv, TypeOK
  <2>4. QED
    BY <1>3, <2>1, <2>2, <2>3 DEF Moves, Become
<1>4. QED
  BY <1>2, <1>3 DEF Load

LEMMA UpsertMoves ==
    ASSUME TypeInv, NEW p \in Rotations, pc[p] \in Issued, NEW rec \in Records,
           NEW next \in Issued, Upsert(p, rec, next)
    PROVE  /\ Moves(p) /\ gone' = gone /\ local' \in [Rotations -> Locals \cup {None}]
           /\ dns' \subseteq Records
<1>1. pc[p] \in Holding \ {"load"} /\ next \in Holding \ {"load"} /\ cert' = p
  BY StepNames DEF TypeInv, ReadyInv, Upsert, disk
<1>2. dns' \subseteq Records
  BY DEF Upsert, TypeInv, TypeOK
<1>3. CASE GoTo(p, "fail_cert")
  BY <1>1, <1>2, <1>3, GoToMoves DEF Holding, Undo
<1>4. CASE /\ local' = [local EXCEPT ![p].created = @ \cup {rec}]
           /\ Become(p, next)
           /\ UNCHANGED <<lock, gone>>
  <2>1. local[p] \in Locals
    BY <1>1 DEF TypeInv, ReadyInv
  <2>2. [local[p] EXCEPT !.created = @ \cup {rec}] \in Locals
    BY <2>1 DEF Locals
  <2>3. local' = [local EXCEPT ![p] = [local[p] EXCEPT !.created = @ \cup {rec}]]
    BY <1>4
  <2>4. local' \in [Rotations -> Locals \cup {None}] /\ local'[p] \in Locals
        /\ \A q \in Rotations \ {p} : local'[q] = local[q]
    BY <2>2, <2>3 DEF TypeInv, TypeOK
  <2>5. QED
    BY <1>1, <1>2, <1>4, <2>4 DEF Moves, Become
<1>5. QED
  BY <1>3, <1>4 DEF Upsert

LEMMA CarryMoves ==
    ASSUME TypeInv, NEW p \in Rotations, pc[p] \in Holding \ {"load"},
           NEW step \in Holding \ {"load"}, GoTo(p, step),
           step \in Issued => pc[p] \in Issued /\ cert' = cert
    PROVE  Moves(p) /\ local' \in [Rotations -> Locals \cup {None}] /\ gone' \subseteq Rotations
<1>1. step \in Issued => cert' = p
  BY DEF TypeInv, ReadyInv
<1>2. QED
  BY <1>1, GoToMoves DEF TypeInv, TypeOK

LEMMA ReplyCarries ==
    ASSUME TypeInv, NEW p \in Rotations, NEW result \in {"ok", "error"}, Reply(p, result)
    PROVE  Moves(p) /\ local' \in [Rotations -> Locals \cup {None}] /\ gone' \subseteq Rotations
BY ReplyMoves DEF TypeInv, TypeOK

\* A name for what the cases below establish.
Carried(p) ==
    Moves(p) /\ local' \in [Rotations -> Locals \cup {None}] /\ gone' \subseteq Rotations

LEMMA LocalType ==
    ASSUME TypeInv, NEW p \in Rotations, pc[p] \in Holding \ {"load"}
    PROVE  local[p].xray \in Hosts /\ local[p].cfd \in Hosts
           /\ local[p].cert \in Hosts \cup {Mixed}
BY DEF TypeInv, ReadyInv, Locals

LEMMA EnvType ==
    ASSUME TypeInv, NEW p \in Rotations, pc[p] # "idle"
    PROVE  /\ [env EXCEPT !.host = req[p].new] \in Env
           /\ [env EXCEPT !.host = req[p].new, !.hy2 = req[p].hy2] \in Env
           /\ Named \in Names
BY RequestType DEF TypeInv, TypeOK, Env, Named, Names

LEMMA StepTypeInv ==
    ASSUME TypeInv, NEW p \in Rotations, Step(p)
    PROVE  TypeInv'
<1>1. CASE IssueHy2Cert(p)
  <2>1. pc[p] \in Holding \ {"load"} /\ pc[p] # "idle"
    BY <1>1 DEF IssueHy2Cert, At, Holding, Forward, Undo, Moved
  <2>2. Carried(p)
    <3>1. CASE cert' = req[p].hy2 /\ GoTo(p, "upsert_vpn")
      <4>1. cert' = p
        BY <2>1, <3>1, RequestType
      <4>2. "upsert_vpn" \in Holding \ {"load"}
        BY DEF Holding, Forward
      <4>3. QED
        BY <2>1, <3>1, <4>1, <4>2, GoToMoves DEF Carried, TypeInv, TypeOK
    <3>2. CASE Reply(p, "error")
      BY <3>2, ReplyCarries DEF Carried
    <3>3. QED
      BY <1>1, <3>1, <3>2 DEF IssueHy2Cert
  <2>3. NodeTypes
    BY <1>1, <2>1, <2>2, FaultType, CallFaults, RequestType
       DEF IssueHy2Cert, Carried, NodeTypes, TypeInv, TypeOK, disk, running, Hosts
  <2>4. QED
    BY <1>1, <2>1, <2>2, <2>3, HolderType DEF IssueHy2Cert, Carried, panel
<1>2. CASE WriteXray(p)
  <2>1. pc[p] \in Holding \ {"load"} /\ pc[p] # "idle" /\ cert = p
    BY <1>2 DEF WriteXray, At, Holding, Forward, Undo, Moved, Issued, TypeInv, ReadyInv
  <2>2. Carried(p)
    BY <1>2, <2>1, CarryMoves
       DEF WriteXray, At, Carried, Holding, Issued, Forward, Undo, Moved, disk
  <2>3. NodeTypes
    BY <1>2, <2>1, <2>2, FaultType, CallFaults, RequestType
       DEF WriteXray, Carried, NodeTypes, TypeInv, TypeOK, disk, running, Hosts, RenderedXray
  <2>4. QED
    BY <1>2, <2>1, <2>2, <2>3, HolderType DEF WriteXray, Carried, panel
<1>3. CASE RestartXray(p)
  <2>1. pc[p] \in Holding \ {"load"} /\ pc[p] # "idle" /\ cert = p
    BY <1>3 DEF RestartXray, At, Holding, Forward, Undo, Moved, Issued, TypeInv, ReadyInv
  <2>2. Carried(p)
    BY <1>3, <2>1, CarryMoves
       DEF RestartXray, At, Carried, Holding, Issued, Forward, Undo, Moved, disk, AfterXray
  <2>3. NodeTypes
    BY <1>3, <2>1, <2>2, FaultType, CallFaults
       DEF RestartXray, Carried, NodeTypes, TypeInv, TypeOK, disk, running, Hosts
  <2>4. QED
    BY <1>3, <2>1, <2>2, <2>3, HolderType DEF RestartXray, Carried, panel
<1>4. CASE WriteCfd(p)
  <2>1. pc[p] \in Holding \ {"load"} /\ pc[p] # "idle" /\ cert = p
    BY <1>4 DEF WriteCfd, At, Holding, Forward, Undo, Moved, Issued, TypeInv, ReadyInv
  <2>2. Carried(p)
    BY <1>4, <2>1, CarryMoves
       DEF WriteCfd, At, Carried, Holding, Issued, Forward, Undo, Moved, disk
  <2>3. NodeTypes
    BY <1>4, <2>1, <2>2, FaultType, CallFaults, RequestType
       DEF WriteCfd, Carried, NodeTypes, TypeInv, TypeOK, disk, running, Hosts
  <2>4. QED
    BY <1>4, <2>1, <2>2, <2>3, HolderType DEF WriteCfd, Carried, panel
<1>5. CASE RestoreCfd(p)
  <2>1. pc[p] \in Holding \ {"load"} /\ pc[p] # "idle"
    BY <1>5 DEF RestoreCfd, At, Holding, Forward, Undo, Moved
  <2>2. Carried(p)
    BY <1>5, <2>1, CarryMoves
       DEF RestoreCfd, At, Carried, Holding, Issued, Forward, Undo, Moved, disk
  <2>3. NodeTypes
    BY <1>5, <2>1, <2>2, FaultType, CallFaults, LocalType
       DEF RestoreCfd, Carried, NodeTypes, TypeInv, TypeOK, disk, running, Hosts
  <2>4. QED
    BY <1>5, <2>1, <2>2, <2>3, HolderType DEF RestoreCfd, Carried, panel
<1>6. CASE RestoreXray(p)
  <2>1. pc[p] \in Holding \ {"load"} /\ pc[p] # "idle"
    BY <1>6 DEF RestoreXray, At, Holding, Forward, Undo, Moved
  <2>2. Carried(p)
    BY <1>6, <2>1, CarryMoves
       DEF RestoreXray, At, Carried, Holding, Issued, Forward, Undo, Moved, disk
  <2>3. NodeTypes
    BY <1>6, <2>1, <2>2, FaultType, CallFaults, LocalType
       DEF RestoreXray, Carried, NodeTypes, TypeInv, TypeOK, disk, running, Hosts
  <2>4. QED
    BY <1>6, <2>1, <2>2, <2>3, HolderType DEF RestoreXray, Carried, panel
<1>7. CASE RestartOldXray(p)
  <2>1. pc[p] \in Holding \ {"load"} /\ pc[p] # "idle"
    BY <1>7 DEF RestartOldXray, At, Holding, Forward, Undo, Moved
  <2>2. Carried(p)
    BY <1>7, <2>1, CarryMoves
       DEF RestartOldXray, At, Carried, Holding, Issued, Forward, Undo, Moved, disk
  <2>3. NodeTypes
    BY <1>7, <2>1, <2>2, FaultType, CallFaults
       DEF RestartOldXray, Carried, NodeTypes, TypeInv, TypeOK, disk, running, Hosts
  <2>4. QED
    BY <1>7, <2>1, <2>2, <2>3, HolderType DEF RestartOldXray, Carried, panel
<1>8. CASE RestartOldCfd(p)
  <2>1. pc[p] \in Holding \ {"load"} /\ pc[p] # "idle"
    BY <1>8 DEF RestartOldCfd, At, Holding, Forward, Undo, Moved
  <2>2. Carried(p)
    BY <1>8, <2>1, CarryMoves
       DEF RestartOldCfd, At, Carried, Holding, Issued, Forward, Undo, Moved, disk
  <2>3. NodeTypes
    BY <1>8, <2>1, <2>2, FaultType, CallFaults
       DEF RestartOldCfd, Carried, NodeTypes, TypeInv, TypeOK, disk, running, Hosts
  <2>4. QED
    BY <1>8, <2>1, <2>2, <2>3, HolderType DEF RestartOldCfd, Carried, panel
<1>9. CASE RestoreHy2Cert(p)
  <2>1. pc[p] \in Holding \ {"load"} /\ pc[p] # "idle"
    BY <1>9 DEF RestoreHy2Cert, At, Holding, Forward, Undo, Moved
  <2>2. Carried(p)
    BY <1>9, <2>1, CarryMoves
       DEF RestoreHy2Cert, At, Carried, Holding, Issued, Forward, Undo, Moved, disk
  <2>3. NodeTypes
    BY <1>9, <2>1, <2>2, FaultType, CallFaults, LocalType
       DEF RestoreHy2Cert, Carried, NodeTypes, TypeInv, TypeOK, disk, running, Hosts
  <2>4. QED
    BY <1>9, <2>1, <2>2, <2>3, HolderType DEF RestoreHy2Cert, Carried, panel
<1>10. CASE FailHy2(p)
  <2>1. pc[p] \in Holding \ {"load"} /\ pc[p] # "idle"
    BY <1>10 DEF FailHy2, At, Holding, Forward, Undo, Moved
  <2>2. Carried(p)
    BY <1>10, <2>1, CarryMoves
       DEF FailHy2, At, Carried, Holding, Issued, Forward, Undo, Moved, disk
  <2>3. NodeTypes
    BY <1>10, <2>1, <2>2, FaultType, CallFaults
       DEF FailHy2, Carried, NodeTypes, TypeInv, TypeOK, disk, running, Hosts, DeleteCreated, Delete
  <2>4. QED
    BY <1>10, <2>1, <2>2, <2>3, HolderType DEF FailHy2, Carried, panel
<1>11. CASE FailVpn(p)
  <2>1. pc[p] \in Holding \ {"load"} /\ pc[p] # "idle"
    BY <1>11 DEF FailVpn, At, Holding, Forward, Undo, Moved
  <2>2. Carried(p)
    BY <1>11, <2>1, CarryMoves, ReplyCarries
       DEF FailVpn, At, Carried, Holding, Issued, Forward, Undo, Moved, disk
  <2>3. NodeTypes
    BY <1>11, <2>1, <2>2, FaultType, CallFaults
       DEF FailVpn, Carried, NodeTypes, TypeInv, TypeOK, disk, running, Hosts, DeleteCreated, Delete
  <2>4. QED
    BY <1>11, <2>1, <2>2, <2>3, HolderType DEF FailVpn, Carried, panel
<1>12. CASE RotateHy2Config(p)
  <2>1. pc[p] \in Holding \ {"load"} /\ pc[p] # "idle" /\ cert = p
    BY <1>12 DEF RotateHy2Config, At, Holding, Forward, Undo, Moved, Issued, TypeInv, ReadyInv
  <2>2. Carried(p)
    BY <1>12, <2>1, CarryMoves
       DEF RotateHy2Config, At, Carried, Holding, Issued, Forward, Undo, Moved, disk
  <2>3. NodeTypes
    BY <1>12, <2>1, <2>2, FaultType, CallFaults
       DEF RotateHy2Config, Carried, NodeTypes, TypeInv, TypeOK, disk, running, Hosts
  <2>4. QED
    BY <1>12, <2>1, <2>2, <2>3, HolderType DEF RotateHy2Config, Carried, panel
<1>13. CASE ReloadHy2(p)
  <2>1. pc[p] \in Holding \ {"load"} /\ pc[p] # "idle" /\ cert = p
    BY <1>13 DEF ReloadHy2, At, Holding, Forward, Undo, Moved, Issued, TypeInv, ReadyInv
  <2>2. Carried(p)
    BY <1>13, <2>1, CarryMoves
       DEF ReloadHy2, At, Carried, Holding, Issued, Forward, Undo, Moved, disk
  <2>3. NodeTypes
    BY <1>13, <2>1, <2>2, FaultType, CallFaults
       DEF ReloadHy2, Carried, NodeTypes, TypeInv, TypeOK, disk, running, Hosts
  <2>4. QED
    BY <1>13, <2>1, <2>2, <2>3, HolderType DEF ReloadHy2, Carried, panel
<1>14. CASE ReloadOldHy2(p)
  <2>1. pc[p] \in Holding \ {"load"} /\ pc[p] # "idle" /\ cert = p
    BY <1>14 DEF ReloadOldHy2, At, Holding, Forward, Undo, Moved, Issued, TypeInv, ReadyInv
  <2>2. Carried(p)
    BY <1>14, <2>1, CarryMoves
       DEF ReloadOldHy2, At, Carried, Holding, Issued, Forward, Undo, Moved, disk
  <2>3. NodeTypes
    BY <1>14, <2>1, <2>2, FaultType, CallFaults
       DEF ReloadOldHy2, Carried, NodeTypes, TypeInv, TypeOK, disk, running, Hosts
  <2>4. QED
    BY <1>14, <2>1, <2>2, <2>3, HolderType DEF ReloadOldHy2, Carried, panel
<1>15. CASE SavePartial(p)
  <2>1. pc[p] \in Holding \ {"load"} /\ pc[p] # "idle" /\ cert = p
    BY <1>15 DEF SavePartial, At, Holding, Forward, Undo, Moved, Issued, TypeInv, ReadyInv
  <2>2. Carried(p)
    BY <1>15, <2>1, CarryMoves, ReplyCarries
       DEF SavePartial, At, Carried, Holding, Issued, Forward, Undo, Moved, disk
  <2>3. NodeTypes
    BY <1>15, <2>1, <2>2, FaultType, CallFaults, EnvType
       DEF SavePartial, Carried, NodeTypes, TypeInv, TypeOK, disk, running, Hosts
  <2>4. QED
    BY <1>15, <2>1, <2>2, <2>3, HolderType DEF SavePartial, Carried, panel
<1>16. CASE SaveEnv(p)
  <2>1. pc[p] \in Holding \ {"load"} /\ pc[p] # "idle" /\ cert = p
    BY <1>16 DEF SaveEnv, At, Holding, Forward, Undo, Moved, Issued, TypeInv, ReadyInv
  <2>2. Carried(p)
    BY <1>16, <2>1, CarryMoves, ReplyCarries
       DEF SaveEnv, At, Carried, Holding, Issued, Forward, Undo, Moved, disk
  <2>3. NodeTypes
    BY <1>16, <2>1, <2>2, FaultType, CallFaults, EnvType
       DEF SaveEnv, Carried, NodeTypes, TypeInv, TypeOK, disk, running, Hosts
  <2>4. QED
    BY <1>16, <2>1, <2>2, <2>3, HolderType DEF SaveEnv, Carried, panel
<1>17. CASE RegenerateSubscriptions(p)
  <2>1. pc[p] \in Holding \ {"load"} /\ pc[p] # "idle" /\ cert = p
    BY <1>17 DEF RegenerateSubscriptions, At, Holding, Forward, Undo, Moved, Issued, TypeInv,
                 ReadyInv
  <2>2. Carried(p)
    BY <1>17, <2>1, CarryMoves, ReplyCarries
       DEF RegenerateSubscriptions, At, Carried, Holding, Issued, Forward, Undo, Moved, disk
  <2>3. NodeTypes
    BY <1>17, <2>1, <2>2, FaultType, CallFaults, EnvType
       DEF RegenerateSubscriptions, Carried, NodeTypes, TypeInv, TypeOK, disk, running, Hosts
  <2>4. QED
    BY <1>17, <2>1, <2>2, <2>3, HolderType DEF RegenerateSubscriptions, Carried, panel
<1>18. CASE DeleteOldVpn(p)
  <2>1. pc[p] \in Holding \ {"load"} /\ pc[p] # "idle" /\ cert = p
    BY <1>18 DEF DeleteOldVpn, At, Holding, Forward, Undo, Moved, Issued, TypeInv, ReadyInv
  <2>2. Carried(p)
    BY <1>18, <2>1, CarryMoves
       DEF DeleteOldVpn, At, Carried, Holding, Issued, Forward, Undo, Moved, disk
  <2>3. NodeTypes
    BY <1>18, <2>1, <2>2, FaultType, CallFaults
       DEF DeleteOldVpn, Carried, NodeTypes, TypeInv, TypeOK, disk, running, Hosts, Delete
  <2>4. QED
    BY <1>18, <2>1, <2>2, <2>3, HolderType DEF DeleteOldVpn, Carried, panel
<1>19. CASE DeleteOldHy2(p)
  <2>1. pc[p] \in Holding \ {"load"} /\ pc[p] # "idle" /\ cert = p
    BY <1>19 DEF DeleteOldHy2, At, Holding, Forward, Undo, Moved, Issued, TypeInv, ReadyInv
  <2>2. Carried(p)
    BY <1>19, <2>1, CarryMoves, ReplyCarries
       DEF DeleteOldHy2, At, Carried, Holding, Issued, Forward, Undo, Moved, disk
  <2>3. NodeTypes
    BY <1>19, <2>1, <2>2, FaultType, CallFaults
       DEF DeleteOldHy2, Carried, NodeTypes, TypeInv, TypeOK, disk, running, Hosts, Delete
  <2>4. QED
    BY <1>19, <2>1, <2>2, <2>3, HolderType DEF DeleteOldHy2, Carried, panel
<1>20. CASE Load(p)
  <2>1. pc[p] \in Holding
    BY <1>20 DEF Load, At, Holding, Forward
  <2>2. NodeTypes
    BY <1>20, LoadMoves, FaultType
       DEF Load, NodeTypes, TypeInv, TypeOK, disk, running
  <2>3. QED
    BY <1>20, <2>1, <2>2, LoadMoves, HolderType DEF Load
<1>21. CASE UpsertVpn(p) \/ UpsertHy2(p)
  <2>1. pc[p] \in Issued /\ {"upsert_hy2", "write_xray"} \subseteq Issued
    BY <1>21 DEF UpsertVpn, UpsertHy2, At, Issued, Forward
  <2>2. pc[p] \in Holding /\ pc[p] # "idle"
    BY <2>1, StepNames
  <2>3. PICK rec \in Records, next \in Issued : Upsert(p, rec, next)
    BY <1>21, <2>1, <2>2, RequestType DEF UpsertVpn, UpsertHy2
  <2>4. Moves(p) /\ gone' = gone /\ local' \in [Rotations -> Locals \cup {None}]
        /\ dns' \subseteq Records
    BY <2>1, <2>3, UpsertMoves
  <2>5. NodeTypes
    BY <2>3, <2>4, FaultType, CallFaults
       DEF Upsert, NodeTypes, TypeInv, TypeOK, disk, running
  <2>6. QED
    BY <2>2, <2>3, <2>4, <2>5, HolderType DEF Upsert
<1>22. CASE AcquireConfigLock(p)
  <2>1. /\ pc' = [pc EXCEPT ![p] = "load"] /\ lock = None /\ lock' = p /\ pc[p] = "waiting"
        /\ \A q \in Rotations : pc[q] \notin Holding
    BY <1>22, NoneAssumption DEF AcquireConfigLock, Become, At, TypeInv, LockInv
  <2>2. TypeOK'
    BY <1>22, <2>1, StepNames
       DEF AcquireConfigLock, TypeInv, TypeOK, disk, running, panel, Holding, Forward, Steps
  <2>3. LockInv'
    BY <2>1 DEF LockInv, TypeInv, TypeOK
  <2>4. ReadyInv'
    BY <1>22, <2>1, StepNames
       DEF AcquireConfigLock, ReadyInv, TypeInv, TypeOK, panel, disk, Issued, Forward, Moved
  <2>5. QED
    BY <2>2, <2>3, <2>4 DEF TypeInv
<1>23. CASE ErrLockBusy(p)
  <2>1. pc' = [pc EXCEPT ![p] = "error"] /\ pc[p] = "waiting"
    BY <1>23 DEF ErrLockBusy, GoTo, Become, At
  <2>2. TypeOK'
    BY <1>23, <2>1, StepNames
       DEF ErrLockBusy, GoTo, TypeInv, TypeOK, disk, running, panel
  <2>3. LockInv' /\ ReadyInv'
    BY <1>23, <2>1, StepNames
       DEF ErrLockBusy, GoTo, LockInv, ReadyInv, TypeInv, TypeOK, panel, disk
  <2>4. QED
    BY <2>2, <2>3 DEF TypeInv
<1>24. CASE RestartCfd(p)
  <2>1. pc[p] \in Holding \ {"load"} /\ pc[p] # "idle" /\ cert = p
    BY <1>24 DEF RestartCfd, At, Holding, Issued, Forward, TypeInv, ReadyInv
  <2>2. gone' \subseteq Rotations /\ lock' = lock /\ cert' = p
    BY <1>24, <2>1 DEF RestartCfd, TypeInv, TypeOK, disk
  <2>3. local[p] \in Locals
    BY <2>1 DEF TypeInv, ReadyInv
  <2>4. ASSUME Become(p, "rotate_hy2"), UNCHANGED local PROVE Carried(p)
    <3>1. "rotate_hy2" \in Holding \ {"load"}
      BY DEF Holding, Moved
    <3>2. pc' = [pc EXCEPT ![p] = "rotate_hy2"] /\ local'[p] \in Locals
          /\ \A q \in Rotations \ {p} : local'[q] = local[q]
      BY <2>3, <2>4 DEF Become
    <3>3. Moves(p)
      BY <2>2, <3>1, <3>2, Zenon DEF Moves
    <3>4. QED
      BY <2>2, <2>4, <3>3 DEF Carried, TypeInv, TypeOK
  <2>5. ASSUME Become(p, "restore_cfd"), local' = [local EXCEPT ![p].cfdTouched = TRUE]
        PROVE  Carried(p)
    <3>1. [local[p] EXCEPT !.cfdTouched = TRUE] \in Locals
      BY <2>3 DEF Locals
    <3>2. local' = [local EXCEPT ![p] = [local[p] EXCEPT !.cfdTouched = TRUE]]
      BY <2>5
    <3>3. local' \in [Rotations -> Locals \cup {None}] /\ local'[p] \in Locals
          /\ \A q \in Rotations \ {p} : local'[q] = local[q]
      BY <3>1, <3>2 DEF TypeInv, TypeOK
    <3>4. "restore_cfd" \in Holding \ {"load"}
      BY DEF Holding, Undo
    <3>5. pc' = [pc EXCEPT ![p] = "restore_cfd"]
      BY <2>5 DEF Become
    <3>6. Moves(p)
      BY <2>2, <3>3, <3>4, <3>5, Zenon DEF Moves
    <3>7. QED
      BY <2>2, <3>3, <3>6 DEF Carried
  <2>6. Carried(p)
    BY <1>24, <2>4, <2>5 DEF RestartCfd
  <2>7. NodeTypes
    BY <1>24, <2>1, <2>2, FaultType, CallFaults
       DEF RestartCfd, NodeTypes, TypeInv, TypeOK, disk, running
  <2>8. QED
    BY <1>24, <2>1, <2>6, <2>7, HolderType DEF RestartCfd, Carried, panel
<1>25. QED
  BY <1>1, <1>2, <1>3, <1>4, <1>5, <1>6, <1>7, <1>8, <1>9, <1>10, <1>11, <1>12, <1>13,
     <1>14, <1>15, <1>16, <1>17, <1>18, <1>19, <1>20, <1>21, <1>22, <1>23, <1>24
     DEF Step

\* The panel, and what happens to an answer: the node is left alone.
PanelStep(p) ==
    NodeRotate(p) \/ Persist(p) \/ RotateFailed(p) \/ Timeout(p) \/ ConnectionLost(p)

LEMMA PanelTypeInv ==
    ASSUME TypeInv, NEW p \in Rotations, PanelStep(p)
    PROVE  TypeInv'
<1>1. CASE NodeRotate(p)
  <2>1. PICK h \in {p, row.host} :
          req' = [req EXCEPT ![p] = [new |-> h, hy2 |-> p, old |-> RowNames]]
    BY <1>1 DEF NodeRotate
  <2>2. [new |-> h, hy2 |-> p, old |-> RowNames] \in Request
    BY DEF Request, RowNames, Row, TypeInv, TypeOK, Hosts, Names
  <2>3. req' \in [Rotations -> Request \cup {None}] /\ req'[p] \in Request /\ req'[p].hy2 = p
        /\ \A q \in Rotations \ {p} : req'[q] = req[q]
    BY <2>1, <2>2 DEF TypeInv, TypeOK
  <2>4. pc' = [pc EXCEPT ![p] = "waiting"]
    BY <1>1 DEF NodeRotate, GoTo, Become
  <2>5. TypeOK'
    BY <1>1, <2>3, <2>4, StepNames DEF NodeRotate, GoTo, TypeInv, TypeOK, disk, running
  <2>6. LockInv' /\ ReadyInv'
    BY <1>1, <2>3, <2>4, StepNames
       DEF NodeRotate, GoTo, LockInv, ReadyInv, TypeInv, TypeOK, disk
  <2>7. QED
    BY <2>5, <2>6 DEF TypeInv
<1>2. CASE Persist(p) \/ RotateFailed(p) \/ Timeout(p) \/ ConnectionLost(p)
  <2>1. UNCHANGED <<disk, running, dns, lock, pc, req, local>>
    BY <1>2 DEF Persist, RotateFailed, Timeout, ConnectionLost
  <2>2. answer' \in [Rotations -> Answers]
    BY <1>2 DEF Persist, RotateFailed, Timeout, ConnectionLost, Tell, Answers, TypeInv, TypeOK
  <2>3. gone' \subseteq Rotations /\ faults' \in 0..MaxFaults
    BY <1>2, FaultType
       DEF Persist, RotateFailed, Timeout, ConnectionLost, TypeInv, TypeOK, NoFault
  <2>4. row' \in Row
    <3>1. CASE Persist(p)
      <4>1. pc[p] # "idle"
        BY <3>1 DEF Persist, At
      <4>2. row \in Row /\ req[p].new \in Hosts /\ req[p].hy2 \in Hosts
        BY <4>1, RequestType DEF TypeInv, TypeOK
      <4>3. QED
        BY <3>1, <4>2 DEF Persist, Row
    <3>2. CASE ~Persist(p)
      BY <1>2, <3>2 DEF RotateFailed, Timeout, ConnectionLost, TypeInv, TypeOK
    <3>3. QED
      BY <3>1, <3>2
  <2>5. TypeOK'
    BY <2>1, <2>2, <2>3, <2>4 DEF TypeInv, TypeOK, disk, running
  <2>6. LockInv' /\ ReadyInv'
    BY <2>1 DEF LockInv, ReadyInv, TypeInv, disk
  <2>7. QED
    BY <2>5, <2>6 DEF TypeInv
<1>3. QED
  BY <1>1, <1>2 DEF PanelStep

LEMMA DieTypeInv ==
    ASSUME TypeInv, AgentCrash \/ Reboot
    PROVE  TypeInv'
<1>1. Die
  BY DEF AgentCrash, Reboot
<1>2. \A q \in Rotations :
        /\ pc'[q] = IF q \in Live THEN "dead" ELSE pc[q]
        /\ local'[q] = IF q \in Live THEN None ELSE local[q]
        /\ pc'[q] \notin Holding
        /\ pc'[q] # "idle" => pc[q] # "idle"
  BY <1>1, StepNames DEF Die, Live
<1>3. pc' \in [Rotations -> Steps] /\ local' \in [Rotations -> Locals \cup {None}]
  BY <1>1, StepNames DEF Die, TypeInv, TypeOK
<1>4. cert' \in Hosts \cup {Mixed} /\ faults' \in 0..MaxFaults
  BY <1>1, FaultType DEF Die, HalfCopied, TypeInv, TypeOK
<1>5. {xrayRun', cfdRun', hyRun'} \subseteq Hosts \cup {Down}
  BY <1>4 DEF AgentCrash, Reboot, TypeInv, TypeOK, running
<1>6. TypeOK'
  BY <1>1, <1>3, <1>4, <1>5 DEF Die, TypeInv, TypeOK, panel
<1>7. LockInv'
  BY <1>2 DEF LockInv
<1>8. ReadyInv'
  BY <1>1, <1>2, StepNames DEF ReadyInv, TypeInv, Die, panel
<1>9. QED
  BY <1>6, <1>7, <1>8 DEF TypeInv

LEMMA NextTypeInv == TypeInv /\ [Next]_vars => TypeInv'
<1>1. SUFFICES ASSUME TypeInv, [Next]_vars PROVE TypeInv'
  OBVIOUS
<1>2. CASE UNCHANGED vars
  BY <1>1, <1>2 DEF vars, disk, running, panel, TypeInv, TypeOK, LockInv, ReadyInv
<1>3. ASSUME NEW p \in Rotations, Step(p) PROVE TypeInv'
  BY <1>1, <1>3, StepTypeInv
<1>4. ASSUME NEW p \in Rotations, PanelStep(p) PROVE TypeInv'
  BY <1>1, <1>4, PanelTypeInv
<1>5. CASE AgentCrash \/ Reboot
  BY <1>1, <1>5, DieTypeInv
<1>6. QED
  BY <1>1, <1>2, <1>3, <1>4, <1>5 DEF Next, PanelStep

\* The variables keep their types, and what an agent step relies on holds when it
\* is taken: it has the lock, its request and what it needs to undo itself, and
\* the certificate on disk is the one it issued (internal/commands/rotate.go).
THEOREM RotationTypeCorrect == Spec => []TypeOK
<1>1. Spec => []TypeInv
  BY InitTypeInv, NextTypeInv, PTL DEF Spec
<1>2. TypeInv => TypeOK
  BY DEF TypeInv
<1>3. QED
  BY <1>1, <1>2, PTL

-----------------------------------------------------------------------------
(* The records of the names the node goes by.                              *)

\* Rotations that have not touched cfvpn.env, that have written both names to it,
\* and that have both of their records.
Before == {"idle", "waiting", "rotate_hy2", "reload_hy", "reload_old_hy", "save_partial",
           "save_env"} \cup Forward \cup Undo
After == {"subscriptions", "delete_old_vpn", "delete_old_hy2"}
Recorded == {"write_xray", "restart_xray", "write_cfd", "restart_cfd"} \cup Moved

\* A rotation's names are its own, and the row has none it was not told "ok" for.
NameInv ==
    \A p \in Rotations :
        /\ pc[p] = "idle" => req[p] = None
        /\ pc[p] # "idle" => req[p].new \in {p, req[p].old.host} /\ req[p].old.hy2 # p
        /\ row.hy2 = p => pc[p] = "ok"

RecordsInv ==
    Renaming =>
        /\ Vpn(env.host) \in dns /\ Hy2(env.hy2) \in dns
        /\ \A p \in Rotations :
            /\ pc[p] \in Before => env.host # p /\ env.hy2 # p
            /\ pc[p] \in After => env.host = p /\ env.hy2 = p
            /\ pc[p] \in Recorded \cup {"upsert_hy2"} => Vpn(p) \in dns
            /\ pc[p] \in Recorded => Hy2(p) \in dns

IInv == TypeInv /\ NameInv /\ RecordsInv

\* What is known at step t is known at step s.
Weaker(s, t) ==
    /\ t \in Before => s \in Before
    /\ t \in After => s \in After
    /\ t \in Recorded => s \in Recorded
    /\ t = "upsert_hy2" => s = "upsert_hy2"

AgentMoves(p) ==
    /\ pc' = [pc EXCEPT ![p] = pc'[p]]
    /\ pc'[p] # "idle" /\ pc[p] \notin {"idle", "ok"}
    /\ UNCHANGED panel

Quiet(p) == AgentMoves(p) /\ Weaker(pc[p], pc'[p]) /\ UNCHANGED <<env, dns>>

Loud(p) ==
    UpsertVpn(p) \/ UpsertHy2(p) \/ FailHy2(p) \/ FailVpn(p) \/ SavePartial(p) \/ SaveEnv(p)
    \/ DeleteOldVpn(p) \/ DeleteOldHy2(p)

LEMMA InitIInv == Init => IInv
<1>1. SUFFICES ASSUME Init PROVE NameInv /\ RecordsInv
  BY InitTypeInv DEF IInv
<1>2. \A p \in Rotations : pc[p] = "idle" /\ req[p] = None
  BY <1>1 DEF Init
<1>3. row.hy2 = Old /\ env.host = Old /\ env.hy2 = Old
  BY <1>1 DEF Init, Named
<1>4. "idle" \notin After /\ "idle" \notin Recorded \cup {"upsert_hy2"}
  BY DEF After, Recorded, Moved
<1>5. NameInv
  BY <1>2, <1>3, HostsAssumption DEF NameInv
<1>6. Vpn(Old) \in dns /\ Hy2(Old) \in dns
  BY <1>1 DEF Init
<1>7. RecordsInv
  BY <1>2, <1>3, <1>4, <1>6, HostsAssumption DEF RecordsInv
<1>8. QED
  BY <1>5, <1>7

LEMMA QuietMoves ==
    ASSUME TypeInv, NEW p \in Rotations, Step(p), ~Loud(p)
    PROVE  Quiet(p)
<1> USE DEF TypeInv, TypeOK, At, GoTo, Reply, Become, Quiet, AgentMoves, Weaker, disk, panel,
            Before, After, Recorded, Forward, Undo, Moved
<1>1. CASE AcquireConfigLock(p)
  BY <1>1 DEF AcquireConfigLock
<1>2. CASE ErrLockBusy(p)
  BY <1>2 DEF ErrLockBusy
<1>3. CASE Load(p)
  BY <1>3 DEF Load
<1>4. CASE IssueHy2Cert(p)
  BY <1>4 DEF IssueHy2Cert
<1>5. CASE WriteXray(p)
  BY <1>5 DEF WriteXray
<1>6. CASE RestartXray(p)
  BY <1>6 DEF RestartXray, AfterXray
<1>7. CASE WriteCfd(p)
  BY <1>7 DEF WriteCfd
<1>8. CASE RestartCfd(p)
  BY <1>8 DEF RestartCfd
<1>9. CASE RestoreCfd(p)
  BY <1>9 DEF RestoreCfd
<1>10. CASE RestoreXray(p)
  BY <1>10 DEF RestoreXray
<1>11. CASE RestartOldXray(p)
  BY <1>11 DEF RestartOldXray
<1>12. CASE RestartOldCfd(p)
  BY <1>12 DEF RestartOldCfd
<1>13. CASE RestoreHy2Cert(p)
  BY <1>13 DEF RestoreHy2Cert
<1>14. CASE RotateHy2Config(p)
  BY <1>14 DEF RotateHy2Config
<1>15. CASE ReloadHy2(p)
  BY <1>15 DEF ReloadHy2
<1>16. CASE ReloadOldHy2(p)
  BY <1>16 DEF ReloadOldHy2
<1>17. CASE RegenerateSubscriptions(p)
  BY <1>17 DEF RegenerateSubscriptions
<1>18. QED
  BY <1>1, <1>2, <1>3, <1>4, <1>5, <1>6, <1>7, <1>8, <1>9,
     <1>10, <1>11, <1>12, <1>13, <1>14, <1>15, <1>16, <1>17 DEF Step, Loud

LEMMA LoudMoves ==
    ASSUME TypeInv, NEW p \in Rotations, Loud(p)
    PROVE  AgentMoves(p)
<1> USE DEF TypeInv, TypeOK, At, GoTo, Reply, Become, AgentMoves, panel, Upsert
<1>1. CASE UpsertVpn(p)
  BY <1>1 DEF UpsertVpn
<1>2. CASE UpsertHy2(p)
  BY <1>2 DEF UpsertHy2
<1>3. CASE FailHy2(p)
  BY <1>3 DEF FailHy2
<1>4. CASE FailVpn(p)
  BY <1>4 DEF FailVpn
<1>5. CASE SavePartial(p)
  BY <1>5 DEF SavePartial
<1>6. CASE SaveEnv(p)
  BY <1>6 DEF SaveEnv
<1>7. CASE DeleteOldVpn(p)
  BY <1>7 DEF DeleteOldVpn
<1>8. CASE DeleteOldHy2(p)
  BY <1>8 DEF DeleteOldHy2
<1>9. QED
  BY <1>1, <1>2, <1>3, <1>4, <1>5, <1>6, <1>7, <1>8 DEF Loud

\* While every rotation renames, the host asked for is the generated one.
LEMMA OwnName ==
    ASSUME TypeInv, NameInv, Renaming, NEW p \in Rotations, pc[p] # "idle"
    PROVE  /\ req[p].new = p /\ req[p].hy2 = p
           /\ req[p].old.host # p /\ req[p].old.hy2 # p
<1>1. req[p] \in Request /\ req[p].hy2 = p
  BY DEF TypeInv, ReadyInv
<1>2. req[p].new \in {p, req[p].old.host} /\ req[p].old.hy2 # p
  BY DEF NameInv
<1>3. req[p].new # req[p].old.host
  BY <1>1, NoneAssumption DEF Renaming
<1>4. QED
  BY <1>1, <1>2, <1>3

LEMMA AgentNameInv ==
    ASSUME TypeInv, NameInv, NEW p \in Rotations, AgentMoves(p)
    PROVE  NameInv' /\ (Renaming' => Renaming)
<1>1. \A q \in Rotations : q # p => pc'[q] = pc[q]
  BY DEF AgentMoves, TypeInv, TypeOK
<1>2. NameInv'
  BY <1>1 DEF AgentMoves, NameInv, panel
<1>3. QED
  BY <1>2 DEF AgentMoves, Renaming, panel

LEMMA QuietRecordsInv ==
    ASSUME TypeInv, RecordsInv, Renaming' => Renaming, UNCHANGED <<env, dns>>,
           \A q \in Rotations : Weaker(pc[q], pc'[q])
    PROVE  RecordsInv'
BY DEF RecordsInv, Weaker

\* The rotation that holds the lock is the only one under way.
LEMMA Alone ==
    ASSUME TypeInv, NEW p \in Rotations, pc[p] \in Holding, NEW q \in Rotations, q # p
    PROVE  pc[q] \notin Holding /\ pc[q] \notin After /\ pc[q] \notin Recorded \cup {"upsert_hy2"}
<1>1. pc[q] \notin Holding
  BY NoneAssumption DEF TypeInv, LockInv
<1>2. After \subseteq Holding /\ Recorded \cup {"upsert_hy2"} \subseteq Holding
  BY DEF After, Recorded, Holding, Forward, Moved
<1>3. QED
  BY <1>1, <1>2

\* A step that leaves cfvpn.env alone.
LEMMA RecordsStep ==
    ASSUME IInv, NEW p \in Rotations, Loud(p), pc[p] \in Holding, UNCHANGED env,
           Renaming => /\ Vpn(env.host) \in dns' /\ Hy2(env.hy2) \in dns'
                       /\ pc'[p] \in Before => pc[p] \in Before
                       /\ pc'[p] \in After => pc[p] \in After
                       /\ pc'[p] \in Recorded \cup {"upsert_hy2"} => Vpn(p) \in dns'
                       /\ pc'[p] \in Recorded => Hy2(p) \in dns'
    PROVE  RecordsInv'
<1>1. AgentMoves(p) /\ (Renaming' => Renaming)
  BY LoudMoves, AgentNameInv DEF IInv
<1>2. SUFFICES ASSUME Renaming PROVE RecordsInv'
  BY <1>1 DEF RecordsInv
<1>3. \A q \in Rotations \ {p} :
        /\ pc'[q] = pc[q]
        /\ pc[q] \notin After /\ pc[q] \notin Recorded \cup {"upsert_hy2"}
  BY <1>1, Alone DEF AgentMoves, IInv, TypeInv, TypeOK
<1>4. QED
  BY <1>2, <1>3 DEF IInv, RecordsInv

\* The new records first.
LEMMA UpsertRecordsInv ==
    ASSUME IInv, NEW p \in Rotations, UpsertVpn(p) \/ UpsertHy2(p)
    PROVE  RecordsInv'
<1>1. pc[p] \in Holding /\ pc[p] \in Before /\ pc[p] # "idle" /\ UNCHANGED env
  BY DEF UpsertVpn, UpsertHy2, Upsert, At, Holding, Forward, Before, disk
<1>2. dns \subseteq dns'
  BY DEF UpsertVpn, UpsertHy2, Upsert
<1>3. Renaming => Vpn(env.host) \in dns' /\ Hy2(env.hy2) \in dns'
  BY <1>2 DEF IInv, RecordsInv
<1>4. Renaming => req[p].new = p /\ req[p].hy2 = p
  BY <1>1, OwnName DEF IInv
<1>5. CASE UpsertVpn(p)
  <2>1. pc[p] = "upsert_vpn" /\ pc'[p] \in {"upsert_hy2", "fail_cert"}
        /\ (pc'[p] = "upsert_hy2" => Vpn(req[p].new) \in dns')
    BY <1>5 DEF UpsertVpn, Upsert, At, GoTo, Become, IInv, TypeInv, TypeOK
  <2>2. pc'[p] \notin After /\ pc'[p] \notin Recorded
        /\ (pc'[p] \in {"upsert_hy2"} => pc'[p] = "upsert_hy2")
    BY <2>1 DEF After, Recorded, Moved
  <2>3. QED
    BY <1>1, <1>3, <1>4, <1>5, <2>1, <2>2, RecordsStep DEF Loud
<1>6. CASE UpsertHy2(p)
  <2>1. pc[p] = "upsert_hy2" /\ pc'[p] \in {"write_xray", "fail_cert"}
        /\ (pc'[p] = "write_xray" => Hy2(req[p].hy2) \in dns')
    BY <1>6 DEF UpsertHy2, Upsert, At, GoTo, Become, IInv, TypeInv, TypeOK
  <2>2. pc'[p] \notin After /\ "fail_cert" \notin Recorded \cup {"upsert_hy2"}
    BY <2>1 DEF After, Recorded, Moved
  <2>3. Renaming => Vpn(p) \in dns
    BY <2>1 DEF IInv, RecordsInv
  <2>4. QED
    BY <1>1, <1>2, <1>3, <1>4, <1>6, <2>1, <2>2, <2>3, RecordsStep DEF Loud
<1>7. QED
  BY <1>5, <1>6

\* A rollback deletes what cfvpn.env does not name.
LEMMA FailRecordsInv ==
    ASSUME IInv, NEW p \in Rotations, FailHy2(p) \/ FailVpn(p)
    PROVE  RecordsInv'
<1>1. pc[p] \in Holding /\ pc[p] \in Before /\ pc[p] # "idle" /\ UNCHANGED env
  BY DEF FailHy2, FailVpn, At, Holding, Undo, Before, disk
<1>2. Renaming => /\ req[p].new = p /\ req[p].hy2 = p
                  /\ env.host # p /\ env.hy2 # p
                  /\ Vpn(env.host) \in dns /\ Hy2(env.hy2) \in dns
  BY <1>1, OwnName DEF IInv, RecordsInv
<1>3. Renaming => Vpn(env.host) \in dns' /\ Hy2(env.hy2) \in dns'
  BY <1>2 DEF FailHy2, FailVpn, DeleteCreated, Delete, Vpn, Hy2
<1>4. pc'[p] \in {"fail_vpn", "error"}
  BY DEF FailHy2, FailVpn, GoTo, Reply, Become, IInv, TypeInv, TypeOK
<1>5. pc'[p] \notin After /\ pc'[p] \notin Recorded \cup {"upsert_hy2"}
  BY <1>4 DEF After, Recorded, Moved
<1>6. QED
  BY <1>1, <1>3, <1>5, RecordsStep DEF Loud

\* The old records last, when cfvpn.env names the new ones.
LEMMA DeleteRecordsInv ==
    ASSUME IInv, NEW p \in Rotations, DeleteOldVpn(p) \/ DeleteOldHy2(p)
    PROVE  RecordsInv'
<1>1. /\ pc[p] \in Holding /\ pc[p] \in After /\ pc[p] \in Recorded /\ pc[p] # "idle"
      /\ UNCHANGED env
  BY DEF DeleteOldVpn, DeleteOldHy2, At, Holding, Moved, After, Recorded, disk
<1>2. Renaming => /\ req[p].old.host # p /\ req[p].old.hy2 # p
                  /\ env.host = p /\ env.hy2 = p /\ Vpn(p) \in dns /\ Hy2(p) \in dns
  BY <1>1, OwnName DEF IInv, RecordsInv
<1>3. Renaming => Vpn(p) \in dns' /\ Hy2(p) \in dns'
  BY <1>2 DEF DeleteOldVpn, DeleteOldHy2, Delete, Vpn, Hy2
<1>4. pc'[p] \in {"delete_old_hy2", "ok"}
  BY DEF DeleteOldVpn, DeleteOldHy2, GoTo, Reply, Become, IInv, TypeInv, TypeOK
<1>5. pc'[p] \notin Before
  BY <1>4 DEF Before, Forward, Undo
<1>6. QED
  BY <1>1, <1>2, <1>3, <1>5, RecordsStep DEF Loud

\* cfvpn.env takes the new names when their records are there.
LEMMA SaveRecordsInv ==
    ASSUME IInv, NEW p \in Rotations, SavePartial(p) \/ SaveEnv(p)
    PROVE  RecordsInv'
<1>1. AgentMoves(p) /\ (Renaming' => Renaming)
  BY LoudMoves, AgentNameInv DEF IInv, Loud
<1>2. SUFFICES ASSUME Renaming PROVE RecordsInv'
  BY <1>1 DEF RecordsInv
<1>3. /\ pc[p] \in Holding /\ pc[p] \in Recorded /\ pc[p] # "idle" /\ pc[p] \in Before
      /\ UNCHANGED dns
  BY DEF SavePartial, SaveEnv, At, Holding, Moved, Before, Recorded
<1>4. req[p].new = p /\ req[p].hy2 = p /\ Vpn(p) \in dns /\ Hy2(p) \in dns
  BY <1>2, <1>3, OwnName DEF IInv, RecordsInv
<1>5. \A q \in Rotations \ {p} :
        /\ pc'[q] = pc[q]
        /\ pc[q] \notin After /\ pc[q] \notin Recorded \cup {"upsert_hy2"}
  BY <1>1, <1>3, Alone DEF AgentMoves, IInv, TypeInv, TypeOK
<1>6. /\ env'.host \in {env.host, p} /\ env'.hy2 \in {env.hy2, p}
      /\ pc'[p] \in {"error", "subscriptions"}
      /\ pc'[p] = "subscriptions" => env'.host = p /\ env'.hy2 = p
  <2>1. env \in Env
    BY DEF IInv, TypeInv, TypeOK
  <2>2. QED
    BY <1>4, <2>1
       DEF SavePartial, SaveEnv, Env, GoTo, Reply, Become, IInv, TypeInv, TypeOK
<1>7. /\ pc'[p] \notin Before /\ pc'[p] \notin {"upsert_hy2"}
      /\ pc'[p] \in After => pc'[p] = "subscriptions"
  BY <1>6 DEF Before, Forward, Undo, After
<1>8. Vpn(env'.host) \in dns' /\ Hy2(env'.hy2) \in dns'
  BY <1>2, <1>3, <1>4, <1>6 DEF IInv, RecordsInv
<1>9. \A q \in Rotations \ {p} : pc'[q] \in Before => env'.host # q /\ env'.hy2 # q
  BY <1>2, <1>5, <1>6 DEF IInv, RecordsInv
<1>10. QED
  BY <1>3, <1>4, <1>5, <1>6, <1>7, <1>8, <1>9 DEF RecordsInv

LEMMA StepIInv ==
    ASSUME IInv, NEW p \in Rotations, Step(p)
    PROVE  IInv'
<1>1. TypeInv'
  BY StepTypeInv DEF IInv
<1>2. CASE Loud(p)
  <2>1. NameInv'
    BY <1>2, LoudMoves, AgentNameInv DEF IInv
  <2>2. RecordsInv'
    BY <1>2, UpsertRecordsInv, FailRecordsInv, DeleteRecordsInv, SaveRecordsInv DEF Loud
  <2>3. QED
    BY <1>1, <2>1, <2>2 DEF IInv
<1>3. CASE ~Loud(p)
  <2>1. Quiet(p)
    BY <1>3, QuietMoves DEF IInv
  <2>2. NameInv' /\ (Renaming' => Renaming)
    BY <2>1, AgentNameInv DEF Quiet, IInv
  <2>3. \A q \in Rotations : Weaker(pc[q], pc'[q])
    BY <2>1 DEF Quiet, AgentMoves, Weaker, IInv, TypeInv, TypeOK
  <2>4. RecordsInv'
    BY <2>1, <2>2, <2>3, QuietRecordsInv DEF Quiet, IInv
  <2>5. QED
    BY <1>1, <2>2, <2>4 DEF IInv
<1>4. QED
  BY <1>2, <1>3

LEMMA PanelIInv ==
    ASSUME IInv, NEW p \in Rotations, PanelStep(p)
    PROVE  IInv'
<1>1. TypeInv'
  BY PanelTypeInv DEF IInv
<1>2. CASE NodeRotate(p)
  <2>1. PICK h \in {p, row.host} :
          req' = [req EXCEPT ![p] = [new |-> h, hy2 |-> p, old |-> RowNames]]
    BY <1>2 DEF NodeRotate
  <2>2. /\ pc[p] = "idle" /\ pc'[p] = "waiting" /\ req[p] = None
        /\ req'[p].new \in {p, req'[p].old.host} /\ req'[p].old.hy2 = row.hy2
        /\ \A q \in Rotations \ {p} : pc'[q] = pc[q] /\ req'[q] = req[q]
        /\ UNCHANGED <<env, dns, row>>
    BY <1>2, <2>1
       DEF NodeRotate, At, GoTo, Become, RowNames, disk, IInv, NameInv, TypeInv, TypeOK
  <2>3. NameInv'
    BY <2>2 DEF NameInv, IInv
  <2>4. Renaming' => Renaming
    BY <2>2 DEF Renaming
  <2>5. \A q \in Rotations : Weaker(pc[q], pc'[q])
    BY <2>2 DEF Weaker, Before, After, Recorded, Moved, Forward, Undo
  <2>6. RecordsInv'
    BY <2>2, <2>4, <2>5, QuietRecordsInv DEF IInv
  <2>7. QED
    BY <1>1, <2>3, <2>6 DEF IInv
<1>3. CASE Persist(p) \/ RotateFailed(p) \/ Timeout(p) \/ ConnectionLost(p)
  <2>1. UNCHANGED <<env, dns, pc, req>>
    BY <1>3 DEF Persist, RotateFailed, Timeout, ConnectionLost, disk
  <2>2. row'.hy2 = row.hy2 \/ (row'.hy2 = p /\ pc[p] = "ok")
    <3>1. pc[p] = "ok" => req[p].hy2 = p
      BY DEF IInv, TypeInv, ReadyInv
    <3>2. CASE Persist(p)
      <4>1. row \in Row
        BY DEF IInv, TypeInv, TypeOK
      <4>2. QED
        BY <3>1, <3>2, <4>1 DEF Persist, At, Row
    <3>3. CASE RotateFailed(p) \/ Timeout(p) \/ ConnectionLost(p)
      <4>1. UNCHANGED row
        BY <3>3 DEF RotateFailed, Timeout, ConnectionLost
      <4>2. QED
        BY <4>1
    <3>4. QED
      BY <1>3, <3>2, <3>3
  <2>3. NameInv'
    BY <2>1, <2>2 DEF NameInv, IInv
  <2>4. RecordsInv'
    BY <2>1, QuietRecordsInv DEF IInv, Renaming, Weaker
  <2>5. QED
    BY <1>1, <2>3, <2>4 DEF IInv
<1>4. QED
  BY <1>2, <1>3 DEF PanelStep

LEMMA DieIInv ==
    ASSUME IInv, AgentCrash \/ Reboot
    PROVE  IInv'
<1>1. TypeInv'
  BY DieTypeInv DEF IInv
<1>2. /\ UNCHANGED <<env, dns, row, req>>
      /\ \A q \in Rotations : pc'[q] = pc[q] \/ (pc'[q] = "dead" /\ pc[q] \notin {"idle", "ok"})
  <2>1. Die
    BY DEF AgentCrash, Reboot
  <2>2. \A q \in Live : pc[q] \notin {"idle", "ok"}
    BY StepNames DEF Live
  <2>3. UNCHANGED <<env, dns, row, req>>
    BY <2>1 DEF Die, panel
  <2>4. \A q \in Rotations : pc'[q] = IF q \in Live THEN "dead" ELSE pc[q]
    BY <2>1 DEF Die
  <2>5. QED
    BY <2>2, <2>3, <2>4
<1>3. "dead" \notin Before \cup After \cup Recorded \cup {"upsert_hy2"}
  BY DEF Before, After, Recorded, Moved, Forward, Undo
<1>4. \A q \in Rotations : Weaker(pc[q], pc'[q])
  BY <1>2, <1>3 DEF Weaker
<1>5. NameInv'
  BY <1>2 DEF NameInv, IInv
<1>6. RecordsInv'
  BY <1>2, <1>4, QuietRecordsInv DEF IInv, Renaming
<1>7. QED
  BY <1>1, <1>5, <1>6 DEF IInv

LEMMA NextIInv == IInv /\ [Next]_vars => IInv'
<1>1. SUFFICES ASSUME IInv, [Next]_vars PROVE IInv'
  OBVIOUS
<1>2. CASE UNCHANGED vars
  <2>1. TypeInv'
    BY <1>1, <1>2, NextTypeInv DEF IInv
  <2>2. UNCHANGED <<env, dns, row, req, pc>>
    BY <1>2 DEF vars, disk, running, panel
  <2>3. NameInv' /\ RecordsInv'
    BY <1>1, <2>2 DEF IInv, NameInv, RecordsInv, Renaming
  <2>4. QED
    BY <2>1, <2>3 DEF IInv
<1>3. ASSUME NEW p \in Rotations, Step(p) PROVE IInv'
  BY <1>1, <1>3, StepIInv
<1>4. ASSUME NEW p \in Rotations, PanelStep(p) PROVE IInv'
  BY <1>1, <1>4, PanelIInv
<1>5. CASE AgentCrash \/ Reboot
  BY <1>1, <1>5, DieIInv
<1>6. QED
  BY <1>1, <1>2, <1>3, <1>4, <1>5 DEF Next, PanelStep

\* However many rotations are asked for, and wherever each fails, is cut off, is
\* rolled back or dies, the records of the names in cfvpn.env are there
\* (internal/commands/rotate.go).
THEOREM NamesResolve == Spec => []ServedNamesResolve
<1>1. Spec => []IInv
  BY InitIInv, NextIInv, PTL DEF Spec
<1>2. IInv => ServedNamesResolve
  BY DEF IInv, RecordsInv, ServedNamesResolve
<1>3. QED
  BY <1>1, <1>2, PTL

-----------------------------------------------------------------------------
(* What "ok" promises.                                                     *)

\* How far the node of a rotation that holds the lock has come: each step leaves
\* what the steps after it build on, and none of those undoes it.
Switched(p) ==
    /\ pc[p] \in {"restart_xray", "write_cfd", "restart_cfd"} \cup Moved =>
        (Cloudflare => xray = req[p].new)
    /\ pc[p] \in {"write_cfd", "restart_cfd"} \cup Moved => xrayRun = xray
    /\ pc[p] = "restart_cfd" => cfd = req[p].new
    /\ pc[p] \in Moved => (Cloudflare => cfd = req[p].new /\ cfdRun = req[p].new)
    /\ pc[p] \in {"save_env"} \cup After => hyRun = p
    /\ pc[p] \in After => Named = [host |-> req[p].new, hy2 |-> p]
    /\ pc[p] \in {"delete_old_vpn", "delete_old_hy2"} => subs = Named
    /\ pc[p] \in Recorded \cup {"upsert_hy2"} =>
        (req[p].new # req[p].old.host => Vpn(req[p].new) \in dns)
    /\ pc[p] \in Recorded => Hy2(p) \in dns

SwitchedInv == \A p \in Rotations : Switched(p)


-----------------------------------------------------------------------------
(* What a step of the agent does to the other rotations: nothing.          *)

\* The steps under the lock.
HolderSteps(p) ==
    \/ Load(p) \/ IssueHy2Cert(p) \/ UpsertVpn(p) \/ UpsertHy2(p)
    \/ WriteXray(p) \/ RestartXray(p) \/ WriteCfd(p) \/ RestartCfd(p)
    \/ RestoreCfd(p) \/ RestoreXray(p) \/ RestartOldXray(p) \/ RestartOldCfd(p)
    \/ RestoreHy2Cert(p) \/ FailHy2(p) \/ FailVpn(p)
    \/ RotateHy2Config(p) \/ ReloadHy2(p) \/ ReloadOldHy2(p) \/ SavePartial(p)
    \/ SaveEnv(p) \/ RegenerateSubscriptions(p) \/ DeleteOldVpn(p) \/ DeleteOldHy2(p)

LEMMA StepCases ==
    ASSUME NEW p, Step(p)
    PROVE  HolderSteps(p) \/ AcquireConfigLock(p) \/ ErrLockBusy(p)
BY DEF Step, HolderSteps

LEMMA HolderHolds ==
    ASSUME NEW p, HolderSteps(p)
    PROVE  pc[p] \in Holding
<1> USE DEF At, Holding, Forward, Undo, Moved
<1>1. CASE Load(p)
  BY <1>1 DEF Load
<1>2. CASE IssueHy2Cert(p)
  BY <1>2 DEF IssueHy2Cert
<1>3. CASE UpsertVpn(p)
  BY <1>3 DEF UpsertVpn
<1>4. CASE UpsertHy2(p)
  BY <1>4 DEF UpsertHy2
<1>5. CASE WriteXray(p)
  BY <1>5 DEF WriteXray
<1>6. CASE RestartXray(p)
  BY <1>6 DEF RestartXray
<1>7. CASE WriteCfd(p)
  BY <1>7 DEF WriteCfd
<1>8. CASE RestartCfd(p)
  BY <1>8 DEF RestartCfd
<1>9. CASE RestoreCfd(p)
  BY <1>9 DEF RestoreCfd
<1>10. CASE RestoreXray(p)
  BY <1>10 DEF RestoreXray
<1>11. CASE RestartOldXray(p)
  BY <1>11 DEF RestartOldXray
<1>12. CASE RestartOldCfd(p)
  BY <1>12 DEF RestartOldCfd
<1>13. CASE RestoreHy2Cert(p)
  BY <1>13 DEF RestoreHy2Cert
<1>14. CASE FailHy2(p)
  BY <1>14 DEF FailHy2
<1>15. CASE FailVpn(p)
  BY <1>15 DEF FailVpn
<1>16. CASE RotateHy2Config(p)
  BY <1>16 DEF RotateHy2Config
<1>17. CASE ReloadHy2(p)
  BY <1>17 DEF ReloadHy2
<1>18. CASE ReloadOldHy2(p)
  BY <1>18 DEF ReloadOldHy2
<1>19. CASE SavePartial(p)
  BY <1>19 DEF SavePartial
<1>20. CASE SaveEnv(p)
  BY <1>20 DEF SaveEnv
<1>21. CASE RegenerateSubscriptions(p)
  BY <1>21 DEF RegenerateSubscriptions
<1>22. CASE DeleteOldVpn(p)
  BY <1>22 DEF DeleteOldVpn
<1>23. CASE DeleteOldHy2(p)
  BY <1>23 DEF DeleteOldHy2
<1>24. QED
  BY <1>1, <1>2, <1>3, <1>4, <1>5, <1>6, <1>7, <1>8, <1>9, <1>10, <1>11, <1>12, <1>13,
     <1>14, <1>15, <1>16, <1>17, <1>18, <1>19, <1>20, <1>21, <1>22, <1>23 DEF HolderSteps

LEMMA AgentSteps ==
    ASSUME TypeInv, NEW p \in Rotations, Step(p)
    PROVE  AgentMoves(p) /\ \A q \in Rotations \ {p} : pc'[q] = pc[q]
<1>1. AgentMoves(p)
  BY QuietMoves, LoudMoves DEF Quiet
<1>2. QED
  BY <1>1 DEF AgentMoves, TypeInv, TypeOK

\* One rotation at a time is at work.
LEMMA OthersWait ==
    ASSUME TypeInv, NEW p \in Rotations, Step(p), ~ErrLockBusy(p)
    PROVE  \A q \in Rotations \ {p} : pc[q] \notin Holding /\ pc'[q] = pc[q]
<1>1. \A q \in Rotations \ {p} : pc'[q] = pc[q]
  BY AgentSteps
<1>2. CASE pc[p] \in Holding
  BY <1>1, <1>2, NoneAssumption DEF TypeInv, LockInv
<1>3. CASE AcquireConfigLock(p)
  BY <1>1, <1>3, NoneAssumption DEF AcquireConfigLock, TypeInv, LockInv
<1>4. QED
  BY <1>2, <1>3, StepCases, HolderHolds
LEMMA IdleSwitched ==
    ASSUME NEW q, pc[q] \notin Holding
    PROVE  Switched(q)
BY DEF Switched, Holding, Forward, Moved, After, Recorded

\* The holder's own next step.
LEMMA HolderSwitched ==
    ASSUME TypeInv, NameInv, NEW p \in Rotations, Switched(p), HolderSteps(p)
    PROVE  Switched(p)'
<1>1. /\ UNCHANGED req /\ pc[p] \in Holding /\ pc[p] # "idle" /\ req[p].hy2 = p
      /\ pc[p] \in Issued => cert = p
      /\ req[p].old.hy2 # p
  <2>1. Step(p)
    BY DEF HolderSteps, Step
  <2>2. pc[p] \in Holding /\ pc[p] # "idle" /\ UNCHANGED req
    BY <2>1, HolderHolds, AgentSteps DEF AgentMoves, panel
  <2>3. QED
    BY <2>2 DEF TypeInv, ReadyInv, NameInv
<1>2. pc \in [Rotations -> Steps] /\ env \in Env
  BY DEF TypeInv, TypeOK
<1> USE <1>1, <1>2 DEF At, GoTo, Reply, Become, disk, running, panel, Switched, Moved, After,
                       Recorded, Cloudflare, Named, Vpn, Hy2
<1>3. CASE Load(p)
  BY <1>3 DEF Load
<1>4. CASE IssueHy2Cert(p)
  BY <1>4 DEF IssueHy2Cert
<1>5. CASE UpsertVpn(p)
  BY <1>5 DEF UpsertVpn, Upsert
<1>6. CASE UpsertHy2(p)
  BY <1>6 DEF UpsertHy2, Upsert
<1>7. CASE WriteXray(p)
  BY <1>7 DEF WriteXray, RenderedXray
<1>8. CASE RestartXray(p)
  BY <1>8 DEF RestartXray, AfterXray
<1>9. CASE WriteCfd(p)
  BY <1>9 DEF WriteCfd
<1>10. CASE RestartCfd(p)
  BY <1>10 DEF RestartCfd
<1>11. CASE RestoreCfd(p)
  BY <1>11 DEF RestoreCfd
<1>12. CASE RestoreXray(p)
  BY <1>12 DEF RestoreXray
<1>13. CASE RestartOldXray(p)
  BY <1>13 DEF RestartOldXray
<1>14. CASE RestartOldCfd(p)
  BY <1>14 DEF RestartOldCfd
<1>15. CASE RestoreHy2Cert(p)
  BY <1>15 DEF RestoreHy2Cert
<1>16. CASE FailHy2(p)
  BY <1>16 DEF FailHy2, DeleteCreated, Delete
<1>17. CASE FailVpn(p)
  BY <1>17 DEF FailVpn, DeleteCreated, Delete
<1>18. CASE RotateHy2Config(p)
  BY <1>18 DEF RotateHy2Config
<1>19. CASE ReloadHy2(p)
  BY <1>19 DEF ReloadHy2, Issued
<1>20. CASE ReloadOldHy2(p)
  BY <1>20 DEF ReloadOldHy2
<1>21. CASE SavePartial(p)
  BY <1>21 DEF SavePartial, Env
<1>22. CASE SaveEnv(p)
  BY <1>22 DEF SaveEnv, Env
<1>23. CASE RegenerateSubscriptions(p)
  BY <1>23 DEF RegenerateSubscriptions
<1>24. CASE DeleteOldVpn(p)
  BY <1>24 DEF DeleteOldVpn, Delete
<1>25. CASE DeleteOldHy2(p)
  BY <1>25 DEF DeleteOldHy2, Delete
<1>26. QED
  BY <1>3, <1>4, <1>5, <1>6, <1>7, <1>8, <1>9, <1>10, <1>11, <1>12, <1>13, <1>14,
     <1>15, <1>16, <1>17, <1>18, <1>19, <1>20, <1>21, <1>22, <1>23, <1>24, <1>25 DEF HolderSteps

LEMMA NextSwitched == TypeInv /\ NameInv /\ SwitchedInv /\ [Next]_vars => SwitchedInv'
<1>1. SUFFICES ASSUME TypeInv, NameInv, SwitchedInv, [Next]_vars PROVE SwitchedInv'
  OBVIOUS
<1>2. CASE UNCHANGED vars
  BY <1>1, <1>2 DEF vars, disk, running, panel, SwitchedInv, Switched, Named, Cloudflare
<1>3. ASSUME NEW p \in Rotations, Step(p) PROVE SwitchedInv'
  <2>1. CASE HolderSteps(p)
    <3>1. Switched(p)'
      BY <1>1, <2>1, HolderSwitched DEF SwitchedInv
    <3>2. \A q \in Rotations \ {p} : pc'[q] \notin Holding
      BY <1>1, <1>3, <2>1, OthersWait, HolderHolds
         DEF ErrLockBusy, At, Holding, Forward, Undo, Moved
    <3>3. \A q \in Rotations : Switched(q)'
      BY <3>1, <3>2 DEF Switched, Holding, Forward, Moved, After, Recorded
    <3>4. QED
      BY <3>3 DEF SwitchedInv
  <2>2. CASE AcquireConfigLock(p) \/ ErrLockBusy(p)
    <3>1. /\ UNCHANGED <<disk, running, dns, req>>
          /\ \A q \in Rotations : pc'[q] = pc[q] \/ pc'[q] \in {"load", "error"}
      BY <1>1, <2>2
         DEF AcquireConfigLock, ErrLockBusy, GoTo, Become, panel, TypeInv, TypeOK
    <3>2. QED
      BY <1>1, <3>1
         DEF SwitchedInv, Switched, Moved, After, Recorded, disk, running, Named, Cloudflare
  <2>3. QED
    BY <1>3, <2>1, <2>2, StepCases
<1>4. ASSUME NEW p \in Rotations, PanelStep(p) PROVE SwitchedInv'
  <2>1. /\ UNCHANGED <<disk, running, dns>>
        /\ \A q \in Rotations :
            \/ pc'[q] = pc[q] /\ req'[q] = req[q]
            \/ pc'[q] = "waiting"
    BY <1>1, <1>4 DEF PanelStep, NodeRotate, Persist, RotateFailed, Timeout, ConnectionLost,
                      GoTo, Become, TypeInv, TypeOK
  <2>2. QED
    BY <1>1, <2>1 DEF SwitchedInv, Switched, Moved, After, Recorded, disk, running, Named, Cloudflare
<1>5. CASE AgentCrash \/ Reboot
  <2>1. \A q \in Rotations : pc'[q] \notin Holding
    BY <1>5, StepNames DEF AgentCrash, Reboot, Die, Live
  <2>2. QED
    BY <2>1 DEF SwitchedInv, Switched, Holding, Forward, Moved, After, Recorded
<1>6. QED
  BY <1>1, <1>2, <1>3, <1>4, <1>5 DEF Next, PanelStep

\* "ok" is answered by the last step of all, on a node that has switched to the
\* new names file by file and service by service
\* (internal/commands/rotate.go: RunRotateDirect, RunRotateCloudflare).
THEOREM OkMovesAll == Spec => OkMeansMoved
<1> DEFINE Done(p) ==
         /\ Named' = [host |-> req[p].new, hy2 |-> req[p].hy2]
         /\ subs' = Named' /\ cert' = req[p].hy2 /\ hyRun' = req[p].hy2
         /\ xrayRun' = xray'
         /\ Cloudflare => {xray', cfd', cfdRun'} = {req[p].new}
         /\ Hy2(req[p].hy2) \in dns'
         /\ req[p].new # req[p].old.host => Vpn(req[p].new) \in dns'
<1>1. TypeInv /\ NameInv /\ SwitchedInv /\ [Next]_vars =>
        [\A p \in Rotations : ~At(p, "ok") /\ pc'[p] = "ok" => Done(p)]_vars
  <2> HIDE DEF Done
  <2>1. SUFFICES ASSUME TypeInv, NameInv, SwitchedInv, Next, NEW p \in Rotations,
                        pc[p] # "ok", pc'[p] = "ok"
                 PROVE  Done(p)
    BY DEF At
  <2>2. \A q \in Rotations : ~PanelStep(q)
    BY <2>1 DEF PanelStep, NodeRotate, Persist, RotateFailed, Timeout, ConnectionLost,
                GoTo, Become, TypeInv, TypeOK
  <2>3. ~AgentCrash /\ ~Reboot
    BY <2>1 DEF AgentCrash, Reboot, Die
  <2>4. PICK q \in Rotations : Step(q)
    BY <2>1, <2>2, <2>3 DEF Next, PanelStep
  <2>5. q = p
    BY <2>1, <2>4, AgentSteps
  <2>6. DeleteOldHy2(p)
    <3>1. pc \in [Rotations -> Steps]
      BY <2>1 DEF TypeInv, TypeOK
    <3>2. QED
      BY <2>1, <2>4, <2>5, <3>1
         DEF Step, AcquireConfigLock, ErrLockBusy, Load, IssueHy2Cert, UpsertVpn, UpsertHy2,
             Upsert, WriteXray, RestartXray, AfterXray, WriteCfd, RestartCfd, RestoreCfd,
             RestoreXray, RestartOldXray, RestartOldCfd, RestoreHy2Cert, FailHy2, FailVpn,
             RotateHy2Config, ReloadHy2, ReloadOldHy2, SavePartial, SaveEnv,
             RegenerateSubscriptions, DeleteOldVpn, GoTo, Reply, Become
  <2>7. /\ UNCHANGED <<disk, running>> /\ pc[p] = "delete_old_hy2"
        /\ Switched(p) /\ cert = p /\ req[p].hy2 = p
    BY <2>1, <2>6
       DEF DeleteOldHy2, At, SwitchedInv, TypeInv, ReadyInv, Issued, Moved
  <2>8. /\ Hy2(p) \in dns /\ req[p].old.hy2 # p
        /\ req[p].new # req[p].old.host => Vpn(req[p].new) \in dns
    BY <2>1, <2>7 DEF Switched, Recorded, Moved, NameInv
  <2>9. Hy2(p) \in dns' /\ (req[p].new # req[p].old.host => Vpn(req[p].new) \in dns')
    BY <2>6, <2>8 DEF DeleteOldHy2, Delete, Hy2, Vpn
  <2>10. QED
    BY <2>7, <2>9 DEF Done, Switched, After, Moved, disk, running, Named, Cloudflare
<1>2. Spec => []IInv
  BY InitIInv, NextIInv, PTL DEF Spec
<1>3. IInv => TypeInv /\ NameInv
  BY DEF IInv
<1>4. Init => SwitchedInv
  BY DEF Init, SwitchedInv, Switched, Moved, After, Recorded
<1>5. QED
  BY <1>1, <1>2, <1>3, <1>4, NextSwitched, PTL DEF Spec, OkMeansMoved

-----------------------------------------------------------------------------
(* Each step of the agent is a failure or it is not.                       *)

LEMMA StepFaults ==
    ASSUME NEW p, Step(p)
    PROVE  Fault \/ NoFault
<1> USE DEF Works, Breaks
<1>1. CASE AcquireConfigLock(p)
  BY <1>1 DEF AcquireConfigLock, NoFault
<1>2. CASE ErrLockBusy(p)
  BY <1>2 DEF ErrLockBusy, NoFault
<1>3. CASE Load(p)
  BY <1>3 DEF Load
<1>4. CASE IssueHy2Cert(p)
  BY <1>4 DEF IssueHy2Cert
<1>5. CASE UpsertVpn(p)
  BY <1>5 DEF UpsertVpn, Upsert
<1>6. CASE UpsertHy2(p)
  BY <1>6 DEF UpsertHy2, Upsert
<1>7. CASE WriteXray(p)
  BY <1>7 DEF WriteXray
<1>8. CASE RestartXray(p)
  BY <1>8 DEF RestartXray
<1>9. CASE WriteCfd(p)
  BY <1>9 DEF WriteCfd
<1>10. CASE RestartCfd(p)
  BY <1>10 DEF RestartCfd
<1>11. CASE RestoreCfd(p)
  BY <1>11 DEF RestoreCfd
<1>12. CASE RestoreXray(p)
  BY <1>12 DEF RestoreXray
<1>13. CASE RestartOldXray(p)
  BY <1>13 DEF RestartOldXray
<1>14. CASE RestartOldCfd(p)
  BY <1>14 DEF RestartOldCfd
<1>15. CASE RestoreHy2Cert(p)
  BY <1>15 DEF RestoreHy2Cert
<1>16. CASE FailHy2(p)
  BY <1>16 DEF FailHy2, DeleteCreated, Delete
<1>17. CASE FailVpn(p)
  BY <1>17 DEF FailVpn, DeleteCreated, Delete
<1>18. CASE RotateHy2Config(p)
  BY <1>18 DEF RotateHy2Config
<1>19. CASE ReloadHy2(p)
  BY <1>19 DEF ReloadHy2
<1>20. CASE ReloadOldHy2(p)
  BY <1>20 DEF ReloadOldHy2
<1>21. CASE SavePartial(p)
  BY <1>21 DEF SavePartial
<1>22. CASE SaveEnv(p)
  BY <1>22 DEF SaveEnv
<1>23. CASE RegenerateSubscriptions(p)
  BY <1>23 DEF RegenerateSubscriptions
<1>24. CASE DeleteOldVpn(p)
  BY <1>24 DEF DeleteOldVpn, Delete
<1>25. CASE DeleteOldHy2(p)
  BY <1>25 DEF DeleteOldHy2, Delete
<1>26. QED
  BY <1>1, <1>2, <1>3, <1>4, <1>5, <1>6, <1>7, <1>8, <1>9, <1>10, <1>11, <1>12, <1>13,
     <1>14, <1>15, <1>16, <1>17, <1>18, <1>19, <1>20, <1>21, <1>22, <1>23, <1>24, <1>25 DEF Step

LEMMA NoFaultYet ==
    ASSUME TypeInv, NEW p \in Rotations, Step(p)
    PROVE  faults \in Nat /\ faults' \in Nat /\ (faults' = 0 => faults = 0 /\ NoFault)
BY StepFaults, FaultsAssumption DEF TypeInv, TypeOK, Fault, NoFault

\* Nobody's connection comes back.
LEMMA GoneGrows ==
    ASSUME NEW p, Step(p)
    PROVE  gone \subseteq gone'
<1> USE DEF GoTo, Reply
<1>1. CASE AcquireConfigLock(p)
  BY <1>1 DEF AcquireConfigLock
<1>2. CASE ErrLockBusy(p)
  BY <1>2 DEF ErrLockBusy
<1>3. CASE Load(p)
  BY <1>3 DEF Load
<1>4. CASE IssueHy2Cert(p)
  BY <1>4 DEF IssueHy2Cert
<1>5. CASE UpsertVpn(p)
  BY <1>5 DEF UpsertVpn, Upsert
<1>6. CASE UpsertHy2(p)
  BY <1>6 DEF UpsertHy2, Upsert
<1>7. CASE WriteXray(p)
  BY <1>7 DEF WriteXray
<1>8. CASE RestartXray(p)
  BY <1>8 DEF RestartXray
<1>9. CASE WriteCfd(p)
  BY <1>9 DEF WriteCfd
<1>10. CASE RestartCfd(p)
  BY <1>10 DEF RestartCfd
<1>11. CASE RestoreCfd(p)
  BY <1>11 DEF RestoreCfd
<1>12. CASE RestoreXray(p)
  BY <1>12 DEF RestoreXray
<1>13. CASE RestartOldXray(p)
  BY <1>13 DEF RestartOldXray
<1>14. CASE RestartOldCfd(p)
  BY <1>14 DEF RestartOldCfd
<1>15. CASE RestoreHy2Cert(p)
  BY <1>15 DEF RestoreHy2Cert
<1>16. CASE FailHy2(p)
  BY <1>16 DEF FailHy2
<1>17. CASE FailVpn(p)
  BY <1>17 DEF FailVpn
<1>18. CASE RotateHy2Config(p)
  BY <1>18 DEF RotateHy2Config
<1>19. CASE ReloadHy2(p)
  BY <1>19 DEF ReloadHy2
<1>20. CASE ReloadOldHy2(p)
  BY <1>20 DEF ReloadOldHy2
<1>21. CASE SavePartial(p)
  BY <1>21 DEF SavePartial
<1>22. CASE SaveEnv(p)
  BY <1>22 DEF SaveEnv
<1>23. CASE RegenerateSubscriptions(p)
  BY <1>23 DEF RegenerateSubscriptions
<1>24. CASE DeleteOldVpn(p)
  BY <1>24 DEF DeleteOldVpn
<1>25. CASE DeleteOldHy2(p)
  BY <1>25 DEF DeleteOldHy2
<1>26. QED
  BY <1>1, <1>2, <1>3, <1>4, <1>5, <1>6, <1>7, <1>8, <1>9, <1>10, <1>11, <1>12, <1>13,
     <1>14, <1>15, <1>16, <1>17, <1>18, <1>19, <1>20, <1>21, <1>22, <1>23, <1>24, <1>25 DEF Step

-----------------------------------------------------------------------------
(* The row in D1.                                                          *)

Open(p) == req[p] # None /\ answer[p] = "none"

\* Nothing has gone wrong with the answers so far, and no two rotations overlap.
Orderly ==
    /\ Sequential /\ ~row.disabled
    /\ \A p \in Rotations : req[p] # None => answer[p] \in {"none", "ok"}

NewNames(p) == [host |-> req[p].new, hy2 |-> req[p].hy2]
RecordsOf(names) == {Vpn(names.host), Hy2(names.hy2)}

\* The records while rotation p is under way and nothing has failed.
RecordsAt(p) ==
    LET old == RecordsOf(req[p].old)  new == RecordsOf(NewNames(p)) IN
    /\ pc[p] \in {"waiting", "load", "issue", "upsert_vpn"} => dns = old
    /\ pc[p] = "upsert_hy2" => dns = old \cup {Vpn(req[p].new)}
    /\ pc[p] \in (Recorded \cup {"subscriptions"}) \ {"delete_old_hy2"} => dns = old \cup new
    /\ pc[p] = "delete_old_hy2" => dns = new \cup {Hy2(req[p].old.hy2)}
    /\ pc[p] = "ok" => dns = new

\* A row that was read is the row there is, until its rotation is answered; the
\* node has its names before cfvpn.env is written, and the new ones after.
FollowsAt(p) ==
    /\ req[p].old = RowNames
    /\ pc[p] \in Before => Named = RowNames
    /\ pc[p] \in After \cup {"ok"} => Named = NewNames(p)
    /\ faults = 0 /\ Renaming /\ p \notin gone => RecordsAt(p)

AnswerInv == \A p \in Rotations : answer[p] = "ok" => pc[p] = "ok"

FollowInv ==
    Orderly =>
        /\ \A p \in Rotations : Open(p) => FollowsAt(p)
        /\ (\A p \in Rotations : ~Open(p)) =>
            RowNames = Named /\ (faults = 0 /\ Renaming => dns = RecordsOf(Named))

\* What an agent's step does to what its own rotation knows.
LEMMA AgentFollows ==
    ASSUME IInv, NEW p \in Rotations, Step(p), FollowsAt(p)
    PROVE  FollowsAt(p)'
<1>1. /\ UNCHANGED <<req, row, answer>> /\ pc[p] \notin {"idle", "ok"}
      /\ pc \in [Rotations -> Steps] /\ env \in Env /\ req[p].hy2 = p
  BY AgentSteps DEF AgentMoves, panel, IInv, TypeInv, TypeOK, ReadyInv
<1>2. /\ pc[p] \in Before => Named = RowNames
      /\ pc[p] \in After => Named = NewNames(p)
  BY <1>1 DEF FollowsAt
<1>3. /\ pc'[p] \in Before => Named' = RowNames'
      /\ pc'[p] \in After \cup {"ok"} => Named' = NewNames(p)'
  <2> USE <1>1, <1>2 DEF At, GoTo, Reply, Become, disk, Before, After, Forward, Undo, Named,
          RowNames, NewNames
  <2>1. CASE AcquireConfigLock(p)
    BY <2>1 DEF AcquireConfigLock
  <2>2. CASE ErrLockBusy(p)
    BY <2>2 DEF ErrLockBusy
  <2>3. CASE Load(p)
    BY <2>3 DEF Load
  <2>4. CASE IssueHy2Cert(p)
    BY <2>4 DEF IssueHy2Cert
  <2>5. CASE UpsertVpn(p)
    BY <2>5 DEF UpsertVpn, Upsert
  <2>6. CASE UpsertHy2(p)
    BY <2>6 DEF UpsertHy2, Upsert
  <2>7. CASE WriteXray(p)
    BY <2>7 DEF WriteXray
  <2>8. CASE RestartXray(p)
    BY <2>8 DEF RestartXray, AfterXray
  <2>9. CASE WriteCfd(p)
    BY <2>9 DEF WriteCfd
  <2>10. CASE RestartCfd(p)
    BY <2>10 DEF RestartCfd
  <2>11. CASE RestoreCfd(p)
    BY <2>11 DEF RestoreCfd
  <2>12. CASE RestoreXray(p)
    BY <2>12 DEF RestoreXray
  <2>13. CASE RestartOldXray(p)
    BY <2>13 DEF RestartOldXray
  <2>14. CASE RestartOldCfd(p)
    BY <2>14 DEF RestartOldCfd
  <2>15. CASE RestoreHy2Cert(p)
    BY <2>15 DEF RestoreHy2Cert
  <2>16. CASE FailHy2(p)
    BY <2>16 DEF FailHy2
  <2>17. CASE FailVpn(p)
    BY <2>17 DEF FailVpn
  <2>18. CASE RotateHy2Config(p)
    BY <2>18 DEF RotateHy2Config
  <2>19. CASE ReloadHy2(p)
    BY <2>19 DEF ReloadHy2
  <2>20. CASE ReloadOldHy2(p)
    BY <2>20 DEF ReloadOldHy2
  <2>21. CASE SavePartial(p)
    BY <2>21 DEF SavePartial, Env
  <2>22. CASE SaveEnv(p)
    BY <2>22 DEF SaveEnv, Env
  <2>23. CASE RegenerateSubscriptions(p)
    BY <2>23 DEF RegenerateSubscriptions
  <2>24. CASE DeleteOldVpn(p)
    BY <2>24 DEF DeleteOldVpn, Delete
  <2>25. CASE DeleteOldHy2(p)
    BY <2>25 DEF DeleteOldHy2, Delete
  <2>26. QED
    BY <2>1, <2>2, <2>3, <2>4, <2>5, <2>6, <2>7, <2>8, <2>9, <2>10, <2>11, <2>12, <2>13,
       <2>14, <2>15, <2>16, <2>17, <2>18, <2>19, <2>20, <2>21, <2>22, <2>23, <2>24, <2>25 DEF Step
<1>4. faults' = 0 /\ Renaming' /\ p \notin gone' => RecordsAt(p)'
  <2>1. SUFFICES ASSUME faults' = 0, Renaming', p \notin gone' PROVE RecordsAt(p)'
    OBVIOUS
  <2>2. /\ faults = 0 /\ Renaming /\ p \notin gone /\ NoFault
        /\ ~Fault /\ ~Breaks(p)
    BY <1>1, <2>1, NoFaultYet, GoneGrows
       DEF Renaming, IInv, Fault, NoFault, Breaks
  <2>3. /\ RecordsAt(p)
        /\ req[p].new = p /\ req[p].old.host # p /\ req[p].old.hy2 # p
    BY <1>1, <2>2, OwnName DEF FollowsAt, IInv
  <2> DEFINE old == RecordsOf(req[p].old)
             new == RecordsOf(NewNames(p))
  <2>4. /\ pc[p] \in {"waiting", "load", "issue", "upsert_vpn"} => dns = old
        /\ pc[p] = "upsert_hy2" => dns = old \cup {Vpn(req[p].new)}
        /\ pc[p] \in (Recorded \cup {"subscriptions"}) \ {"delete_old_hy2"} => dns = old \cup new
        /\ pc[p] = "delete_old_hy2" => dns = new \cup {Hy2(req[p].old.hy2)}
    BY <2>3 DEF RecordsAt
  <2>5. /\ old = {Vpn(req[p].old.host), Hy2(req[p].old.hy2)}
        /\ new = {Vpn(p), Hy2(p)}
        /\ Vpn(p) # Vpn(req[p].old.host) /\ Hy2(p) # Hy2(req[p].old.hy2)
        /\ \A g, h \in Hosts : Vpn(g) # Hy2(h)
    BY <1>1, <2>3 DEF RecordsOf, NewNames, Vpn, Hy2
  <2>6. /\ old' = old /\ new' = new /\ req'[p] = req[p]
        /\ Vpn(req'[p].new) = Vpn(req[p].new) /\ Hy2(req'[p].old.hy2) = Hy2(req[p].old.hy2)
    BY <1>1 DEF RecordsOf, NewNames, Vpn, Hy2
  <2> HIDE DEF old, new
  <2>7. SUFFICES
          /\ pc'[p] \in {"waiting", "load", "issue", "upsert_vpn"} => dns' = old
          /\ pc'[p] = "upsert_hy2" => dns' = old \cup {Vpn(req[p].new)}
          /\ pc'[p] \in (Recorded \cup {"subscriptions"}) \ {"delete_old_hy2"} =>
               dns' = old \cup new
          /\ pc'[p] = "delete_old_hy2" => dns' = new \cup {Hy2(req[p].old.hy2)}
          /\ pc'[p] = "ok" => dns' = new
    BY <1>1, <2>6 DEF RecordsAt, old, new
  <2> USE <1>1, <2>2, <2>4 DEF At, GoTo, Reply, Become, Recorded, Moved
  <2>8. CASE AcquireConfigLock(p)
    BY <2>8 DEF AcquireConfigLock
  <2>9. CASE ErrLockBusy(p)
    BY <2>9 DEF ErrLockBusy
  <2>10. CASE Load(p)
    BY <2>10 DEF Load
  <2>11. CASE IssueHy2Cert(p)
    BY <2>11 DEF IssueHy2Cert
  <2>12. CASE UpsertVpn(p)
    BY <2>3, <2>5, <2>12 DEF UpsertVpn, Upsert, Works
  <2>13. CASE UpsertHy2(p)
    BY <2>3, <2>5, <2>13 DEF UpsertHy2, Upsert, Works
  <2>14. CASE WriteXray(p)
    BY <2>14 DEF WriteXray
  <2>15. CASE RestartXray(p)
    BY <2>15 DEF RestartXray, AfterXray
  <2>16. CASE WriteCfd(p)
    BY <2>16 DEF WriteCfd
  <2>17. CASE RestartCfd(p)
    BY <2>17 DEF RestartCfd
  <2>18. CASE RestoreCfd(p)
    BY <2>18 DEF RestoreCfd
  <2>19. CASE RestoreXray(p)
    BY <2>19 DEF RestoreXray
  <2>20. CASE RestartOldXray(p)
    BY <2>20 DEF RestartOldXray
  <2>21. CASE RestartOldCfd(p)
    BY <2>21 DEF RestartOldCfd
  <2>22. CASE RestoreHy2Cert(p)
    BY <2>22 DEF RestoreHy2Cert
  <2>23. CASE FailHy2(p)
    BY <2>23 DEF FailHy2
  <2>24. CASE FailVpn(p)
    BY <2>24 DEF FailVpn
  <2>25. CASE RotateHy2Config(p)
    BY <2>25 DEF RotateHy2Config
  <2>26. CASE ReloadHy2(p)
    BY <2>26 DEF ReloadHy2
  <2>27. CASE ReloadOldHy2(p)
    BY <2>27 DEF ReloadOldHy2
  <2>28. CASE SavePartial(p)
    BY <2>28 DEF SavePartial
  <2>29. CASE SaveEnv(p)
    BY <2>29 DEF SaveEnv
  <2>30. CASE RegenerateSubscriptions(p)
    BY <2>30 DEF RegenerateSubscriptions
  <2>31. CASE DeleteOldVpn(p)
    BY <2>3, <2>5, <2>31 DEF DeleteOldVpn, Delete, Vpn, Hy2
  <2>32. CASE DeleteOldHy2(p)
    BY <2>3, <2>5, <2>32 DEF DeleteOldHy2, Delete, Vpn, Hy2
  <2>33. QED
    BY <2>8, <2>9, <2>10, <2>11, <2>12, <2>13, <2>14, <2>15, <2>16, <2>17, <2>18, <2>19,
       <2>20, <2>21, <2>22, <2>23, <2>24, <2>25, <2>26, <2>27, <2>28, <2>29, <2>30,
       <2>31, <2>32 DEF Step
<1>5. QED
  BY <1>1, <1>3, <1>4 DEF FollowsAt, RowNames

\* Two rotations of which neither is answered read the same row.
LEMMA OneOpen ==
    ASSUME FollowInv, Orderly, NEW p \in Rotations, Open(p), NEW q \in Rotations, q # p
    PROVE  ~Open(q)
BY DEF FollowInv, FollowsAt, Orderly, Sequential, Open

LEMMA StepFollowInv ==
    ASSUME IInv, AnswerInv, FollowInv, NEW p \in Rotations, Step(p)
    PROVE  AnswerInv' /\ FollowInv'
<1>1. /\ UNCHANGED <<row, req, answer>> /\ pc[p] \notin {"idle", "ok"}
      /\ \A q \in Rotations \ {p} : pc'[q] = pc[q]
  BY AgentSteps DEF AgentMoves, panel, IInv
<1>2. AnswerInv'
  BY <1>1 DEF AnswerInv
<1>3. SUFFICES ASSUME Orderly' PROVE FollowInv'
  BY <1>2 DEF FollowInv
<1>4. Orderly
  BY <1>1, <1>3 DEF Orderly, Sequential
<1>5. req[p] # None
  BY <1>1, NoneAssumption DEF IInv, TypeInv, ReadyInv
<1>6. Open(p)
  BY <1>1, <1>4, <1>5 DEF Orderly, AnswerInv, Open
<1>7. FollowsAt(p)'
  BY <1>4, <1>6, AgentFollows DEF FollowInv
<1>8. \A q \in Rotations \ {p} : ~Open(q)'
  BY <1>1, <1>4, <1>6, OneOpen DEF Open
<1>9. Open(p)'
  BY <1>1, <1>6 DEF Open
<1>10. QED
  BY <1>7, <1>8, <1>9 DEF FollowInv

\* The row is read.
LEMMA AskFollowInv ==
    ASSUME IInv, AnswerInv, FollowInv, NEW p \in Rotations, NodeRotate(p)
    PROVE  AnswerInv' /\ FollowInv'
<1>1. PICK h \in {p, row.host} :
        req' = [req EXCEPT ![p] = [new |-> h, hy2 |-> p, old |-> RowNames]]
  BY DEF NodeRotate
<1>2. /\ pc[p] = "idle" /\ pc'[p] = "waiting" /\ req[p] = None /\ req'[p].old = RowNames
      /\ \A q \in Rotations \ {p} : pc'[q] = pc[q] /\ req'[q] = req[q]
      /\ UNCHANGED <<env, dns, row, answer, gone, faults>>
  BY <1>1 DEF NodeRotate, At, GoTo, Become, disk, IInv, NameInv, TypeInv, TypeOK
<1>3. AnswerInv'
  BY <1>2 DEF AnswerInv
<1>4. req'[p] # None
  BY <1>2, PanelIInv, NoneAssumption DEF PanelStep, IInv, TypeInv, ReadyInv
<1>5. SUFFICES ASSUME Orderly' PROVE FollowInv'
  BY <1>3 DEF FollowInv
<1>6. Orderly
  BY <1>2, <1>5 DEF Orderly, Sequential
<1>7. \A q \in Rotations : ~Open(q)
  <2>1. SUFFICES ASSUME NEW q \in Rotations, Open(q) PROVE FALSE
    OBVIOUS
  <2>2. q # p /\ req'[q] = req[q] /\ req[q] # None /\ req[q].old = RowNames
    BY <1>2, <1>6, <2>1 DEF Open, FollowInv, FollowsAt
  <2>3. QED
    BY <1>2, <1>4, <1>5, <2>2 DEF Orderly, Sequential
<1>8. RowNames = Named /\ (faults = 0 /\ Renaming => dns = RecordsOf(Named))
  BY <1>6, <1>7 DEF FollowInv
<1>9. Renaming' => Renaming
  BY <1>2 DEF Renaming
<1>10. UNCHANGED <<RowNames, Named>> /\ RecordsOf(Named)' = RecordsOf(Named)
  BY <1>2 DEF RowNames, Named, RecordsOf, Vpn, Hy2
<1>11. RecordsOf(req'[p].old) = RecordsOf(Named)
  BY <1>2, <1>8
<1>12. FollowsAt(p)'
  <2>1. RecordsOf(req[p].old)' = RecordsOf(req'[p].old)
    BY DEF RecordsOf, Vpn, Hy2
  <2>2. faults' = 0 /\ Renaming' => RecordsAt(p)'
    BY <1>2, <1>8, <1>9, <1>11, <2>1 DEF RecordsAt, Recorded, Moved
  <2>3. QED
    BY <1>2, <1>8, <1>10, <2>2 DEF FollowsAt, After
<1>13. \A q \in Rotations \ {p} : ~Open(q)'
  BY <1>2, <1>7 DEF Open
<1>14. QED
  BY <1>2, <1>8, <1>9, <1>10, <1>12, <1>13 DEF FollowInv

\* The row follows, or somebody is told that it may not have.
LEMMA AnswerFollowInv ==
    ASSUME IInv, AnswerInv, FollowInv, NEW p \in Rotations,
           Persist(p) \/ RotateFailed(p) \/ Timeout(p) \/ ConnectionLost(p)
    PROVE  AnswerInv' /\ FollowInv'
<1>1. /\ UNCHANGED <<env, dns, pc, req>>
      /\ answer[p] = "none" /\ answer'[p] # "none"
      /\ \A q \in Rotations \ {p} : answer'[q] = answer[q]
      /\ answer'[p] = "ok" => Persist(p)
  BY DEF Persist, RotateFailed, Timeout, ConnectionLost, Tell, disk, IInv, TypeInv, TypeOK
<1>2. AnswerInv'
  BY <1>1 DEF AnswerInv, Persist, At
<1>3. SUFFICES ASSUME Orderly' PROVE FollowInv'
  BY <1>2 DEF FollowInv
<1>4. row'.disabled = row.disabled
  <2>1. row \in Row
    BY DEF IInv, TypeInv, TypeOK
  <2>2. QED
    BY <2>1 DEF Persist, RotateFailed, Timeout, ConnectionLost, Row
<1>5. Orderly
  BY <1>1, <1>3, <1>4 DEF Orderly, Sequential
<1>6. CASE req[p] = None
  <2>1. pc[p] = "idle"
    BY <1>6, NoneAssumption DEF IInv, TypeInv, ReadyInv
  <2>2. ConnectionLost(p)
    BY <2>1, StepNames DEF Persist, RotateFailed, Timeout, Live, At
  <2>3. UNCHANGED <<row, faults, gone>>
    BY <2>2 DEF ConnectionLost
  <2>4. \A q \in Rotations : Open(q)' = Open(q)
    BY <1>1, <1>6 DEF Open
  <2>5. QED
    BY <1>1, <1>5, <2>3, <2>4
       DEF FollowInv, FollowsAt, RecordsAt, RecordsOf, NewNames, Named, RowNames, Renaming,
           Vpn, Hy2
<1>7. CASE req[p] # None
  <2>1. Persist(p) /\ answer'[p] = "ok" /\ NoFault
    BY <1>1, <1>3, <1>7
       DEF Orderly, Persist, RotateFailed, Timeout, ConnectionLost, Tell, IInv, TypeInv, TypeOK
  <2>2. Open(p) /\ pc[p] = "ok" /\ p \notin gone /\ row \in Row
    BY <1>1, <1>7, <2>1 DEF Open, Persist, At, IInv, TypeInv, TypeOK
  <2>3. FollowsAt(p) /\ Named = NewNames(p)
    BY <1>5, <2>2 DEF FollowInv, FollowsAt
  <2>4. \A q \in Rotations : ~Open(q)'
    BY <1>1, <1>5, <2>2, OneOpen DEF Open
  <2>5. RowNames' = NewNames(p)
    <3>1. ~row.disabled
      BY <1>5 DEF Orderly
    <3>2. row' = [row EXCEPT !.host = req[p].new, !.hy2 = req[p].hy2]
      BY <2>1, <3>1, <1>3, <1>7 DEF Persist, Tell, Orderly, IInv, TypeInv, TypeOK
    <3>3. QED
      BY <2>2, <3>2 DEF RowNames, NewNames, Row
  <2>6. faults = 0 /\ Renaming => dns = RecordsOf(NewNames(p))
    BY <2>2, <2>3 DEF FollowsAt, RecordsAt
  <2>7. /\ UNCHANGED <<Named, faults>> /\ (Renaming' => Renaming)
        /\ RecordsOf(Named)' = RecordsOf(Named)
    BY <1>1, <2>1 DEF Named, NoFault, Renaming, RecordsOf, Vpn, Hy2
  <2>8. QED
    BY <1>1, <2>3, <2>4, <2>5, <2>6, <2>7 DEF FollowInv
<1>8. QED
  BY <1>6, <1>7

LEMMA DieFollowInv ==
    ASSUME IInv, AnswerInv, FollowInv, AgentCrash \/ Reboot
    PROVE  AnswerInv' /\ FollowInv'
<1>1. Die
  BY DEF AgentCrash, Reboot
<1>2. /\ UNCHANGED <<env, dns, row, req, answer>> /\ faults' # 0
      /\ \A q \in Rotations : pc'[q] = pc[q] \/ (pc'[q] = "dead" /\ pc[q] # "ok")
  <2>1. UNCHANGED <<env, dns, row, req, answer>>
    BY <1>1 DEF Die, panel
  <2>2. faults' # 0
    BY <1>1, FaultsAssumption DEF Die, Fault, IInv, TypeInv, TypeOK
  <2>3. \A q \in Live : pc[q] # "ok"
    BY StepNames DEF Live
  <2>4. QED
    BY <1>1, <2>1, <2>2, <2>3 DEF Die
<1>3. "dead" \notin Before \cup After \cup {"ok"}
  BY DEF Before, After, Forward, Undo
<1>4. QED
  BY <1>2, <1>3
     DEF AnswerInv, FollowInv, FollowsAt, NewNames, Named, RowNames, Orderly, Sequential, Open

LEMMA NextFollowInv == IInv /\ AnswerInv /\ FollowInv /\ [Next]_vars => AnswerInv' /\ FollowInv'
<1>1. SUFFICES ASSUME IInv, AnswerInv, FollowInv, [Next]_vars PROVE AnswerInv' /\ FollowInv'
  OBVIOUS
<1>2. CASE UNCHANGED vars
  <2>1. UNCHANGED <<env, dns, row, req, answer, pc, gone, faults>>
    BY <1>2 DEF vars, disk, running, panel
  <2>2. AnswerInv'
    BY <1>1, <2>1 DEF AnswerInv
  <2>3. FollowInv'
    BY <1>1, <2>1
       DEF FollowInv, FollowsAt, RecordsAt, RecordsOf, NewNames, Named, RowNames, Renaming,
           Orderly, Sequential, Open, Vpn, Hy2
  <2>4. QED
    BY <2>2, <2>3
<1>3. ASSUME NEW p \in Rotations, Step(p) PROVE AnswerInv' /\ FollowInv'
  BY <1>1, <1>3, StepFollowInv
<1>4. ASSUME NEW p \in Rotations, PanelStep(p) PROVE AnswerInv' /\ FollowInv'
  BY <1>1, <1>4, AskFollowInv, AnswerFollowInv DEF PanelStep
<1>5. CASE AgentCrash \/ Reboot
  BY <1>1, <1>5, DieFollowInv
<1>6. QED
  BY <1>1, <1>2, <1>3, <1>4, <1>5 DEF Next, PanelStep

LEMMA InitFollowInv == Init => AnswerInv /\ FollowInv
<1>1. SUFFICES ASSUME Init PROVE AnswerInv /\ FollowInv
  OBVIOUS
<1>2. \A p \in Rotations : answer[p] = "none" /\ req[p] = None
  BY <1>1 DEF Init
<1>3. RowNames = Named /\ dns = RecordsOf(Named)
  BY <1>1 DEF Init, RowNames, Named, RecordsOf
<1>4. QED
  BY <1>2, <1>3 DEF AnswerInv, FollowInv, Open

\* However many rotations follow one another, and whatever they survive, a panel
\* that told "ok" for each of them has the node's names in its row; and if nothing
\* failed, the records in Cloudflare are those of the two names and no others
\* (panel/worker/src/routes/nodes.ts: nodeRotateCore;
\* internal/commands/rotate.go: deleteOldRecord).
THEOREM RowFollows == Spec => []RowFollowsNode
<1>1. Spec => []IInv
  BY InitIInv, NextIInv, PTL DEF Spec
<1>2. Spec => [](AnswerInv /\ FollowInv)
  BY <1>1, InitFollowInv, NextFollowInv, PTL DEF Spec
<1>3. FollowInv => RowFollowsNode
  <2>1. SUFFICES ASSUME FollowInv, Sequential, ~row.disabled,
                        \A p \in Rotations : req[p] # None => answer[p] = "ok"
                 PROVE  RowNames = Named
                        /\ (faults = 0 /\ Renaming => dns = {Vpn(env.host), Hy2(env.hy2)})
    BY DEF RowFollowsNode
  <2>2. Orderly /\ \A p \in Rotations : ~Open(p)
    BY <2>1 DEF Orderly, Open
  <2>3. QED
    BY <2>1, <2>2 DEF FollowInv, RecordsOf, Named
<1>4. QED
  BY <1>2, <1>3, PTL

-----------------------------------------------------------------------------
(* What a failed rotation leaves.                                          *)

\* Everything the node runs and serves goes by the names of cfvpn.env.
Whole ==
    /\ xrayRun = xray /\ subs = Named
    /\ cert = env.hy2 /\ hyRun = env.hy2
    /\ Cloudflare => xray = env.host /\ cfd = env.host /\ cfdRun = env.host

\* What a rollback of p puts back.
Kept(p) ==
    /\ subs = Named /\ hyRun = env.hy2 /\ local[p].cert = env.hy2
    /\ Cloudflare => local[p].xray = env.host /\ local[p].cfd = env.host
    /\ ~Cloudflare => local[p].xray = xray

\* While nothing has failed, each step forward has changed its own piece only.
Going(p) ==
    /\ pc[p] \notin Undo \cup {"reload_old_hy", "save_partial"}
    /\ pc[p] \in {"load", "issue"} => Whole
    /\ pc[p] \in Forward \ {"load"} => Kept(p) /\ ~local[p].cfdTouched
    /\ pc[p] \in {"upsert_vpn", "upsert_hy2", "write_xray"} =>
        xrayRun = xray /\ (Cloudflare => xray = env.host)
    /\ pc[p] \in Forward => (Cloudflare => cfdRun = env.host)
    /\ pc[p] \in Forward \ {"restart_cfd"} => (Cloudflare => cfd = env.host)

\* After one failure the rollback, step by step, restores what was changed.
Undoing(p) ==
    /\ Kept(p)
    /\ pc[p] = "restore_cfd" => local[p].cfdTouched
    /\ pc[p] \in {"restart_old_xray", "restart_old_cfd"} =>
        (Cloudflare => xray = env.host) /\ (local[p].cfdTouched => cfd = local[p].cfd)
    /\ pc[p] = "restore_xray" => (local[p].cfdTouched => cfd = local[p].cfd)
    /\ pc[p] = "restart_old_cfd" => xrayRun = xray
    /\ (Cloudflare /\ ~local[p].cfdTouched) =>
        cfdRun = env.host /\ cfd \in {env.host, req[p].new}
    /\ pc[p] = "restart_old_cfd" => local[p].cfdTouched
    /\ pc[p] \in {"fail_cert", "fail_hy2", "fail_vpn"} =>
        /\ xrayRun = xray /\ (Cloudflare => xray = env.host /\ cfdRun = env.host)
        /\ local[p].cfdTouched => cfd = local[p].cfd
    /\ pc[p] \in {"fail_hy2", "fail_vpn"} => cert = env.hy2

TraceInv ==
    gone = {} /\ Hy2On =>
        /\ faults = 0 /\ (\A p \in Rotations : pc[p] \notin Holding) => Whole
        /\ \A p \in Rotations :
            /\ faults = 0 => Going(p)
            /\ faults = 1 /\ pc[p] \in Undo => Undoing(p)

\* While nobody has hung up, HY2 is on and at most one thing has failed: the
\* holder's own next step.
LEMMA HolderTraces ==
    ASSUME TypeInv, NEW p \in Rotations, HolderSteps(p), Switched(p), gone' = {}, Hy2On,
           faults = 0 => Going(p),
           faults = 1 /\ pc[p] \in Undo => Undoing(p)
    PROVE  /\ faults' = 0 => Going(p)' /\ (pc'[p] \notin Holding => Whole')
           /\ faults' = 1 /\ pc'[p] \in Undo => Undoing(p)'
<1>1. Step(p)
  BY DEF HolderSteps, Step
<1>2. /\ UNCHANGED req /\ pc[p] \in Holding /\ pc[p] # "idle" /\ req[p].hy2 = p
      /\ pc[p] \in Issued => cert = p
      /\ pc[p] # "load" => local[p] \in Locals
  <2>1. pc[p] \in Holding /\ pc[p] # "idle" /\ UNCHANGED req
    BY <1>1, HolderHolds, AgentSteps DEF AgentMoves, panel
  <2>2. QED
    BY <2>1 DEF TypeInv, ReadyInv
<1>3. /\ pc \in [Rotations -> Steps] /\ env \in Env
      /\ local \in [Rotations -> Locals \cup {None}] /\ faults \in Nat
  BY FaultsAssumption DEF TypeInv, TypeOK
<1>4. gone = {} /\ p \notin gone
  BY <1>1, GoneGrows
<1>5. NoFault => ~Fault
  BY <1>3 DEF Fault, NoFault
<1>6. /\ Works(p) <=> NoFault
      /\ Breaks(p) <=> Fault
  BY <1>4 DEF Works, Breaks
<1>7. /\ Fault => faults' = faults + 1
      /\ NoFault => faults' = faults
  BY DEF Fault, NoFault
<1> USE <1>2, <1>3, <1>4, <1>5, <1>6, <1>7 DEF At, GoTo, Reply, Become, disk, running,
    Going, Undoing, Kept, Whole, Cloudflare, Hy2On, Named, Forward, Undo, Moved, Holding
<1>8. CASE Load(p)
  BY <1>8 DEF Load
<1>9. CASE IssueHy2Cert(p)
  BY <1>9 DEF IssueHy2Cert
<1>10. CASE UpsertVpn(p)
  <2>1. /\ UNCHANGED <<disk, running>>
        /\ local'[p].xray = local[p].xray /\ local'[p].cfd = local[p].cfd
        /\ local'[p].cert = local[p].cert /\ local'[p].cfdTouched = local[p].cfdTouched
    <3>1. local[p] \in Locals
      BY <1>10 DEF UpsertVpn
    <3>2. QED
      BY <1>10, <3>1 DEF UpsertVpn, Upsert, Locals
  <2>2. pc[p] \in {"upsert_vpn", "upsert_hy2"}
    BY <1>10 DEF UpsertVpn
  <2>3. (NoFault /\ pc'[p] = "upsert_hy2") \/ (Fault /\ pc'[p] = "fail_cert")
    BY <1>10 DEF UpsertVpn, Upsert
  <2>4. QED
    BY <2>1, <2>2, <2>3
<1>11. CASE UpsertHy2(p)
  <2>1. /\ UNCHANGED <<disk, running>>
        /\ local'[p].xray = local[p].xray /\ local'[p].cfd = local[p].cfd
        /\ local'[p].cert = local[p].cert /\ local'[p].cfdTouched = local[p].cfdTouched
    <3>1. local[p] \in Locals
      BY <1>11 DEF UpsertHy2
    <3>2. QED
      BY <1>11, <3>1 DEF UpsertHy2, Upsert, Locals
  <2>2. pc[p] \in {"upsert_vpn", "upsert_hy2"}
    BY <1>11 DEF UpsertHy2
  <2>3. (NoFault /\ pc'[p] = "write_xray") \/ (Fault /\ pc'[p] = "fail_cert")
    BY <1>11 DEF UpsertHy2, Upsert
  <2>4. QED
    BY <2>1, <2>2, <2>3
<1>12. CASE WriteXray(p)
  BY <1>12 DEF WriteXray, RenderedXray
<1>13. CASE RestartXray(p)
  BY <1>13 DEF RestartXray, AfterXray
<1>14. CASE WriteCfd(p)
  BY <1>14 DEF WriteCfd
<1>15. CASE RestartCfd(p)
  <2>1. /\ UNCHANGED <<disk, xrayRun, hyRun>> /\ pc[p] = "restart_cfd"
        /\ local'[p].xray = local[p].xray /\ local'[p].cfd = local[p].cfd
        /\ local'[p].cert = local[p].cert
    <3>1. local[p] \in Locals
      BY <1>15 DEF RestartCfd
    <3>2. QED
      BY <1>15, <3>1 DEF RestartCfd, Locals
  <2>2. \/ NoFault /\ pc'[p] = "rotate_hy2"
        \/ Fault /\ pc'[p] = "restore_cfd" /\ local'[p].cfdTouched
    <3>1. local[p] \in Locals
      BY <1>15 DEF RestartCfd
    <3>2. QED
      BY <1>15, <3>1 DEF RestartCfd, Locals
  <2>3. QED
    BY <2>1, <2>2
<1>16. CASE RestoreCfd(p)
  BY <1>16 DEF RestoreCfd
<1>17. CASE RestoreXray(p)
  BY <1>17 DEF RestoreXray
<1>18. CASE RestartOldXray(p)
  BY <1>18 DEF RestartOldXray
<1>19. CASE RestartOldCfd(p)
  BY <1>19 DEF RestartOldCfd
<1>20. CASE RestoreHy2Cert(p)
  BY <1>20 DEF RestoreHy2Cert
<1>21. CASE FailHy2(p)
  BY <1>21 DEF FailHy2, DeleteCreated, Delete
<1>22. CASE FailVpn(p)
  BY <1>22 DEF FailVpn, DeleteCreated, Delete
<1>23. CASE RotateHy2Config(p)
  BY <1>23 DEF RotateHy2Config
<1>24. CASE ReloadHy2(p)
  BY <1>24 DEF ReloadHy2
<1>25. CASE ReloadOldHy2(p)
  BY <1>25 DEF ReloadOldHy2
<1>26. CASE SavePartial(p)
  BY <1>26 DEF SavePartial
<1>27. CASE SaveEnv(p)
  BY <1>27 DEF SaveEnv
<1>28. CASE RegenerateSubscriptions(p)
  BY <1>28 DEF RegenerateSubscriptions
<1>29. CASE DeleteOldVpn(p)
  BY <1>29 DEF DeleteOldVpn, Delete
<1>30. CASE DeleteOldHy2(p)
  BY <1>30 DEF DeleteOldHy2, Delete, Switched, After, Issued
<1>31. QED
  BY <1>8, <1>9, <1>10, <1>11, <1>12, <1>13, <1>14, <1>15, <1>16, <1>17, <1>18, <1>19,
     <1>20, <1>21, <1>22, <1>23, <1>24, <1>25, <1>26, <1>27, <1>28, <1>29, <1>30 DEF HolderSteps

LEMMA StepTraceInv ==
    ASSUME TypeInv, SwitchedInv, TraceInv, NEW p \in Rotations, Step(p)
    PROVE  TraceInv'
<1>1. SUFFICES ASSUME gone' = {}, Hy2On'
               PROVE  /\ faults' = 0 /\ (\A q \in Rotations : pc'[q] \notin Holding) => Whole'
                      /\ \A q \in Rotations :
                          /\ faults' = 0 => Going(q)'
                          /\ faults' = 1 /\ pc'[q] \in Undo => Undoing(q)'
  BY DEF TraceInv
<1>2. gone = {} /\ Hy2On
  <2>1. env \in Env
    BY DEF TypeInv, TypeOK
  <2>2. env'.hy2On = env.hy2On
    BY <2>1 DEF Step, AcquireConfigLock, ErrLockBusy, Load, IssueHy2Cert, UpsertVpn, UpsertHy2,
       Upsert, WriteXray, RestartXray, WriteCfd, RestartCfd, RestoreCfd, RestoreXray,
       RestartOldXray, RestartOldCfd, RestoreHy2Cert, FailHy2, FailVpn, RotateHy2Config,
       ReloadHy2, ReloadOldHy2, SavePartial, SaveEnv, RegenerateSubscriptions, DeleteOldVpn,
       DeleteOldHy2, disk, Env
  <2>3. QED
    BY <1>1, <2>2, GoneGrows DEF Hy2On
<1>3. /\ faults = 0 /\ (\A q \in Rotations : pc[q] \notin Holding) => Whole
      /\ \A q \in Rotations :
          /\ faults = 0 => Going(q)
          /\ faults = 1 /\ pc[q] \in Undo => Undoing(q)
  BY <1>2 DEF TraceInv
<1>4. faults' = 0 => faults = 0
  BY NoFaultYet
<1>5. CASE HolderSteps(p)
  <2>1. /\ faults' = 0 => Going(p)' /\ (pc'[p] \notin Holding => Whole')
        /\ faults' = 1 /\ pc'[p] \in Undo => Undoing(p)'
    BY <1>1, <1>2, <1>3, <1>5, HolderTraces DEF SwitchedInv
  <2>2. \A q \in Rotations \ {p} : pc'[q] \notin Holding
    BY <1>5, OthersWait, HolderHolds DEF ErrLockBusy, At, Holding, Forward, Undo, Moved
  <2>3. \A q \in Rotations \ {p} : Going(q)' /\ pc'[q] \notin Undo
    BY <2>2 DEF Going, Holding, Forward, Undo, Moved
  <2>4. QED
    BY <2>1, <2>3
<1>6. CASE AcquireConfigLock(p)
  <2>1. /\ UNCHANGED <<disk, running, faults, local>> /\ pc'[p] = "load"
        /\ \A q \in Rotations : pc[q] \notin Holding
        /\ \A q \in Rotations \ {p} : pc'[q] = pc[q]
    BY <1>6, NoneAssumption DEF AcquireConfigLock, Become, TypeInv, TypeOK, LockInv
  <2>2. Whole' = Whole
    BY <2>1 DEF Whole, disk, running, Named, Cloudflare
  <2>3. faults' = 0 => Whole /\ Whole'
    BY <1>3, <2>1, <2>2
  <2>4. faults' = 0 => Going(p)'
    BY <2>1, <2>3 DEF Going, Whole, Forward, Undo, Cloudflare
  <2>5. \A q \in Rotations \ {p} : Going(q)' /\ pc'[q] \notin Undo
    BY <2>1 DEF Going, Holding, Forward, Undo, Moved
  <2>6. "load" \notin Undo
    BY DEF Undo
  <2>7. QED
    BY <2>1, <2>3, <2>4, <2>5, <2>6
<1>7. CASE ErrLockBusy(p)
  <2>1. /\ UNCHANGED <<disk, running, faults, local, req>>
        /\ pc'[p] = "error" /\ pc[p] = "waiting"
        /\ \A q \in Rotations \ {p} : pc'[q] = pc[q]
    BY <1>7 DEF ErrLockBusy, GoTo, Become, At, panel, TypeInv, TypeOK
  <2>2. \A q \in Rotations : pc'[q] \in Holding <=> pc[q] \in Holding
    BY <2>1, StepNames
  <2>3. /\ Whole' = Whole
        /\ \A q \in Rotations \ {p} : Going(q)' = Going(q) /\ Undoing(q)' = Undoing(q)
    BY <2>1 DEF Whole, Going, Undoing, Kept, disk, running, Named, Cloudflare
  <2>4. Going(p)' /\ pc'[p] \notin Undo
    BY <2>1 DEF Going, Forward, Undo
  <2>5. QED
    BY <1>3, <2>1, <2>2, <2>3, <2>4
<1>8. QED
  BY <1>5, <1>6, <1>7, StepCases

LEMMA NextTraceInv == TypeInv /\ SwitchedInv /\ TraceInv /\ [Next]_vars => TraceInv'
<1>1. SUFFICES ASSUME TypeInv, SwitchedInv, TraceInv, [Next]_vars PROVE TraceInv'
  OBVIOUS
<1>2. CASE UNCHANGED vars
  BY <1>1, <1>2 DEF vars, disk, running, panel, TraceInv, Going, Undoing, Kept, Whole, Named,
                    Cloudflare, Hy2On
<1>3. ASSUME NEW p \in Rotations, Step(p) PROVE TraceInv'
  BY <1>1, <1>3, StepTraceInv
<1>4. ASSUME NEW p \in Rotations, PanelStep(p) PROVE TraceInv'
  <2>1. SUFFICES ASSUME gone' = {}, Hy2On' PROVE TraceInv'
    BY DEF TraceInv
  <2>2. /\ UNCHANGED <<disk, running, local>> /\ gone = {} /\ Hy2On
        /\ faults' = faults \/ faults' = faults + 1
        /\ \A q \in Rotations :
            \/ pc'[q] = pc[q] /\ req'[q] = req[q]
            \/ pc'[q] = "waiting" /\ pc[q] = "idle"
    BY <1>1, <1>4, <2>1
       DEF PanelStep, NodeRotate, Persist, RotateFailed, Timeout, ConnectionLost, GoTo, Become,
           At, NoFault, Fault, disk, Hy2On, TypeInv, TypeOK
  <2>3. \A q \in Rotations : /\ pc'[q] \in Holding <=> pc[q] \in Holding
                             /\ pc'[q] \in Undo => pc[q] = pc'[q] /\ pc[q] \in Undo
                             /\ Going(q) => Going(q)'
                             /\ pc'[q] = pc[q] => (Undoing(q) => Undoing(q)')
    BY <2>2, StepNames
       DEF Going, Undoing, Kept, Whole, disk, running, Named, Cloudflare, Forward, Undo
  <2>4. Whole => Whole'
    BY <2>2 DEF Whole, disk, running, Named, Cloudflare
  <2>5. /\ faults = 0 /\ (\A q \in Rotations : pc[q] \notin Holding) => Whole
        /\ \A q \in Rotations :
            /\ faults = 0 => Going(q)
            /\ faults = 1 /\ pc[q] \in Undo => Undoing(q)
    BY <1>1, <2>2 DEF TraceInv
  <2>6. /\ faults \in Nat /\ (faults' = 0 => faults = 0)
        /\ faults' = 1 => faults = 0 \/ faults = 1
    BY <1>1, <2>2, FaultsAssumption DEF TypeInv, TypeOK
  <2>7. \A q \in Rotations : Going(q) => pc[q] \notin Undo
    BY DEF Going
  <2>8. QED
    BY <2>3, <2>4, <2>5, <2>6, <2>7 DEF TraceInv
<1>5. CASE AgentCrash \/ Reboot
  <2>1. \A q \in Rotations : pc'[q] \notin Holding
    BY <1>5, StepNames DEF AgentCrash, Reboot, Die, Live
  <2>2. faults' # 0
    BY <1>1, <1>5, FaultsAssumption DEF AgentCrash, Reboot, Die, Fault, TypeInv, TypeOK
  <2>3. QED
    BY <2>1, <2>2, StepNames DEF TraceInv
<1>6. QED
  BY <1>1, <1>2, <1>3, <1>4, <1>5 DEF Next, PanelStep

LEMMA InitTraceInv == Init => SwitchedInv /\ TraceInv
<1>1. SUFFICES ASSUME Init PROVE SwitchedInv /\ TraceInv
  OBVIOUS
<1>2. SwitchedInv
  BY <1>1 DEF Init, SwitchedInv, Switched, Moved, After, Recorded
<1>3. Hy2On => Whole
  BY <1>1 DEF Init, Whole, Named, Hy2On, Cloudflare
<1>4. \A p \in Rotations : pc[p] = "idle"
  BY <1>1 DEF Init
<1>5. \A p \in Rotations : Going(p) /\ pc[p] \notin Undo
  BY <1>4 DEF Going, Forward, Undo
<1>6. QED
  BY <1>2, <1>3, <1>5 DEF TraceInv

\* Wherever the one failure strikes that ends a rotation before the node has moved,
\* its rollback leaves every service, the certificate and the subscriptions on the
\* names in cfvpn.env (internal/commands/rotate.go: rotateRollback).
THEOREM RollbackIsClean == Spec => RollbackLeavesNoTrace
<1> DEFINE Clean(p) ==
      /\ xrayRun' = xray' /\ subs' = Named'
      /\ cert' = env'.hy2 /\ hyRun' = env'.hy2
      /\ Cloudflare =>
          /\ {xray', cfdRun'} = {env'.host}
          /\ cfd' = env'.host \/ (~local[p].cfdTouched /\ cfd' = req[p].new)
<1>1. TypeInv /\ SwitchedInv /\ TraceInv /\ [Next]_vars =>
        [\A p \in Rotations : (pc[p] \in Undo \cup {"issue"} /\ pc'[p] = "error"
                               /\ faults' <= 1 /\ gone' = {} /\ Hy2On) => Clean(p)]_vars
  <2>1. SUFFICES ASSUME TypeInv, SwitchedInv, TraceInv, Next, NEW p \in Rotations,
                        pc[p] \in Undo \cup {"issue"}, pc'[p] = "error",
                        faults' <= 1, gone' = {}, Hy2On
                 PROVE  Clean(p)
    OBVIOUS
  <2>2. pc[p] \in Holding
    BY <2>1, StepNames DEF Holding, Forward
  <2>3. \A q \in Rotations : ~PanelStep(q)
    BY <2>1, <2>2, StepNames
       DEF PanelStep, NodeRotate, Persist, RotateFailed, Timeout, ConnectionLost, GoTo, Become,
           TypeInv, TypeOK
  <2>4. ~AgentCrash /\ ~Reboot
    BY <2>1, <2>2, StepNames DEF AgentCrash, Reboot, Die
  <2>5. PICK q \in Rotations : Step(q)
    BY <2>1, <2>3, <2>4 DEF Next, PanelStep
  <2>6. q = p
    BY <2>1, <2>2, <2>5, AgentSteps, StepNames
  <2>7. /\ gone = {} /\ faults \in Nat /\ (faults' = faults \/ faults' = faults + 1)
        /\ NoFault => faults' = faults
    BY <2>1, <2>5, <2>6, GoneGrows, StepFaults, FaultsAssumption
       DEF TypeInv, TypeOK, Fault, NoFault
  <2>8. IssueHy2Cert(p) \/ FailVpn(p)
    <3>1. pc \in [Rotations -> Steps]
      BY <2>1 DEF TypeInv, TypeOK
    <3>2. QED
      BY <2>1, <2>5, <2>6, <3>1
         DEF Step, AcquireConfigLock, ErrLockBusy, Load, UpsertVpn, UpsertHy2, Upsert, WriteXray,
             RestartXray, AfterXray, WriteCfd, RestartCfd, RestoreCfd, RestoreXray,
             RestartOldXray, RestartOldCfd, RestoreHy2Cert, FailHy2, RotateHy2Config, ReloadHy2,
             ReloadOldHy2, SavePartial, SaveEnv, RegenerateSubscriptions, DeleteOldVpn,
             DeleteOldHy2, At, GoTo, Reply, Become, Undo
  <2>9. CASE IssueHy2Cert(p)
    <3>1. /\ UNCHANGED <<disk, running>> /\ Fault /\ pc[p] = "issue"
      BY <2>1, <2>7, <2>9
         DEF IssueHy2Cert, Breaks, GoTo, Become, At, disk, TypeInv, TypeOK
    <3>2. faults = 0
      BY <2>1, <2>7, <3>1 DEF Fault
    <3>3. Whole
      BY <2>1, <2>7, <3>1, <3>2 DEF TraceInv, Going
    <3>4. QED
      BY <3>1, <3>3 DEF Whole, disk, running, Named, Cloudflare
  <2>10. CASE FailVpn(p)
    <3>1. UNCHANGED <<disk, running>> /\ pc[p] = "fail_vpn" /\ pc[p] \in Undo
      BY <2>10 DEF FailVpn, At, Undo
    <3>2. faults # 0
      BY <2>1, <2>7, <3>1 DEF TraceInv, Going
    <3>3. faults = 1
      BY <2>1, <2>7, <3>2
    <3>4. Undoing(p)
      BY <2>1, <2>7, <3>1, <3>3 DEF TraceInv
    <3>5. QED
      BY <3>1, <3>4 DEF Undoing, Kept, disk, running, Named, Cloudflare
  <2>11. QED
    BY <2>8, <2>9, <2>10
<1>2. Spec => []IInv
  BY InitIInv, NextIInv, PTL DEF Spec
<1>3. IInv => TypeInv /\ NameInv
  BY DEF IInv
<1>4. Spec => []SwitchedInv
  BY <1>2, <1>3, InitTraceInv, NextSwitched, PTL DEF Spec
<1>5. Spec => []TraceInv
  BY <1>2, <1>3, <1>4, InitTraceInv, NextTraceInv, PTL DEF Spec
<1>6. QED
  BY <1>1, <1>2, <1>3, <1>4, <1>5, PTL DEF Spec, RollbackLeavesNoTrace

=============================================================================
