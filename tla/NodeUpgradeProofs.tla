------------------------- MODULE NodeUpgradeProofs -------------------------
(***************************************************************************)
(* Theorems about NodeUpgrade, for any number of upgrades and of requests  *)
(* of the agent, any number of backups kept and any number of failures.    *)
(***************************************************************************)
EXTENDS NodeUpgrade, SequenceTheorems, TLAPS

-----------------------------------------------------------------------------
(* Types.                                                                  *)

Ended == {"ok", "same", "error"}
Past == InCore \cup InRollback
Working == {"backfill", "backup", "in_place"} \cup Past

UpgradeLocal ==
    [env : [host : Hosts, hy2 : Hosts, mode : Modes], users : SUBSET Writers,
     created : SUBSET Records, mutated : BOOLEAN, todo : SUBSET Files]
Kept == {None} \cup Xray \cup UpgradeLocal

BackupSet == [by : Upgrades, files : Contents]

DataTypes ==
    /\ dir \in Contents
    /\ backups \in Seq(BackupSet)
    /\ subs \in [host : Hosts, mode : Modes]
    /\ xrayRun \in Xray \cup {Down}
    /\ dns \subseteq Records
    /\ faults \in 0..MaxFaults

\* What a process keeps at the steps that use it.
ProcTypes ==
    /\ pc \in [Procs -> Steps]
    /\ local \in [Procs -> Kept]
    /\ \A w \in Writers : pc[w] \in {"open", "wait"} \cup Ended \cup WriterSteps
    /\ \A u \in Upgrades : pc[u] \in {"open", "wait"} \cup Ended \cup UpgradeSteps
    /\ \A w \in Writers : pc[w] = "write" => local[w] \in Xray
    /\ \A u \in Upgrades : pc[u] \in Working => local[u] \in UpgradeLocal

LockTypes ==
    /\ lockFile \in Inodes \cup {None}
    /\ holder \in [Inodes -> Procs \cup {None}]
    /\ fd \in [Procs -> Inodes \cup {None}]

TypeInv == DataTypes /\ ProcTypes /\ LockTypes

\* p alone moves, and gives up the lock with its last step.
Moves(p) ==
    /\ pc[p] \in Holding
    /\ pc' \in [Procs -> Steps] /\ local' \in [Procs -> Kept]
    /\ \A q \in Procs \ {p} : pc'[q] = pc[q] /\ local'[q] = local[q]
    /\ p \in Writers => /\ pc'[p] \in Ended \cup WriterSteps
                        /\ pc'[p] = "write" => local'[p] \in Xray
    /\ p \in Upgrades => /\ pc'[p] \in Ended \cup UpgradeSteps
                         /\ pc'[p] \in Working => local'[p] \in UpgradeLocal
    /\ IF pc'[p] \in Holding THEN UNCHANGED <<holder, fd>> ELSE Unlock(p)
    /\ lockFile' = lockFile \/ lockFile' \in {None, p}

LEMMA StepSets ==
    /\ Holding = UpgradeSteps \cup WriterSteps
    /\ Holding \cap (Ended \cup {"open", "wait"}) = {} /\ UpgradeSteps \cap WriterSteps = {}
    /\ Working \subseteq UpgradeSteps /\ Steps = {"open", "wait"} \cup Ended \cup Holding
    /\ InCore \cap InRollback = {}
BY DEF Holding, UpgradeSteps, WriterSteps, Ended, Working, Past, InCore, InRollback, Steps

LEMMA EndMoves ==
    ASSUME TypeInv, NEW p \in Procs, pc[p] \in Holding, NEW result \in Ended, End(p, result)
    PROVE  Moves(p) /\ pc'[p] = result /\ local'[p] = None /\ lockFile' = lockFile
<1>1. pc' = [pc EXCEPT ![p] = result] /\ local' = [local EXCEPT ![p] = None]
      /\ Unlock(p) /\ lockFile' = lockFile
  BY DEF End, Become
<1>2. result \in Steps /\ result \notin Holding /\ result \notin Working /\ result # "write"
  BY DEF Steps, Ended, Holding, UpgradeSteps, WriterSteps, InCore, InRollback, Working, Past
<1>3. pc' \in [Procs -> Steps] /\ local' \in [Procs -> Kept]
  BY <1>1, <1>2 DEF TypeInv, ProcTypes, Kept
<1>4. pc'[p] = result /\ local'[p] = None
      /\ \A q \in Procs \ {p} : pc'[q] = pc[q] /\ local'[q] = local[q]
  BY <1>1 DEF TypeInv, ProcTypes
<1>5. QED
  BY <1>1, <1>2, <1>3, <1>4 DEF Moves

\* A step of an upgrade that keeps what it has.
LEMMA GoToMoves ==
    ASSUME TypeInv, NEW u \in Upgrades, pc[u] \in Holding, NEW step \in UpgradeSteps, GoTo(u, step),
           step \in Working => pc[u] \in Working
    PROVE  Moves(u) /\ pc'[u] = step /\ local' = local /\ lockFile' = lockFile
<1>1. pc' = [pc EXCEPT ![u] = step] /\ UNCHANGED <<local, lockFile, holder, fd>> /\ u \in Procs
  BY DEF GoTo, Become, locks, Procs
<1>2. step \in Steps /\ step \in Holding /\ u \notin Writers
  BY ProcsAssumption DEF Steps, Holding
<1>3. pc' \in [Procs -> Steps] /\ pc'[u] = step /\ \A q \in Procs \ {u} : pc'[q] = pc[q]
  BY <1>1, <1>2 DEF TypeInv, ProcTypes
<1>4. QED
  BY <1>1, <1>2, <1>3 DEF Moves, TypeInv, ProcTypes

\* A step of an upgrade that changes what it keeps.
LEMMA KeepMoves ==
    ASSUME TypeInv, NEW u \in Upgrades, pc[u] \in Holding, NEW step \in UpgradeSteps,
           Become(u, step), UNCHANGED <<holder, fd>>, lockFile' = lockFile \/ lockFile' \in {None, u},
           NEW kept \in UpgradeLocal, local' = [local EXCEPT ![u] = kept]
    PROVE  Moves(u) /\ pc'[u] = step /\ local'[u] = kept
<1>1. pc' = [pc EXCEPT ![u] = step] /\ u \in Procs
  BY DEF Become, Procs
<1>2. step \in Steps /\ step \in Holding /\ u \notin Writers
  BY ProcsAssumption DEF Steps, Holding
<1>3. pc' \in [Procs -> Steps] /\ pc'[u] = step /\ \A q \in Procs \ {u} : pc'[q] = pc[q]
  BY <1>1, <1>2 DEF TypeInv, ProcTypes
<1>4. local' \in [Procs -> Kept] /\ local'[u] = kept /\ \A q \in Procs \ {u} : local'[q] = local[q]
  BY <1>1 DEF TypeInv, ProcTypes, Kept
<1>5. QED
  BY <1>2, <1>3, <1>4 DEF Moves

\* A process that moves keeps the types if it writes values of theirs.
LEMMA MovesTypes ==
    ASSUME TypeInv, NEW p \in Procs, Moves(p), DataTypes'
    PROVE  TypeInv'
<1>1. LockTypes'
  <2>1. lockFile' \in Inodes \cup {None}
    BY DEF Moves, TypeInv, LockTypes, Inodes
  <2>2. holder' \in [Inodes -> Procs \cup {None}] /\ fd' \in [Procs -> Inodes \cup {None}]
    BY DEF Moves, Unlock, TypeInv, LockTypes
  <2>3. QED
    BY <2>1, <2>2 DEF LockTypes
<1>2. ProcTypes'
  <2>1. \A q \in Procs : q # p => pc'[q] = pc[q] /\ local'[q] = local[q]
    BY DEF Moves
  <2>2. Writers \subseteq Procs /\ Upgrades \subseteq Procs
    BY DEF Procs
  <2>3. QED
    BY <2>1, <2>2 DEF Moves, TypeInv, ProcTypes
<1>3. QED
  BY <1>1, <1>2 DEF TypeInv

\* What the other lemmas use of the types, for an upgrade at work.
LEMMA UpgradeTypes ==
    ASSUME TypeInv, NEW u \in Upgrades
    PROVE  /\ u \in Procs /\ u \notin Writers
           /\ dir \in Contents /\ backups \in Seq(BackupSet) /\ dns \subseteq Records
           /\ pc[u] \in Working => local[u] \in UpgradeLocal
BY ProcsAssumption DEF TypeInv, DataTypes, ProcTypes, Procs

LEMMA FileTypes ==
    ASSUME NEW d \in Contents
    PROVE  /\ d["env"] \in Env \cup {Missing} /\ d["cloudflared"] \in Modes \cup {Missing}
           /\ d["hysteria"] \in Hosts \cup {None, Missing} /\ d["xray"] \in Xray \cup {Missing}
           /\ \A x \in Env \cup {Missing} : [d EXCEPT !["env"] = x] \in Contents
           /\ \A x \in Modes \cup {Missing} : [d EXCEPT !["cloudflared"] = x] \in Contents
           /\ \A x \in Hosts \cup {None, Missing} : [d EXCEPT !["hysteria"] = x] \in Contents
           /\ \A x \in Xray \cup {Missing} : [d EXCEPT !["xray"] = x] \in Contents
           /\ \A fs \in SUBSET Files : Prefix(d, fs) \in Contents
           /\ \A e \in Contents : \A f \in Files : [d EXCEPT ![f] = e[f]] \in Contents
           /\ \A f \in Files : [d EXCEPT ![f] = Missing] \in Contents
<1>1. /\ d["env"] \in Env \cup {Missing} /\ d["cloudflared"] \in Modes \cup {Missing}
      /\ d["hysteria"] \in Hosts \cup {None, Missing} /\ d["xray"] \in Xray \cup {Missing}
  BY DEF Contents
<1>2. /\ \A x \in Env \cup {Missing} : [d EXCEPT !["env"] = x] \in Contents
      /\ \A x \in Modes \cup {Missing} : [d EXCEPT !["cloudflared"] = x] \in Contents
      /\ \A x \in Hosts \cup {None, Missing} : [d EXCEPT !["hysteria"] = x] \in Contents
      /\ \A x \in Xray \cup {Missing} : [d EXCEPT !["xray"] = x] \in Contents
  BY DEF Contents
<1>3. \A fs \in SUBSET Files : Prefix(d, fs) \in Contents
  BY DEF Contents, Prefix, Files
<1>4. \A e \in Contents : \A f \in Files : [d EXCEPT ![f] = e[f]] \in Contents
  BY DEF Contents, Files
<1>5. \A f \in Files : [d EXCEPT ![f] = Missing] \in Contents
  BY DEF Contents, Files
<1>6. QED
  BY <1>1, <1>2, <1>3, <1>4, <1>5

LEMMA FaultTypes ==
    ASSUME TypeInv, NoFault \/ Fault
    PROVE  faults' \in 0..MaxFaults
BY FaultsAssumption DEF TypeInv, DataTypes, NoFault, Fault

LEMMA BinariesMoves ==
    ASSUME TypeInv, NEW u \in Upgrades, EnsureRuntimeBinaries(u)
    PROVE  Moves(u) /\ DataTypes'
<1>1. pc[u] = "binaries" /\ pc[u] \in Holding /\ u \in Procs
  BY UpgradeTypes DEF EnsureRuntimeBinaries, At, Holding, UpgradeSteps
<1>2. Moves(u)
  <2>1. GoTo(u, "load") \/ End(u, "error")
    BY DEF EnsureRuntimeBinaries
  <2>2. "load" \in UpgradeSteps /\ "load" \notin Working /\ "error" \in Ended
    BY DEF UpgradeSteps, Working, Past, InCore, InRollback, Ended
  <2>3. QED
    BY <1>1, <2>1, <2>2, GoToMoves, EndMoves
<1>3. xrayRun' \in Xray \cup {Down}
  BY FileTypes DEF EnsureRuntimeBinaries, TypeInv, DataTypes
<1>4. faults' \in 0..MaxFaults
  BY FaultTypes DEF EnsureRuntimeBinaries
<1>5. QED
  BY <1>2, <1>3, <1>4 DEF EnsureRuntimeBinaries, TypeInv, DataTypes

LEMMA LoadMoves ==
    ASSUME TypeInv, NEW u \in Upgrades, LoadUpgradeEnv(u)
    PROVE  Moves(u) /\ DataTypes'
<1>1. pc[u] = "load" /\ pc[u] \in Holding /\ u \in Procs
      /\ UNCHANGED <<dir, backups, subs, xrayRun, dns, faults>>
  BY UpgradeTypes DEF LoadUpgradeEnv, At, Holding, UpgradeSteps, outside
<1>2. CASE End(u, "error")
  <2>1. "error" \in Ended
    BY DEF Ended
  <2>2. Moves(u)
    BY <1>1, <1>2, <2>1, EndMoves
  <2>3. QED
    BY <1>1, <2>2 DEF TypeInv, DataTypes
<1>3. CASE dir["env"] # Missing
  <2> DEFINE env == dir["env"]
             kept(mode) ==
                [env |-> [host |-> IF mode = "direct" THEN u ELSE env.host,
                          hy2 |-> IF env.hy2 = None THEN u ELSE env.hy2, mode |-> mode],
                 users |-> {}, created |-> {}, mutated |-> FALSE, todo |-> Files]
             step(mode) == IF env.hy2 = None THEN "backfill"
                           ELSE IF env.mode = mode THEN "in_place" ELSE "backup"
  <2>1. PICK mode \in Modes : /\ local' = [local EXCEPT ![u] = kept(mode)]
                              /\ Become(u, step(mode)) /\ UNCHANGED locks
    BY <1>3 DEF LoadUpgradeEnv
  <2>2. env \in Env
    BY <1>3, FileTypes DEF TypeInv, DataTypes
  <2>3. kept(mode) \in UpgradeLocal
    <3>1. (IF mode = "direct" THEN u ELSE env.host) \in Hosts
      BY <2>2 DEF Env, Hosts
    <3>2. (IF env.hy2 = None THEN u ELSE env.hy2) \in Hosts
      BY <2>2 DEF Env, Hosts
    <3>3. QED
      BY <3>1, <3>2 DEF UpgradeLocal
  <2>4. step(mode) \in UpgradeSteps
    BY DEF UpgradeSteps
  <2> HIDE DEF kept, step
  <2>5. Moves(u)
    BY <1>1, <2>1, <2>3, <2>4, KeepMoves DEF locks
  <2>6. QED
    BY <1>1, <2>5 DEF TypeInv, DataTypes
<1>4. QED
  BY <1>2, <1>3 DEF LoadUpgradeEnv

LEMMA BackfillMoves ==
    ASSUME TypeInv, NEW u \in Upgrades, BackfillHy2(u)
    PROVE  Moves(u) /\ DataTypes'
<1>1. pc[u] = "backfill" /\ pc[u] \in Holding /\ pc[u] \in Working /\ u \in Procs
  BY UpgradeTypes DEF BackfillHy2, At, Holding, UpgradeSteps, Working
<1>2. Moves(u)
  <2>1. GoTo(u, "backup") \/ End(u, "error")
    BY DEF BackfillHy2
  <2>2. "backup" \in UpgradeSteps /\ "error" \in Ended
    BY DEF UpgradeSteps, Ended
  <2>3. QED
    BY <1>1, <2>1, <2>2, GoToMoves, EndMoves
<1>3. dir' \in Contents
  <2>1. u \in Hosts
    BY DEF Hosts
  <2>2. QED
    BY <2>1, FileTypes DEF BackfillHy2, TypeInv, DataTypes
<1>4. faults' \in 0..MaxFaults
  BY FaultTypes DEF BackfillHy2
<1>5. QED
  BY <1>2, <1>3, <1>4 DEF BackfillHy2, TypeInv, DataTypes, outside

LEMMA InPlaceMoves ==
    ASSUME TypeInv, NEW u \in Upgrades, ReRenderInPlace(u)
    PROVE  Moves(u) /\ DataTypes'
<1> DEFINE xray == [mode |-> dir["env"].mode, users |-> dir["xray"].users]
           rendered == [dir EXCEPT !["xray"] = xray, !["cloudflared"] = dir["env"].mode]
<1>1. pc[u] = "in_place" /\ pc[u] \in Holding /\ u \in Procs /\ UNCHANGED <<backups, subs, dns>>
  BY UpgradeTypes DEF ReRenderInPlace, At, Holding, UpgradeSteps
<1>2. Moves(u)
  <2>1. End(u, "same") \/ End(u, "error")
    BY DEF ReRenderInPlace
  <2>2. "same" \in Ended /\ "error" \in Ended
    BY DEF Ended
  <2>3. QED
    BY <1>1, <2>1, <2>2, EndMoves
<1>3. dir' \in Contents /\ xrayRun' \in Xray \cup {Down}
  <2>1. CASE dir["xray"] # Missing /\ dir["env"] # Missing
    <3>1. xray \in Xray /\ dir["env"].mode \in Modes
      BY <2>1, FileTypes DEF TypeInv, DataTypes, Env, Xray
    <3>2. [dir EXCEPT !["xray"] = xray] \in Contents
      BY <3>1, FileTypes DEF TypeInv, DataTypes
    <3>3. rendered = [[dir EXCEPT !["xray"] = xray] EXCEPT !["cloudflared"] = dir["env"].mode]
      OBVIOUS
    <3>4. rendered \in Contents
      BY <3>1, <3>2, <3>3, FileTypes
    <3>5. dir' \in {dir, [dir EXCEPT !["xray"] = xray], rendered} /\ xrayRun' \in {xrayRun, xray, Down}
      BY DEF ReRenderInPlace
    <3>6. QED
      BY <3>1, <3>2, <3>4, <3>5 DEF TypeInv, DataTypes
  <2>2. CASE ~(dir["xray"] # Missing /\ dir["env"] # Missing)
    BY <2>2 DEF ReRenderInPlace, TypeInv, DataTypes
  <2>3. QED
    BY <2>1, <2>2
<1>4. faults' \in 0..MaxFaults
  BY FaultTypes DEF ReRenderInPlace
<1>5. QED
  BY <1>1, <1>2, <1>3, <1>4 DEF TypeInv, DataTypes

LEMMA PrunedTypes ==
    ASSUME NEW bs \in Seq(BackupSet)
    PROVE  /\ Pruned(bs) \in Seq(BackupSet)
           /\ Len(bs) <= KeepConfigBackups => Pruned(bs) = bs
           /\ Len(bs) > KeepConfigBackups => Len(Pruned(bs)) = KeepConfigBackups
<1>1. CASE Len(bs) <= KeepConfigBackups
  BY <1>1, KeepAssumption DEF Pruned
<1>2. CASE Len(bs) > KeepConfigBackups
  <2> DEFINE first == Len(bs) - KeepConfigBackups + 1
  <2>1. Len(bs) \in Nat /\ KeepConfigBackups \in Nat /\ first \in 1..(Len(bs) + 1)
    BY <1>2, KeepAssumption, LenProperties
  <2>2. SubSeq(bs, first, Len(bs)) \in Seq(BackupSet)
        /\ Len(SubSeq(bs, first, Len(bs))) = KeepConfigBackups
    BY <1>2, <2>1, SubSeqProperties
  <2>3. QED
    BY <1>2, <2>2, KeepAssumption DEF Pruned
<1>3. QED
  BY <1>1, <1>2, KeepAssumption, LenProperties

LEMMA CutShortTypes ==
    ASSUME TypeInv, NEW u \in Upgrades, NEW bs \in CutShort(u)
    PROVE  \E fs \in SUBSET Files : bs = Append(backups, Backup(u, Prefix(dir, fs)))
                                    /\ Backup(u, Prefix(dir, fs)) \in BackupSet
<1>1. PICK f \in Files : bs = Append(backups, Backup(u, Prefix(dir, Before(f))))
  BY DEF CutShort
<1>2. Before(f) \in SUBSET Files
  BY DEF Before, Files
<1>3. QED
  BY <1>1, <1>2, FileTypes DEF TypeInv, DataTypes, Backup, BackupSet

LEMMA BackupMoves ==
    ASSUME TypeInv, NEW u \in Upgrades, BackupConfig(u)
    PROVE  Moves(u) /\ DataTypes'
<1> DEFINE grown == Append(backups, Backup(u, dir))
<1>1. pc[u] = "backup" /\ pc[u] \in Holding /\ pc[u] \in Working /\ u \in Procs
      /\ UNCHANGED <<dir, subs, xrayRun, dns>>
  BY UpgradeTypes DEF BackupConfig, At, Holding, UpgradeSteps, Working, outside
<1>2. Moves(u)
  <2>1. GoTo(u, "prepare") \/ End(u, "error")
    BY DEF BackupConfig
  <2>2. "prepare" \in UpgradeSteps /\ "error" \in Ended
    BY DEF UpgradeSteps, InCore, Ended
  <2>3. QED
    BY <1>1, <2>1, <2>2, GoToMoves, EndMoves
<1>3. backups' \in Seq(BackupSet)
  <2>1. grown \in Seq(BackupSet)
    BY DEF TypeInv, DataTypes, Backup, BackupSet
  <2>2. \A bs \in CutShort(u) : bs \in Seq(BackupSet)
    BY CutShortTypes DEF TypeInv, DataTypes
  <2>3. backups' \in {backups, grown, Pruned(grown)} \cup CutShort(u)
    BY DEF BackupConfig
  <2>4. QED
    BY <2>1, <2>2, <2>3, PrunedTypes DEF TypeInv, DataTypes
<1>4. faults' \in 0..MaxFaults
  BY FaultTypes DEF BackupConfig
<1>5. QED
  BY <1>1, <1>2, <1>3, <1>4 DEF TypeInv, DataTypes

\* The steps of the core and of the rollback are all at work and holding the lock.
LEMMA PastSteps ==
    /\ Past \subseteq Working /\ Past \subseteq UpgradeSteps /\ Past \subseteq Holding
    /\ InCore \subseteq Past /\ InRollback \subseteq Past /\ "error" \in Ended /\ "ok" \in Ended
    /\ {"prepare", "write_xray", "write_cloudflared", "upsert_vpn", "upsert_hy2", "restart_xray",
        "save_env", "subscriptions", "finish"} = InCore
    /\ {"delete_created", "remove", "restore", "restart_mutated"} = InRollback
BY DEF Past, Working, UpgradeSteps, Holding, InCore, InRollback, Ended

\* A step of the core or of the rollback that keeps what it has, or gives up.
LEMMA PastMoves ==
    ASSUME TypeInv, NEW u \in Upgrades, pc[u] \in Past,
           (\E step \in Past : GoTo(u, step)) \/ (\E result \in Ended : End(u, result))
    PROVE  Moves(u)
BY PastSteps, UpgradeTypes, GoToMoves, EndMoves

LEMMA PrepareMoves ==
    ASSUME TypeInv, NEW u \in Upgrades, Prepare(u)
    PROVE  Moves(u) /\ DataTypes'
<1>1. pc[u] = "prepare" /\ pc[u] \in Past /\ UNCHANGED <<dir, backups, subs, xrayRun, dns>>
  BY PastSteps DEF Prepare, At, outside
<1>2. faults' \in 0..MaxFaults
  BY FaultTypes DEF Prepare
<1>3. Moves(u)
  <2>1. CASE GoTo(u, "delete_created")
    BY <1>1, <2>1, PastMoves, PastSteps
  <2>2. CASE /\ dir["xray"] # Missing
             /\ local' = [local EXCEPT ![u].users = dir["xray"].users]
             /\ Become(u, "write_xray") /\ UNCHANGED locks
    <3> DEFINE kept == [local[u] EXCEPT !.users = dir["xray"].users]
    <3>1. dir["xray"].users \in SUBSET Writers
      BY <2>2, FileTypes DEF TypeInv, DataTypes, Xray
    <3>2. local[u] \in UpgradeLocal
      BY <1>1, UpgradeTypes, PastSteps
    <3>3. kept \in UpgradeLocal
      BY <3>1, <3>2 DEF UpgradeLocal
    <3>4. local' = [local EXCEPT ![u] = kept]
      BY <2>2
    <3>5. "write_xray" \in UpgradeSteps /\ pc[u] \in Holding /\ UNCHANGED <<lockFile, holder, fd>>
      BY <1>1, <2>2, PastSteps DEF locks
    <3>6. QED
      BY <2>2, <3>3, <3>4, <3>5, KeepMoves
  <2>3. QED
    BY <2>1, <2>2 DEF Prepare
<1>4. QED
  BY <1>1, <1>2, <1>3 DEF TypeInv, DataTypes

LEMMA WriteXrayMoves ==
    ASSUME TypeInv, NEW u \in Upgrades, WriteXrayConfig(u)
    PROVE  Moves(u) /\ DataTypes'
<1>1. pc[u] = "write_xray" /\ pc[u] \in Past /\ UNCHANGED <<backups, subs, xrayRun, dns>>
  BY PastSteps DEF WriteXrayConfig, At, outside
<1>2. faults' \in 0..MaxFaults
  BY FaultTypes DEF WriteXrayConfig
<1>3. Moves(u)
  BY <1>1, PastMoves, PastSteps DEF WriteXrayConfig
<1>4. [mode |-> local[u].env.mode, users |-> local[u].users] \in Xray
  BY <1>1, UpgradeTypes, PastSteps DEF UpgradeLocal, Xray
<1>5. dir' \in Contents
  BY <1>4, FileTypes DEF WriteXrayConfig, TypeInv, DataTypes
<1>6. QED
  BY <1>1, <1>2, <1>3, <1>5 DEF TypeInv, DataTypes

LEMMA WriteCloudflaredMoves ==
    ASSUME TypeInv, NEW u \in Upgrades, WriteCloudflaredConfig(u)
    PROVE  Moves(u) /\ DataTypes'
<1>1. pc[u] = "write_cloudflared" /\ pc[u] \in Past /\ UNCHANGED <<backups, subs, xrayRun, dns>>
  BY PastSteps DEF WriteCloudflaredConfig, At, outside
<1>2. faults' \in 0..MaxFaults
  BY FaultTypes DEF WriteCloudflaredConfig
<1>3. Moves(u)
  BY <1>1, PastMoves, PastSteps DEF WriteCloudflaredConfig
<1>4. local[u].env.mode \in Modes
  BY <1>1, UpgradeTypes, PastSteps DEF UpgradeLocal
<1>5. dir' \in Contents
  BY <1>4, FileTypes DEF WriteCloudflaredConfig, TypeInv, DataTypes
<1>6. QED
  BY <1>1, <1>2, <1>3, <1>5 DEF TypeInv, DataTypes

LEMMA UpsertMoves ==
    ASSUME TypeInv, NEW u \in Upgrades, pc[u] \in Past, NEW rec \in Records, NEW next \in InCore,
           UpsertA(u, rec, next)
    PROVE  /\ Moves(u) /\ dns' \subseteq Records /\ faults' \in 0..MaxFaults
           /\ lockFile' = lockFile /\ UNCHANGED <<holder, fd>> /\ pc'[u] \in {next, "delete_created"}
           /\ local'[u].env = local[u].env /\ local'[u].created \subseteq local[u].created \cup {rec}
           /\ pc'[u] = next => rec \in dns'
           /\ dns \subseteq dns' /\ dns' \subseteq dns \cup {rec}
<1>1. local[u] \in UpgradeLocal /\ local \in [Procs -> Kept] /\ u \in Procs
      /\ pc \in [Procs -> Steps]
  BY UpgradeTypes, PastSteps DEF TypeInv, ProcTypes
<1>2. dns' \subseteq Records /\ dns \subseteq dns' /\ dns' \subseteq dns \cup {rec}
  BY DEF UpsertA, TypeInv, DataTypes
<1>3. faults' \in 0..MaxFaults
  BY FaultTypes DEF UpsertA
<1>4. CASE /\ dns' = dns \cup {rec}
           /\ local' = [local EXCEPT ![u].created = @ \cup {rec}]
           /\ Become(u, next) /\ UNCHANGED locks
  <2> DEFINE kept == [local[u] EXCEPT !.created = @ \cup {rec}]
  <2>1. kept \in UpgradeLocal
    BY <1>1 DEF UpgradeLocal
  <2>2. local' = [local EXCEPT ![u] = kept]
    BY <1>4
  <2>3. pc[u] \in Holding /\ next \in UpgradeSteps /\ UNCHANGED <<lockFile, holder, fd>>
    BY <1>4, PastSteps DEF locks
  <2>4. Moves(u) /\ pc'[u] = next /\ local'[u] = kept
    BY <1>4, <2>1, <2>2, <2>3, KeepMoves
  <2>5. kept.env = local[u].env /\ kept.created = local[u].created \cup {rec}
    BY <1>1 DEF UpgradeLocal
  <2>6. QED
    BY <1>2, <1>3, <1>4, <2>3, <2>4, <2>5
<1>5. CASE GoTo(u, "delete_created")
  <2>1. pc[u] \in Holding /\ "delete_created" \in UpgradeSteps /\ pc[u] \in Working
        /\ "delete_created" # next
    BY PastSteps, StepSets
  <2>2. Moves(u) /\ pc'[u] = "delete_created" /\ local' = local /\ UNCHANGED <<lockFile, holder, fd>>
    BY <1>5, <2>1, GoToMoves DEF GoTo, locks
  <2>3. QED
    BY <1>1, <1>2, <1>3, <1>5, <2>1, <2>2
<1>6. QED
  BY <1>4, <1>5 DEF UpsertA

LEMMA RecordTypes ==
    ASSUME NEW h \in Hosts
    PROVE  A(h) \in Records /\ Cname(h) \in Records /\ Hy2(h) \in Records
BY DEF A, Cname, Hy2, Records

LEMMA UpsertVpnMoves ==
    ASSUME TypeInv, NEW u \in Upgrades, UpsertVpnRecord(u)
    PROVE  Moves(u) /\ DataTypes'
<1>1. pc[u] = "upsert_vpn" /\ pc[u] \in Past /\ UNCHANGED <<dir, backups, subs, xrayRun>>
  BY PastSteps DEF UpsertVpnRecord, At
<1>2. local[u].env.host \in Hosts
  BY <1>1, UpgradeTypes, PastSteps DEF UpgradeLocal
<1>3. CASE UpsertA(u, A(local[u].env.host), "upsert_hy2")
  <2>1. Moves(u) /\ dns' \subseteq Records /\ faults' \in 0..MaxFaults
    BY <1>1, <1>2, <1>3, RecordTypes, UpsertMoves, PastSteps
  <2>2. QED
    BY <1>1, <2>1 DEF TypeInv, DataTypes
<1>4. CASE local[u].env.mode # "direct"
  <2>1. Moves(u)
    BY <1>1, <1>4, PastMoves, PastSteps DEF UpsertVpnRecord
  <2>2. faults' \in 0..MaxFaults
    BY <1>4, FaultTypes DEF UpsertVpnRecord
  <2>3. dns' \subseteq Records
    BY <1>2, <1>4, RecordTypes DEF UpsertVpnRecord, TypeInv, DataTypes
  <2>4. QED
    BY <1>1, <2>1, <2>2, <2>3 DEF TypeInv, DataTypes
<1>5. QED
  BY <1>3, <1>4 DEF UpsertVpnRecord

LEMMA UpsertHy2Moves ==
    ASSUME TypeInv, NEW u \in Upgrades, UpsertHy2Record(u)
    PROVE  Moves(u) /\ DataTypes'
<1>1. pc[u] = "upsert_hy2" /\ pc[u] \in Past /\ UNCHANGED <<dir, backups, subs, xrayRun>>
      /\ UpsertA(u, Hy2(local[u].env.hy2), "restart_xray")
  BY PastSteps DEF UpsertHy2Record, At
<1>2. local[u].env.hy2 \in Hosts
  BY <1>1, UpgradeTypes, PastSteps DEF UpgradeLocal
<1>3. Moves(u) /\ dns' \subseteq Records /\ faults' \in 0..MaxFaults
  BY <1>1, <1>2, RecordTypes, UpsertMoves, PastSteps
<1>4. QED
  BY <1>1, <1>3 DEF TypeInv, DataTypes

LEMMA RestartXrayMoves ==
    ASSUME TypeInv, NEW u \in Upgrades, RestartXray(u)
    PROVE  Moves(u) /\ DataTypes'
<1>1. pc[u] = "restart_xray" /\ pc[u] \in Past /\ UNCHANGED <<dir, backups, subs, dns>>
  BY PastSteps DEF RestartXray, At
<1>2. faults' \in 0..MaxFaults
  BY FaultTypes DEF RestartXray
<1>3. xrayRun' \in Xray \cup {Down}
  BY FileTypes DEF RestartXray, TypeInv, DataTypes
<1>4. CASE GoTo(u, "delete_created")
  BY <1>1, <1>2, <1>3, <1>4, PastMoves, PastSteps DEF TypeInv, DataTypes
<1>5. CASE local' = [local EXCEPT ![u].mutated = TRUE] /\ Become(u, "save_env") /\ UNCHANGED locks
  <2> DEFINE kept == [local[u] EXCEPT !.mutated = TRUE]
  <2>1. kept \in UpgradeLocal /\ local' = [local EXCEPT ![u] = kept]
    BY <1>1, <1>5, UpgradeTypes, PastSteps DEF UpgradeLocal
  <2>2. "save_env" \in UpgradeSteps /\ pc[u] \in Holding /\ UNCHANGED <<lockFile, holder, fd>>
    BY <1>1, <1>5, PastSteps DEF locks
  <2>3. Moves(u)
    BY <1>5, <2>1, <2>2, KeepMoves
  <2>4. QED
    BY <1>1, <1>2, <1>3, <2>3 DEF TypeInv, DataTypes
<1>6. QED
  BY <1>4, <1>5 DEF RestartXray

LEMMA SaveEnvMoves ==
    ASSUME TypeInv, NEW u \in Upgrades, SaveEnv(u)
    PROVE  Moves(u) /\ DataTypes'
<1>1. pc[u] = "save_env" /\ pc[u] \in Past /\ UNCHANGED <<backups, subs, xrayRun, dns>>
  BY PastSteps DEF SaveEnv, At, outside
<1>2. faults' \in 0..MaxFaults
  BY FaultTypes DEF SaveEnv
<1>3. Moves(u)
  BY <1>1, PastMoves, PastSteps DEF SaveEnv
<1>4. local[u].env \in Env
  BY <1>1, UpgradeTypes, PastSteps DEF UpgradeLocal, Env
<1>5. dir' \in Contents
  BY <1>4, FileTypes DEF SaveEnv, TypeInv, DataTypes
<1>6. QED
  BY <1>1, <1>2, <1>3, <1>5 DEF TypeInv, DataTypes

LEMMA SubscriptionsMoves ==
    ASSUME TypeInv, NEW u \in Upgrades, RegenerateSubscriptions(u)
    PROVE  Moves(u) /\ DataTypes'
<1>1. pc[u] = "subscriptions" /\ pc[u] \in Past /\ UNCHANGED <<dir, backups, xrayRun, dns>>
  BY PastSteps DEF RegenerateSubscriptions, At
<1>2. faults' \in 0..MaxFaults
  BY FaultTypes DEF RegenerateSubscriptions
<1>3. Moves(u)
  BY <1>1, PastMoves, PastSteps DEF RegenerateSubscriptions
<1>4. local[u].env.host \in Hosts /\ local[u].env.mode \in Modes
  BY <1>1, UpgradeTypes, PastSteps DEF UpgradeLocal
<1>5. subs' \in [host : Hosts, mode : Modes]
  BY <1>4 DEF RegenerateSubscriptions, TypeInv, DataTypes
<1>6. QED
  BY <1>1, <1>2, <1>3, <1>5 DEF TypeInv, DataTypes

LEMMA FinishMoves ==
    ASSUME TypeInv, NEW u \in Upgrades, Finish(u)
    PROVE  Moves(u) /\ DataTypes'
<1>1. pc[u] = "finish" /\ pc[u] \in Past /\ UNCHANGED <<dir, backups, subs, xrayRun, dns>>
  BY PastSteps DEF Finish, At, outside
<1>2. faults' \in 0..MaxFaults
  BY FaultTypes DEF Finish
<1>3. Moves(u)
  BY <1>1, PastMoves, PastSteps DEF Finish
<1>4. QED
  BY <1>1, <1>2, <1>3 DEF TypeInv, DataTypes

LEMMA DeleteCreatedMoves ==
    ASSUME TypeInv, NEW u \in Upgrades, DeleteCreated(u)
    PROVE  Moves(u) /\ DataTypes'
<1>1. pc[u] = "delete_created" /\ pc[u] \in Past /\ UNCHANGED <<dir, backups, subs, xrayRun>>
  BY PastSteps DEF DeleteCreated, At
<1>2. faults' \in 0..MaxFaults
  BY FaultTypes DEF DeleteCreated
<1>3. Moves(u)
  BY <1>1, PastMoves, PastSteps DEF DeleteCreated
<1>4. dns' \subseteq Records
  BY DEF DeleteCreated, TypeInv, DataTypes
<1>5. QED
  BY <1>1, <1>2, <1>3, <1>4 DEF TypeInv, DataTypes

LEMMA CutOffTypes ==
    ASSUME TypeInv, NEW gone \in SUBSET Files, CutOff(gone)
    PROVE  /\ dir' \in Contents /\ lockFile' \in {lockFile, None}
           /\ \A f \in Files : dir'[f] \in {dir[f], Missing}
<1>1. dir' = Prefix(dir, Files \ gone)
  BY DEF CutOff, Prefix
<1>2. dir' \in Contents
  BY <1>1, FileTypes DEF TypeInv, DataTypes
<1>3. QED
  BY <1>2 DEF CutOff

LEMMA RemoveMoves ==
    ASSUME TypeInv, NEW u \in Upgrades, RemoveConfigDir(u)
    PROVE  Moves(u) /\ DataTypes'
<1>1. pc[u] = "remove" /\ pc[u] \in Past /\ UNCHANGED <<backups, subs, xrayRun, dns>> /\ u \in Procs
  BY PastSteps, UpgradeTypes DEF RemoveConfigDir, At, outside
<1>2. faults' \in 0..MaxFaults
  BY FaultTypes DEF RemoveConfigDir
<1>3. PICK gone \in SUBSET Files : CutOff(gone)
  BY DEF RemoveConfigDir
<1>4. dir' \in Contents /\ lockFile' \in {lockFile, None}
  BY <1>3, CutOffTypes
<1>5. CASE Become(u, "restore") /\ UNCHANGED <<holder, fd, local>>
  <2>1. local[u] \in UpgradeLocal /\ local' = [local EXCEPT ![u] = local[u]]
    BY <1>1, <1>5, UpgradeTypes, PastSteps DEF TypeInv, ProcTypes
  <2>2. pc[u] \in Holding /\ "restore" \in UpgradeSteps
    BY <1>1, PastSteps
  <2>3. Moves(u)
    BY <1>4, <1>5, <2>1, <2>2, KeepMoves
  <2>4. QED
    BY <1>1, <1>2, <1>4, <2>3 DEF TypeInv, DataTypes
<1>6. CASE Become(u, "error") /\ local' = [local EXCEPT ![u] = None] /\ Unlock(u)
  <2>1. "error" \in Steps /\ "error" \notin Holding /\ "error" \notin Working /\ pc[u] \in Holding
    BY <1>1, StepSets, PastSteps
  <2>2. pc' \in [Procs -> Steps] /\ pc'[u] = "error" /\ \A q \in Procs \ {u} : pc'[q] = pc[q]
    BY <1>1, <1>6, <2>1 DEF Become, TypeInv, ProcTypes
  <2>3. local' \in [Procs -> Kept] /\ \A q \in Procs \ {u} : local'[q] = local[q]
    BY <1>6 DEF TypeInv, ProcTypes, Kept
  <2>4. Moves(u)
    BY <1>4, <1>6, <2>1, <2>2, <2>3, UpgradeTypes, PastSteps DEF Moves
  <2>5. QED
    BY <1>1, <1>2, <1>4, <2>4 DEF TypeInv, DataTypes
<1>7. QED
  BY <1>5, <1>6 DEF RemoveConfigDir

LEMMA BackupsOfTypes ==
    ASSUME TypeInv, NEW u \in Upgrades
    PROVE  /\ BackupsOf(u) \subseteq Contents
           /\ \A d \in BackupsOf(u) : \E i \in 1..Len(backups) :
                backups[i].by = u /\ backups[i].files = d
<1>1. \A i \in 1..Len(backups) : backups[i] \in BackupSet
  BY ElementOfSeq DEF TypeInv, DataTypes
<1>2. QED
  BY <1>1 DEF BackupsOf, BackupSet

LEMMA RestoreFileMoves ==
    ASSUME TypeInv, NEW u \in Upgrades, NEW f \in Files, RestoreFile(u, f)
    PROVE  Moves(u) /\ DataTypes'
<1>1. pc[u] = "restore" /\ pc[u] \in Past /\ UNCHANGED <<backups, subs, xrayRun, dns>> /\ u \in Procs
  BY PastSteps, UpgradeTypes DEF RestoreFile, At, outside
<1>2. faults' \in 0..MaxFaults
  BY FaultTypes DEF RestoreFile
<1>3. CASE /\ \E d \in BackupsOf(u) : dir' = IF d[f] = Missing THEN dir ELSE [dir EXCEPT ![f] = d[f]]
           /\ lockFile' = IF f = "xray" /\ lockFile = None THEN u ELSE lockFile
           /\ local' = [local EXCEPT ![u].todo = @ \ {f}]
           /\ UNCHANGED <<holder, fd, pc>>
  <2>1. dir' \in Contents
    BY <1>3, FileTypes, BackupsOfTypes DEF TypeInv, DataTypes
  <2> DEFINE kept == [local[u] EXCEPT !.todo = @ \ {f}]
  <2>2. kept \in UpgradeLocal /\ local' = [local EXCEPT ![u] = kept]
    BY <1>1, <1>3, UpgradeTypes, PastSteps DEF UpgradeLocal
  <2>3. Become(u, "restore") /\ "restore" \in UpgradeSteps /\ pc[u] \in Holding
    BY <1>1, <1>3, PastSteps DEF Become, TypeInv, ProcTypes
  <2>4. Moves(u)
    BY <1>3, <2>2, <2>3, KeepMoves
  <2>5. QED
    BY <1>1, <1>2, <2>1, <2>4 DEF TypeInv, DataTypes
<1>4. CASE dir' = [dir EXCEPT ![f] = Missing] /\ End(u, "error")
  <2>1. dir' \in Contents
    BY <1>4, FileTypes DEF TypeInv, DataTypes
  <2>2. Moves(u)
    BY <1>1, <1>4, PastMoves, PastSteps
  <2>3. QED
    BY <1>1, <1>2, <2>1, <2>2 DEF TypeInv, DataTypes
<1>5. QED
  BY <1>3, <1>4 DEF RestoreFile

LEMMA RestartMutatedMoves ==
    ASSUME TypeInv, NEW u \in Upgrades, RestartMutated(u)
    PROVE  Moves(u) /\ DataTypes'
<1>1. pc[u] = "restore" /\ pc[u] \in Past /\ UNCHANGED <<dir, backups, subs, dns>>
  BY PastSteps DEF RestartMutated, At
<1>2. faults' \in 0..MaxFaults
  BY FaultTypes DEF RestartMutated
<1>3. Moves(u)
  BY <1>1, PastMoves, PastSteps DEF RestartMutated
<1>4. xrayRun' \in Xray \cup {Down}
  BY FileTypes DEF RestartMutated, TypeInv, DataTypes
<1>5. QED
  BY <1>1, <1>2, <1>3, <1>4 DEF TypeInv, DataTypes

LEMMA UpgradeMoves ==
    ASSUME TypeInv, NEW u \in Upgrades, Upgrade(u)
    PROVE  Moves(u) /\ DataTypes'
BY BinariesMoves, LoadMoves, BackfillMoves, InPlaceMoves, BackupMoves, PrepareMoves,
   WriteXrayMoves, WriteCloudflaredMoves, UpsertVpnMoves, UpsertHy2Moves, RestartXrayMoves,
   SaveEnvMoves, SubscriptionsMoves, FinishMoves, DeleteCreatedMoves, RemoveMoves,
   RestoreFileMoves, RestartMutatedMoves
   DEF Upgrade

LEMMA WriterTypes ==
    ASSUME TypeInv, NEW w \in Writers
    PROVE  w \in Procs /\ w \notin Upgrades /\ dir \in Contents
BY ProcsAssumption DEF TypeInv, DataTypes, Procs

LEMMA ReadMoves ==
    ASSUME TypeInv, NEW w \in Writers, Read(w)
    PROVE  Moves(w) /\ DataTypes'
<1>1. pc[w] = "read" /\ pc[w] \in Holding /\ UNCHANGED <<dir, backups, subs, xrayRun, dns, faults>>
  BY DEF Read, At, Holding, WriterSteps, outside
<1>2. CASE End(w, "error")
  <2>1. Moves(w)
    BY <1>1, <1>2, WriterTypes, EndMoves, PastSteps
  <2>2. QED
    BY <1>1, <2>1 DEF TypeInv, DataTypes
<1>3. CASE dir["xray"] # Missing
  <2> DEFINE kept == [dir["xray"] EXCEPT !.users = @ \cup {w}]
  <2>1. local' = [local EXCEPT ![w] = kept] /\ pc' = [pc EXCEPT ![w] = "write"]
        /\ UNCHANGED <<lockFile, holder, fd>>
    BY <1>3 DEF Read, Become, locks
  <2>2. kept \in Xray
    BY <1>3, FileTypes, WriterTypes DEF Xray
  <2>3. "write" \in Steps /\ "write" \in Holding /\ "write" \in WriterSteps
    BY DEF Steps, Holding, WriterSteps
  <2>4. pc' \in [Procs -> Steps] /\ pc'[w] = "write" /\ \A q \in Procs \ {w} : pc'[q] = pc[q]
    BY <2>1, <2>3, WriterTypes DEF TypeInv, ProcTypes
  <2>5. local' \in [Procs -> Kept] /\ local'[w] = kept /\ \A q \in Procs \ {w} : local'[q] = local[q]
    BY <2>1, <2>2, WriterTypes DEF TypeInv, ProcTypes, Kept
  <2>6. Moves(w)
    BY <1>1, <2>1, <2>2, <2>3, <2>4, <2>5, WriterTypes DEF Moves
  <2>7. QED
    BY <1>1, <2>6 DEF TypeInv, DataTypes
<1>4. QED
  BY <1>2, <1>3 DEF Read

LEMMA WriteMoves ==
    ASSUME TypeInv, NEW w \in Writers, Write(w)
    PROVE  Moves(w) /\ DataTypes'
<1>1. pc[w] = "write" /\ pc[w] \in Holding /\ UNCHANGED <<backups, subs, dns>> /\ local[w] \in Xray
  BY DEF Write, At, Holding, WriterSteps, TypeInv, ProcTypes
<1>2. Moves(w)
  BY <1>1, WriterTypes, EndMoves, PastSteps DEF Write
<1>3. dir' \in Contents /\ xrayRun' \in Xray \cup {Down}
  BY <1>1, FileTypes DEF Write, TypeInv, DataTypes
<1>4. faults' \in 0..MaxFaults
  BY FaultTypes DEF Write
<1>5. QED
  BY <1>1, <1>2, <1>3, <1>4 DEF TypeInv, DataTypes

LEMMA KillMoves ==
    ASSUME TypeInv, NEW p \in Procs, Kill(p)
    PROVE  Moves(p) /\ DataTypes' /\ pc'[p] = "error"
<1>1. pc[p] \in Holding /\ UNCHANGED <<subs, xrayRun, dns>>
  BY DEF Kill, outside
<1>2. pc' = [pc EXCEPT ![p] = "error"] /\ local' = [local EXCEPT ![p] = None] /\ Unlock(p)
  BY DEF Kill, Become
<1>3. dir' \in Contents /\ (lockFile' = lockFile \/ lockFile' \in {None, p})
  BY CutOffTypes DEF Kill, TypeInv, DataTypes
<1>4. Moves(p) /\ pc'[p] = "error"
  <2>1. "error" \in Steps /\ "error" \notin Holding /\ "error" \notin Working /\ "error" \in Ended
        /\ "error" # "write"
    BY StepSets, PastSteps
  <2>2. pc' \in [Procs -> Steps] /\ pc'[p] = "error" /\ \A q \in Procs \ {p} : pc'[q] = pc[q]
    BY <1>2, <2>1 DEF TypeInv, ProcTypes
  <2>3. local' \in [Procs -> Kept] /\ \A q \in Procs \ {p} : local'[q] = local[q]
    BY <1>2 DEF TypeInv, ProcTypes, Kept
  <2>4. QED
    BY <1>1, <1>2, <1>3, <2>1, <2>2, <2>3 DEF Moves
<1>5. backups' \in Seq(BackupSet)
  <2>1. CASE backups' = backups
    BY <2>1 DEF TypeInv, DataTypes
  <2>2. CASE At(p, "backup") /\ backups' \in CutShort(p)
    <3>1. p \in Upgrades
      BY <2>2 DEF At, TypeInv, ProcTypes, Ended, WriterSteps, Procs
    <3>2. QED
      BY <2>2, <3>1, CutShortTypes DEF TypeInv, DataTypes
  <2>3. QED
    BY <2>1, <2>2 DEF Kill
<1>6. faults' \in 0..MaxFaults
  BY FaultTypes DEF Kill
<1>7. QED
  BY <1>1, <1>3, <1>4, <1>5, <1>6 DEF TypeInv, DataTypes

\* A process on its way to the lock changes nothing but the lock.
Approaches(p) == OpenLock(p) \/ AcquireConfigLock(p) \/ ErrLockBusy(p)

LEMMA NextCases ==
    ASSUME [Next]_vars
    PROVE  \/ \E p \in Procs : Approaches(p) \/ Kill(p)
           \/ \E u \in Upgrades : Upgrade(u)
           \/ \E w \in Writers : Read(w) \/ Write(w)
           \/ UNCHANGED vars
BY DEF Next, Approaches

LEMMA ApproachTypes ==
    ASSUME TypeInv, NEW p \in Procs, Approaches(p)
    PROVE  TypeInv' /\ UNCHANGED <<dir, backups, subs, xrayRun, dns, faults>>
           /\ pc[p] \notin Holding /\ \A q \in Procs \ {p} : pc'[q] = pc[q] /\ local'[q] = local[q]
<1> USE DEF Approaches
<1>1. UNCHANGED <<dir, backups, subs, xrayRun, dns, faults>>
  BY DEF OpenLock, AcquireConfigLock, ErrLockBusy, outside
<1>2. pc[p] \in {"open", "wait"} /\ pc[p] \notin Holding
  BY StepSets DEF OpenLock, AcquireConfigLock, ErrLockBusy, At
<1>3. \E s \in {"wait", "binaries", "read", "error"} :
        /\ pc' = [pc EXCEPT ![p] = s]
        /\ s = "read" => p \notin Upgrades
        /\ s = "binaries" => p \in Upgrades
  BY DEF OpenLock, AcquireConfigLock, ErrLockBusy, Become
<1>4. local' \in [Procs -> Kept] /\ \A q \in Procs \ {p} : local'[q] = local[q]
  BY DEF OpenLock, AcquireConfigLock, ErrLockBusy, TypeInv, ProcTypes, Kept
<1>5. "wait" \in Steps /\ "error" \in Steps /\ "binaries" \in UpgradeSteps /\ "read" \in WriterSteps
      /\ "binaries" \in Steps /\ "read" \in Steps /\ "error" \in Ended
      /\ Working \cap {"wait", "binaries", "read", "error"} = {}
  BY StepSets DEF Steps, UpgradeSteps, WriterSteps, Ended, Holding, Working, Past, InCore, InRollback
<1>6. pc' \in [Procs -> Steps] /\ pc'[p] \in {"wait", "binaries", "read", "error"}
      /\ \A q \in Procs \ {p} : pc'[q] = pc[q]
  BY <1>3, <1>5 DEF TypeInv, ProcTypes
<1>7. /\ \A w \in Writers : pc'[w] \in {"open", "wait"} \cup Ended \cup WriterSteps
      /\ \A u \in Upgrades : pc'[u] \in {"open", "wait"} \cup Ended \cup UpgradeSteps
  BY <1>3, <1>5, ProcsAssumption DEF TypeInv, ProcTypes, Procs
<1>8. /\ \A w \in Writers : pc'[w] = "write" => local'[w] \in Xray
      /\ \A u \in Upgrades : pc'[u] \in Working => local'[u] \in UpgradeLocal
  BY <1>4, <1>5, <1>6 DEF TypeInv, ProcTypes, Procs
<1>9. LockTypes'
  <2>1. lockFile' \in Inodes \cup {None} /\ (lockFile' = lockFile \/ lockFile' = p)
    BY DEF OpenLock, AcquireConfigLock, ErrLockBusy, TypeInv, LockTypes, Inodes
  <2>2. holder' \in [Inodes -> Procs \cup {None}]
    BY DEF OpenLock, AcquireConfigLock, ErrLockBusy, TypeInv, LockTypes
  <2>3. fd' \in [Procs -> Inodes \cup {None}]
    BY <2>1 DEF OpenLock, AcquireConfigLock, ErrLockBusy, TypeInv, LockTypes
  <2>4. QED
    BY <2>1, <2>2, <2>3 DEF LockTypes
<1>10. ProcTypes'
  BY <1>4, <1>6, <1>7, <1>8 DEF ProcTypes
<1>11. DataTypes'
  BY <1>1 DEF TypeInv, DataTypes
<1>12. QED
  BY <1>1, <1>2, <1>4, <1>6, <1>9, <1>10, <1>11 DEF TypeInv

LEMMA InitTypes == Init => TypeInv
<1>1. SUFFICES ASSUME Init PROVE TypeInv
  OBVIOUS
<1>2. PICK env \in [host : {Old}, hy2 : {Old, None}, mode : Modes] :
        /\ dir = [f \in Files |->
                    CASE f = "env" -> env
                      [] f = "cloudflared" -> env.mode
                      [] f = "hysteria" -> env.hy2
                      [] f = "xray" -> [mode |-> env.mode, users |-> {}]]
        /\ subs = [host |-> Old, mode |-> env.mode]
        /\ dns \in IF env.mode = "direct" THEN {{A(Old), Hy2(Old)}, {Hy2(Old)}}
                                          ELSE {{Cname(Old), Hy2(Old)}}
  BY <1>1 DEF Init
<1>3. env \in Env /\ env.mode \in Modes /\ env.hy2 \in {Old, None} /\ Old \in Hosts
  BY DEF Env, Hosts
<1>4. dir \in Contents /\ dir["xray"] \in Xray
  <2>1. [mode |-> env.mode, users |-> {}] \in Xray
    BY <1>3 DEF Xray
  <2>2. dir["xray"] = [mode |-> env.mode, users |-> {}]
    BY <1>2 DEF Files
  <2>3. dir \in Contents
    BY <1>2, <1>3, <2>1 DEF Contents, Files
  <2>4. QED
    BY <2>1, <2>2, <2>3
<1>5. subs \in [host : Hosts, mode : Modes] /\ dns \subseteq Records
  <2>1. subs \in [host : Hosts, mode : Modes]
    BY <1>2, <1>3
  <2>2. dns \in {{A(Old), Hy2(Old)}, {Hy2(Old)}, {Cname(Old), Hy2(Old)}}
    BY <1>2
  <2>3. A(Old) \in Records /\ Cname(Old) \in Records /\ Hy2(Old) \in Records
    BY <1>3, RecordTypes
  <2>4. QED
    BY <2>1, <2>2, <2>3
<1>6. DataTypes
  <2>1. backups \in Seq(BackupSet)
    BY <1>1, EmptySeq DEF Init
  <2>2. xrayRun \in Xray \cup {Down}
    <3>1. xrayRun = dir["xray"]
      BY <1>1 DEF Init
    <3>2. QED
      BY <1>4, <3>1
  <2>3. faults \in 0..MaxFaults
    BY <1>1, FaultsAssumption DEF Init
  <2>4. QED
    BY <1>4, <1>5, <2>1, <2>2, <2>3 DEF DataTypes
<1>7. ProcTypes
  BY <1>1, StepSets DEF Init, ProcTypes, Kept, WriterSteps, Procs
<1>8. LockTypes
  BY <1>1 DEF Init, LockTypes, Inodes
<1>9. QED
  BY <1>6, <1>7, <1>8 DEF TypeInv

LEMMA TypeStep == TypeInv /\ [Next]_vars => TypeInv'
<1>1. SUFFICES ASSUME TypeInv, [Next]_vars PROVE TypeInv'
  OBVIOUS
<1>2. Upgrades \subseteq Procs /\ Writers \subseteq Procs
  BY DEF Procs
<1>3. ASSUME NEW p \in Procs, Approaches(p) \/ Kill(p) PROVE TypeInv'
  BY <1>1, <1>3, ApproachTypes, KillMoves, MovesTypes
<1>4. ASSUME NEW u \in Upgrades, Upgrade(u) PROVE TypeInv'
  BY <1>1, <1>2, <1>4, UpgradeMoves, MovesTypes
<1>5. ASSUME NEW w \in Writers, Read(w) \/ Write(w) PROVE TypeInv'
  BY <1>1, <1>2, <1>5, ReadMoves, WriteMoves, MovesTypes
<1>6. CASE UNCHANGED vars
  BY <1>1, <1>6 DEF vars, TypeInv, DataTypes, ProcTypes, LockTypes
<1>7. QED
  BY <1>1, <1>3, <1>4, <1>5, <1>6, NextCases

\* The files, the backups, the records, the lock and every process keep their
\* types, whatever fails, for any number of processes.
THEOREM UpgradeTypeOK == Spec => []TypeOK
<1>1. TypeInv => TypeOK
  BY DEF TypeInv, DataTypes, ProcTypes, LockTypes, TypeOK, BackupSet
<1>2. QED
  BY <1>1, InitTypes, TypeStep, PTL DEF Spec

-----------------------------------------------------------------------------
(* The lock, as long as its file is the one from before.                   *)

\* Who holds the lock has the flock of the file it opened.  A rollback restores
\* only after it has removed the lock file.
LockInv ==
    /\ \A p \in Procs : pc[p] \in Holding => fd[p] \in Inodes /\ holder[fd[p]] = p
    /\ \A p \in Procs : pc[p] = "wait" => fd[p] \in Inodes
    /\ lockFile = Old => \A p \in Procs : fd[p] \in {None, Old}
    /\ lockFile = Old => \A u \in Upgrades : pc[u] # "restore"

LEMMA OneHolder ==
    ASSUME LockInv, lockFile = Old, NEW p \in Procs, NEW q \in Procs,
           pc[p] \in Holding, pc[q] \in Holding
    PROVE  p = q
BY MarksAssumption DEF LockInv

\* Users the agent has confirmed.
Confirmed == {w \in Writers : pc[w] = "ok"}

\* What is on disk, and what the holder of the lock is about to write, has them.
UsersInv ==
    lockFile = Old =>
        /\ UsersKept
        /\ \A w \in Writers : pc[w] = "write" => Confirmed \cup {w} \subseteq local[w].users
        /\ \A u \in Upgrades : pc[u] = "write_xray" => Confirmed \subseteq local[u].users

-----------------------------------------------------------------------------
(* The backups.                                                            *)

\* A whole backup is there, or as many backups as are kept.
BackedUp ==
    \/ \E i \in 1..Len(backups) : Whole(backups[i].files)
    \/ Len(backups) >= KeepConfigBackups

BackupInv ==
    /\ Whole(dir) \/ BackedUp
    /\ \A u \in Upgrades : pc[u] \in Past => BackedUp

-----------------------------------------------------------------------------
(* The lock invariant is inductive.                                        *)

LEMMA MovesLock ==
    ASSUME TypeInv, LockInv, NEW p \in Procs, Moves(p),
           p \in Upgrades /\ pc'[p] = "restore" => lockFile' # Old
    PROVE  LockInv'
<1>1. lockFile' = Old => lockFile = Old
  BY ProcsAssumption, MarksAssumption DEF Moves, Inodes
<1>2. pc[p] \in Holding /\ \A q \in Procs : q # p => pc'[q] = pc[q]
  BY DEF Moves
<1>3. CASE pc'[p] \in Holding
  <2>1. UNCHANGED <<holder, fd>> /\ pc'[p] # "wait"
    BY <1>3, StepSets DEF Moves
  <2>2. \A u \in Upgrades : u \in Procs
    BY DEF Procs
  <2>3. QED
    BY <1>1, <1>2, <1>3, <2>1, <2>2 DEF LockInv
<1>4. CASE pc'[p] \notin Holding
  <2>1. holder' = [holder EXCEPT ![fd[p]] = None] /\ fd' = [fd EXCEPT ![p] = None]
        /\ pc'[p] # "wait"
    <3>1. Unlock(p)
      BY <1>4 DEF Moves
    <3>2. pc'[p] \in Ended
      BY <1>4 DEF Moves, Holding, Procs
    <3>3. QED
      BY <3>1, <3>2 DEF Unlock, Ended
  <2>2. fd[p] \in Inodes /\ holder[fd[p]] = p
    BY <1>2 DEF LockInv
  <2>3. \A q \in Procs : q # p => fd'[q] = fd[q]
    BY <2>1 DEF TypeInv, LockTypes
  <2>4. ASSUME NEW q \in Procs, pc'[q] \in Holding PROVE fd'[q] \in Inodes /\ holder'[fd'[q]] = q
    <3>1. q # p /\ pc[q] \in Holding /\ fd'[q] = fd[q]
      BY <1>2, <1>4, <2>3, <2>4
    <3>2. fd[q] \in Inodes /\ holder[fd[q]] = q
      BY <3>1 DEF LockInv
    <3>3. fd[q] # fd[p]
      BY <2>2, <3>1, <3>2
    <3>4. QED
      BY <2>1, <3>1, <3>2, <3>3 DEF TypeInv, LockTypes
  <2>5. \A q \in Procs : pc'[q] = "wait" => fd'[q] \in Inodes
    BY <1>2, <2>1, <2>3 DEF LockInv
  <2>6. lockFile' = Old => \A q \in Procs : fd'[q] \in {None, Old}
    BY <1>1, <2>1, <2>3 DEF LockInv, TypeInv, LockTypes
  <2>7. lockFile' = Old => \A u \in Upgrades : pc'[u] # "restore"
    BY <1>1, <1>2 DEF LockInv, Procs
  <2>8. QED
    BY <2>4, <2>5, <2>6, <2>7 DEF LockInv
<1>5. QED
  BY <1>3, <1>4

LEMMA ApproachLock ==
    ASSUME TypeInv, LockInv, NEW p \in Procs, Approaches(p)
    PROVE  LockInv'
<1>1. "wait" \notin Holding /\ "error" \notin Holding /\ {"binaries", "read"} \subseteq Holding
      /\ \A u \in Upgrades : u \in Procs
  BY StepSets DEF Holding, UpgradeSteps, WriterSteps, Procs, Ended
<1>2. CASE OpenLock(p)
  <2>1. /\ pc[p] = "open" /\ pc' = [pc EXCEPT ![p] = "wait"] /\ holder' = holder
        /\ fd' = [fd EXCEPT ![p] = lockFile']
        /\ lockFile' = IF lockFile = None THEN p ELSE lockFile
    BY <1>2 DEF OpenLock, At, Become
  <2>2. lockFile' \in Inodes /\ (lockFile' = Old => lockFile = Old)
    BY <2>1, ProcsAssumption DEF Inodes, TypeInv, LockTypes
  <2>3. /\ pc'[p] = "wait" /\ fd'[p] = lockFile'
        /\ \A q \in Procs : q # p => pc'[q] = pc[q] /\ fd'[q] = fd[q]
    BY <2>1 DEF TypeInv, ProcTypes, LockTypes
  <2>4. QED
    BY <1>1, <2>1, <2>2, <2>3 DEF LockInv
<1>3. CASE AcquireConfigLock(p)
  <2>1. /\ pc[p] = "wait" /\ pc' = [pc EXCEPT ![p] = IF p \in Upgrades THEN "binaries" ELSE "read"]
        /\ holder[fd[p]] = None /\ holder' = [holder EXCEPT ![fd[p]] = p]
        /\ UNCHANGED <<fd, lockFile>>
    BY <1>3 DEF AcquireConfigLock, At, Become
  <2>2. /\ pc'[p] \in {"binaries", "read"} /\ fd[p] \in Inodes
        /\ \A q \in Procs : q # p => pc'[q] = pc[q]
    BY <2>1 DEF TypeInv, ProcTypes, LockInv
  <2>3. ASSUME NEW q \in Procs, pc'[q] \in Holding PROVE fd'[q] \in Inodes /\ holder'[fd'[q]] = q
    <3>1. CASE q = p
      BY <2>1, <2>2, <3>1 DEF TypeInv, LockTypes
    <3>2. CASE q # p
      <4>1. fd[q] \in Inodes /\ holder[fd[q]] = q
        BY <2>2, <2>3, <3>2 DEF LockInv
      <4>2. fd[q] # fd[p]
        BY <2>1, <4>1, MarksAssumption DEF Inodes
      <4>3. QED
        BY <2>1, <2>2, <4>1, <4>2 DEF TypeInv, LockTypes
    <3>3. QED
      BY <3>1, <3>2
  <2>4. QED
    BY <1>1, <2>1, <2>2, <2>3 DEF LockInv
<1>4. CASE ErrLockBusy(p)
  <2>1. /\ pc[p] = "wait" /\ pc' = [pc EXCEPT ![p] = "error"] /\ fd' = [fd EXCEPT ![p] = None]
        /\ UNCHANGED <<holder, lockFile>>
    BY <1>4 DEF ErrLockBusy, At, Become
  <2>2. /\ pc'[p] = "error" /\ fd'[p] = None
        /\ \A q \in Procs : q # p => pc'[q] = pc[q] /\ fd'[q] = fd[q]
    BY <2>1 DEF TypeInv, ProcTypes, LockTypes
  <2>3. QED
    BY <1>1, <2>1, <2>2 DEF LockInv
<1>5. QED
  BY <1>2, <1>3, <1>4 DEF Approaches

\* The step that ends at "restore" has removed the lock file, or comes from there.
LEMMA RestoreFollowsRemove ==
    ASSUME TypeInv, LockInv, NEW u \in Upgrades, Upgrade(u), pc'[u] = "restore"
    PROVE  lockFile' # Old
<1>1. u \in Procs /\ pc[u] \in Steps
  BY UpgradeTypes DEF TypeInv, ProcTypes
<1>2. ASSUME NEW s, s # "restore", pc' = [pc EXCEPT ![u] = s] PROVE FALSE
  BY <1>1, <1>2 DEF TypeInv, ProcTypes
<1>3. RemoveConfigDir(u) \/ \E f \in Files : RestoreFile(u, f)
  BY <1>2 DEF Upgrade, GoTo, End, Become, EnsureRuntimeBinaries, LoadUpgradeEnv, BackfillHy2,
     ReRenderInPlace, BackupConfig, Prepare, WriteXrayConfig, WriteCloudflaredConfig, UpsertA,
     UpsertVpnRecord, UpsertHy2Record, RestartXray, SaveEnv, RegenerateSubscriptions, Finish,
     DeleteCreated, RestartMutated
<1>4. CASE RemoveConfigDir(u)
  <2>1. lockFile' = None
    BY <1>2, <1>4 DEF RemoveConfigDir, Become
  <2>2. QED
    BY <2>1, MarksAssumption DEF Inodes
<1>5. CASE \E f \in Files : RestoreFile(u, f)
  <2>1. lockFile # Old
    BY <1>5 DEF RestoreFile, At, LockInv
  <2>2. lockFile' \in {lockFile, u}
    BY <1>5 DEF RestoreFile, End
  <2>3. QED
    BY <1>1, <2>1, <2>2, ProcsAssumption
<1>6. QED
  BY <1>3, <1>4, <1>5

LEMMA InitLock == Init => LockInv
BY StepSets, MarksAssumption DEF Init, LockInv, Inodes, Procs

LEMMA LockStep == TypeInv /\ LockInv /\ [Next]_vars => LockInv'
<1>1. SUFFICES ASSUME TypeInv, LockInv, [Next]_vars PROVE LockInv'
  OBVIOUS
<1>2. Upgrades \subseteq Procs /\ Writers \subseteq Procs /\ Writers \cap Upgrades = {}
  BY ProcsAssumption DEF Procs
<1>3. ASSUME NEW p \in Procs, Approaches(p) PROVE LockInv'
  BY <1>1, <1>3, ApproachLock
<1>4. ASSUME NEW p \in Procs, Kill(p) PROVE LockInv'
  BY <1>1, <1>4, KillMoves, MovesLock
<1>5. ASSUME NEW u \in Upgrades, Upgrade(u) PROVE LockInv'
  BY <1>1, <1>2, <1>5, UpgradeMoves, RestoreFollowsRemove, MovesLock
<1>6. ASSUME NEW w \in Writers, Read(w) \/ Write(w) PROVE LockInv'
  BY <1>1, <1>2, <1>6, ReadMoves, WriteMoves, MovesLock
<1>7. CASE UNCHANGED vars
  BY <1>1, <1>7 DEF vars, LockInv
<1>8. QED
  BY <1>1, <1>3, <1>4, <1>5, <1>6, <1>7, NextCases

-----------------------------------------------------------------------------
(* No confirmed user is lost.                                              *)

\* While the lock is one lock, an upgrade leaves the users on disk alone, and what
\* it has read under the lock is what is there.
LEMMA UpgradeKeepsUsers ==
    ASSUME TypeInv, LockInv, UsersInv, NEW u \in Upgrades, Upgrade(u), lockFile = Old
    PROVE  /\ dir'["xray"] = Missing \/ Confirmed \subseteq dir'["xray"].users
           /\ pc'[u] = "write_xray" => Confirmed \subseteq local'[u].users
<1>1. dir["xray"] = Missing \/ Confirmed \subseteq dir["xray"].users
  BY DEF UsersInv, UsersKept, Confirmed
<1>2. u \in Procs /\ dir \in Contents /\ pc \in [Procs -> Steps] /\ local \in [Procs -> Kept]
  BY UpgradeTypes DEF TypeInv, ProcTypes
<1>3. ASSUME NEW s, s # "write_xray", pc' = [pc EXCEPT ![u] = s] PROVE pc'[u] # "write_xray"
  BY <1>2, <1>3
<1>4. CASE Prepare(u)
  <2>1. dir' = dir
    BY <1>4 DEF Prepare
  <2>2. CASE GoTo(u, "delete_created")
    BY <1>1, <1>3, <2>1, <2>2 DEF GoTo, Become
  <2>3. CASE dir["xray"] # Missing /\ local' = [local EXCEPT ![u].users = dir["xray"].users]
    <3>1. local[u] \in UpgradeLocal
      BY <1>4, UpgradeTypes, PastSteps DEF Prepare, At
    <3>2. local'[u].users = dir["xray"].users
      BY <1>2, <2>3, <3>1 DEF UpgradeLocal
    <3>3. QED
      BY <1>1, <2>1, <2>3, <3>2
  <2>4. QED
    BY <1>4, <2>2, <2>3 DEF Prepare
<1>5. CASE WriteXrayConfig(u)
  <2>1. Confirmed \subseteq local[u].users
    BY <1>5 DEF UsersInv, WriteXrayConfig, At
  <2>2. dir' \in {dir, [dir EXCEPT !["xray"] = [mode |-> local[u].env.mode, users |-> local[u].users]]}
    BY <1>5 DEF WriteXrayConfig
  <2>3. dir'["xray"] = dir["xray"] \/ dir'["xray"].users = local[u].users
    BY <1>2, <2>2 DEF Contents
  <2>4. pc'[u] # "write_xray"
    BY <1>3, <1>5 DEF WriteXrayConfig, GoTo, Become
  <2>5. QED
    BY <1>1, <2>1, <2>3, <2>4
<1>6. CASE ReRenderInPlace(u)
  <2> DEFINE xray == [mode |-> dir["env"].mode, users |-> dir["xray"].users]
             rendered == [dir EXCEPT !["xray"] = xray, !["cloudflared"] = dir["env"].mode]
  <2>1. dir' = dir \/ (dir["xray"] # Missing /\ dir' \in {[dir EXCEPT !["xray"] = xray], rendered})
    BY <1>6 DEF ReRenderInPlace
  <2>2. dir'["xray"] = dir["xray"] \/ (dir["xray"] # Missing /\ dir'["xray"] = xray)
    BY <1>2, <2>1 DEF Contents
  <2>3. pc'[u] # "write_xray"
    BY <1>3, <1>6 DEF ReRenderInPlace, End, Become
  <2>4. QED
    BY <1>1, <2>2, <2>3
<1>7. CASE RemoveConfigDir(u)
  <2>1. dir'["xray"] \in {dir["xray"], Missing}
    BY <1>7 DEF RemoveConfigDir, CutOff, Files
  <2>2. pc'[u] # "write_xray"
    BY <1>3, <1>7 DEF RemoveConfigDir, Become
  <2>3. QED
    BY <1>1, <2>1, <2>2
<1>8. CASE BackfillHy2(u) \/ WriteCloudflaredConfig(u) \/ SaveEnv(u)
  <2>1. dir'["xray"] = dir["xray"]
    BY <1>2, <1>8 DEF BackfillHy2, WriteCloudflaredConfig, SaveEnv, Contents
  <2>2. pc'[u] # "write_xray"
    BY <1>3, <1>8 DEF BackfillHy2, WriteCloudflaredConfig, SaveEnv, GoTo, End, Become
  <2>3. QED
    BY <1>1, <2>1, <2>2
<1>9. CASE \/ EnsureRuntimeBinaries(u) \/ LoadUpgradeEnv(u) \/ BackupConfig(u) \/ UpsertVpnRecord(u)
           \/ UpsertHy2Record(u) \/ RestartXray(u) \/ RegenerateSubscriptions(u) \/ Finish(u)
           \/ DeleteCreated(u) \/ RestartMutated(u)
  <2>1. dir' = dir
    BY <1>9 DEF EnsureRuntimeBinaries, LoadUpgradeEnv, BackupConfig, UpsertVpnRecord,
       UpsertHy2Record, RestartXray, RegenerateSubscriptions, Finish, DeleteCreated, RestartMutated
  <2>2. pc'[u] # "write_xray"
    BY <1>3, <1>9 DEF EnsureRuntimeBinaries, LoadUpgradeEnv, BackupConfig, UpsertVpnRecord, UpsertA,
       UpsertHy2Record, RestartXray, RegenerateSubscriptions, Finish, DeleteCreated, RestartMutated,
       GoTo, End, Become
  <2>3. QED
    BY <1>1, <2>1, <2>2
<1>10. ASSUME NEW f \in Files, RestoreFile(u, f) PROVE FALSE
  BY <1>10 DEF RestoreFile, At, LockInv
<1>11. QED
  BY <1>4, <1>5, <1>6, <1>7, <1>8, <1>9, <1>10 DEF Upgrade

\* The holder of the lock alone can disturb it.
LEMMA HolderUsers ==
    ASSUME TypeInv, LockInv, UsersInv, NEW p \in Procs, Moves(p), lockFile' = Old => lockFile = Old,
           lockFile' = Old =>
             /\ dir'["xray"] = Missing \/ Confirmed' \subseteq dir'["xray"].users
             /\ p \in Writers /\ pc'[p] = "write" => Confirmed' \cup {p} \subseteq local'[p].users
             /\ p \in Upgrades /\ pc'[p] = "write_xray" => Confirmed' \subseteq local'[p].users
    PROVE  UsersInv'
<1>1. SUFFICES ASSUME lockFile' = Old PROVE UsersInv'
  BY DEF UsersInv
<1>2. lockFile = Old /\ pc[p] \in Holding
  BY <1>1 DEF Moves
<1>3. ASSUME NEW q \in Procs, q # p PROVE pc'[q] \notin {"write", "write_xray"}
  <2>1. pc[q] \notin Holding /\ pc'[q] = pc[q]
    BY <1>2, <1>3, OneHolder DEF Moves
  <2>2. {"write", "write_xray"} \subseteq Holding
    BY DEF Holding, WriterSteps, UpgradeSteps, InCore
  <2>3. QED
    BY <2>1, <2>2
<1>4. UsersKept'
  BY <1>1 DEF UsersKept, Confirmed
<1>5. QED
  BY <1>1, <1>3, <1>4 DEF UsersInv, Procs

\* Nobody but a writer is confirmed.
LEMMA SameConfirmed ==
    ASSUME NEW p \in Procs, \A q \in Procs \ {p} : pc'[q] = pc[q], p \in Writers => pc'[p] # "ok",
           p \in Writers => pc[p] # "ok"
    PROVE  Confirmed' = Confirmed
BY DEF Confirmed, Procs

LEMMA ReadUsers ==
    ASSUME TypeInv, LockInv, UsersInv, NEW w \in Writers, Read(w)
    PROVE  UsersInv'
<1>1. w \in Procs /\ Moves(w) /\ pc[w] = "read" /\ dir' = dir /\ local \in [Procs -> Kept]
      /\ pc \in [Procs -> Steps] /\ w \notin Upgrades
  BY ReadMoves, WriterTypes DEF Read, At, TypeInv, ProcTypes
<1>2. lockFile' = lockFile
  BY DEF Read, End, locks
<1>3. CASE End(w, "error")
  <2>1. pc'[w] = "error"
    BY <1>1, <1>3 DEF End, Become
  <2>2. Confirmed' = Confirmed
    BY <1>1, <2>1, SameConfirmed DEF Moves
  <2>3. lockFile' = Old => dir'["xray"] = Missing \/ Confirmed' \subseteq dir'["xray"].users
    BY <1>1, <1>2, <2>2 DEF UsersInv, UsersKept, Confirmed
  <2>4. QED
    BY <1>1, <1>2, <2>1, <2>3, HolderUsers
<1>4. CASE /\ dir["xray"] # Missing /\ Become(w, "write")
           /\ local' = [local EXCEPT ![w] = [dir["xray"] EXCEPT !.users = @ \cup {w}]]
  <2>1. pc'[w] = "write"
    BY <1>1, <1>4 DEF Become
  <2>2. Confirmed' = Confirmed
    BY <1>1, <2>1, SameConfirmed DEF Moves
  <2>3. lockFile = Old => Confirmed \subseteq dir["xray"].users
    BY <1>4 DEF UsersInv, UsersKept, Confirmed
  <2>4. local'[w].users = dir["xray"].users \cup {w}
    BY <1>1, <1>4, FileTypes DEF TypeInv, DataTypes, Xray
  <2>5. QED
    BY <1>1, <1>2, <2>1, <2>2, <2>3, <2>4, HolderUsers
<1>5. QED
  BY <1>3, <1>4 DEF Read

LEMMA WriteUsers ==
    ASSUME TypeInv, LockInv, UsersInv, NEW w \in Writers, Write(w)
    PROVE  UsersInv'
<1>1. w \in Procs /\ Moves(w) /\ pc[w] = "write" /\ dir \in Contents
      /\ pc \in [Procs -> Steps] /\ w \notin Upgrades
  BY WriteMoves, WriterTypes DEF Write, At, TypeInv, ProcTypes
<1>2. lockFile' = lockFile /\ \A q \in Procs \ {w} : pc'[q] = pc[q]
  BY <1>1 DEF Write, End, Moves
<1>3. CASE End(w, "error") /\ dir' = dir
  <2>1. pc'[w] = "error"
    BY <1>1, <1>3 DEF End, Become
  <2>2. Confirmed' = Confirmed
    BY <1>1, <1>2, <2>1, SameConfirmed
  <2>3. lockFile' = Old => dir'["xray"] = Missing \/ Confirmed' \subseteq dir'["xray"].users
    BY <1>2, <1>3, <2>2 DEF UsersInv, UsersKept, Confirmed
  <2>4. QED
    BY <1>1, <1>2, <2>1, <2>3, HolderUsers
<1>4. CASE End(w, "ok") /\ dir' = [dir EXCEPT !["xray"] = local[w]]
  <2>1. pc'[w] = "ok"
    BY <1>1, <1>4 DEF End, Become
  <2>2. Confirmed' \subseteq Confirmed \cup {w}
    BY <1>2 DEF Confirmed, Procs
  <2>3. dir'["xray"] = local[w]
    BY <1>1, <1>4 DEF Contents
  <2>4. lockFile = Old => Confirmed \cup {w} \subseteq local[w].users
    BY <1>1 DEF UsersInv
  <2>5. QED
    BY <1>1, <1>2, <2>1, <2>2, <2>3, <2>4, HolderUsers
<1>5. QED
  BY <1>3, <1>4 DEF Write

LEMMA KillUsers ==
    ASSUME TypeInv, LockInv, UsersInv, NEW p \in Procs, Kill(p)
    PROVE  UsersInv'
<1>1. Moves(p) /\ pc'[p] = "error" /\ pc[p] \in Holding
  BY KillMoves DEF Moves
<1>2. Confirmed' = Confirmed
  <2>1. pc[p] # "ok" /\ pc'[p] # "ok"
    BY <1>1, StepSets, PastSteps
  <2>2. QED
    BY <1>1, <2>1, SameConfirmed DEF Moves
<1>3. dir'["xray"] \in {dir["xray"], Missing} /\ lockFile' \in {lockFile, None}
  BY DEF Kill, CutOff, Files
<1>4. lockFile' = Old => lockFile = Old
  BY <1>3, MarksAssumption DEF Inodes
<1>5. lockFile' = Old => dir'["xray"] = Missing \/ Confirmed' \subseteq dir'["xray"].users
  BY <1>2, <1>3, <1>4 DEF UsersInv, UsersKept, Confirmed
<1>6. QED
  BY <1>1, <1>4, <1>5, HolderUsers

LEMMA ApproachUsers ==
    ASSUME TypeInv, UsersInv, NEW p \in Procs, Approaches(p)
    PROVE  UsersInv'
<1>1. UNCHANGED dir /\ \A q \in Procs \ {p} : pc'[q] = pc[q] /\ local'[q] = local[q]
  BY ApproachTypes
<1>2. pc[p] \in {"open", "wait"} /\ pc'[p] \in {"wait", "binaries", "read", "error"}
  BY DEF Approaches, OpenLock, AcquireConfigLock, ErrLockBusy, At, Become, TypeInv, ProcTypes
<1>3. Confirmed' = Confirmed
  BY <1>1, <1>2, SameConfirmed
<1>4. lockFile' = Old => lockFile = Old
  BY ProcsAssumption DEF Approaches, OpenLock, AcquireConfigLock, ErrLockBusy
<1>5. UsersKept => UsersKept'
  BY <1>1, <1>3 DEF UsersKept, Confirmed
<1>6. /\ \A w \in Writers : pc'[w] = "write" => pc[w] = "write" /\ local'[w] = local[w]
      /\ \A u \in Upgrades : pc'[u] = "write_xray" => pc[u] = "write_xray" /\ local'[u] = local[u]
  BY <1>1, <1>2 DEF Procs
<1>7. QED
  BY <1>3, <1>4, <1>5, <1>6 DEF UsersInv

LEMMA UsersStep == TypeInv /\ LockInv /\ UsersInv /\ [Next]_vars => UsersInv'
<1>1. SUFFICES ASSUME TypeInv, LockInv, UsersInv, [Next]_vars PROVE UsersInv'
  OBVIOUS
<1>2. ASSUME NEW p \in Procs, Approaches(p) \/ Kill(p) PROVE UsersInv'
  BY <1>1, <1>2, ApproachUsers, KillUsers
<1>3. ASSUME NEW u \in Upgrades, Upgrade(u) PROVE UsersInv'
  <2>1. Moves(u) /\ u \in Procs /\ u \notin Writers
    BY <1>1, <1>3, UpgradeMoves, UpgradeTypes
  <2>2. lockFile' = Old => lockFile = Old
    BY <2>1, ProcsAssumption, MarksAssumption DEF Moves, Inodes
  <2>3. Confirmed' = Confirmed
    BY <2>1, SameConfirmed DEF Moves
  <2>4. lockFile' = Old => /\ dir'["xray"] = Missing \/ Confirmed \subseteq dir'["xray"].users
                           /\ pc'[u] = "write_xray" => Confirmed \subseteq local'[u].users
    BY <1>1, <1>3, <2>2, UpgradeKeepsUsers
  <2>5. QED
    BY <1>1, <2>1, <2>2, <2>3, <2>4, HolderUsers
<1>4. ASSUME NEW w \in Writers, Read(w) \/ Write(w) PROVE UsersInv'
  BY <1>1, <1>4, ReadUsers, WriteUsers
<1>5. CASE UNCHANGED vars
  BY <1>1, <1>5 DEF vars, UsersInv, UsersKept, Confirmed
<1>6. QED
  BY <1>1, <1>2, <1>3, <1>4, <1>5, NextCases

LEMMA InitUsers == Init => UsersInv
BY DEF Init, UsersInv, UsersKept, Confirmed, Procs

\* Until a rollback replaces the lock file, every user the agent has confirmed is
\* in xray's config (or that config is cut off by a rollback that broke down),
\* whatever fails and whoever is killed, for any number of upgrades and requests.
THEOREM NoConfirmedUserLost == Spec => []NoUserLost
<1>1. UsersInv => NoUserLost
  BY DEF UsersInv, NoUserLost
<1>2. QED
  BY <1>1, InitTypes, InitLock, InitUsers, TypeStep, LockStep, UsersStep, PTL DEF Spec

-----------------------------------------------------------------------------
(* A whole configuration is always left.                                   *)

\* A backup is only ever added, and the prune leaves as many as are kept.
LEMMA BackedUpGrows ==
    ASSUME TypeInv, NEW b \in BackupSet,
           backups' \in {Append(backups, b), Pruned(Append(backups, b))}
    PROVE  /\ BackedUp => BackedUp'
           /\ Whole(b.files) => BackedUp'
<1> DEFINE grown == Append(backups, b)
<1>1. /\ backups \in Seq(BackupSet) /\ grown \in Seq(BackupSet) /\ Len(grown) = Len(backups) + 1
      /\ Len(backups) \in Nat /\ grown[Len(backups) + 1] = b
      /\ \A i \in 1..Len(backups) : grown[i] = backups[i]
  BY AppendProperties, LenProperties DEF TypeInv, DataTypes
<1> HIDE DEF grown
<1>2. CASE backups' = grown
  BY <1>1, <1>2, KeepAssumption DEF BackedUp
<1>3. CASE backups' = Pruned(grown) /\ Len(grown) <= KeepConfigBackups
  BY <1>1, <1>2, <1>3, PrunedTypes
<1>4. CASE backups' = Pruned(grown) /\ Len(grown) > KeepConfigBackups
  <2>1. Len(backups') >= KeepConfigBackups
    BY <1>1, <1>4, PrunedTypes, KeepAssumption
  <2>2. QED
    BY <2>1 DEF BackedUp
<1>5. QED
  BY <1>1, <1>2, <1>3, <1>4, KeepAssumption DEF grown

\* What an upgrade at its backup may add: all it found, or a first part of it.
BackupBy(u) == {b \in BackupSet : b.by = u /\ b.files["env"] \in {dir["env"], Missing}}

\* A step that leaves other backups has added one, and may have pruned.
LEMMA BackupChoices ==
    ASSUME TypeInv, [Next]_vars, backups' # backups
    PROVE  \E u \in Upgrades : \E b \in BackupBy(u) :
             pc[u] = "backup" /\ backups' \in {Append(backups, b), Pruned(Append(backups, b))}
<1>1. ASSUME NEW u \in Upgrades, backups' \in CutShort(u)
      PROVE  \E b \in BackupBy(u) : backups' = Append(backups, b)
  <2>1. PICK fs \in SUBSET Files : /\ backups' = Append(backups, Backup(u, Prefix(dir, fs)))
                                   /\ Backup(u, Prefix(dir, fs)) \in BackupSet
    BY <1>1, CutShortTypes
  <2>2. Backup(u, Prefix(dir, fs)) \in BackupBy(u)
    BY <2>1 DEF BackupBy, Backup, Prefix, Files
  <2>3. QED
    BY <2>1, <2>2
<1>2. ASSUME NEW p \in Procs, Kill(p)
      PROVE  p \in Upgrades /\ pc[p] = "backup" /\ backups' \in CutShort(p)
  <2>1. pc[p] = "backup" /\ backups' \in CutShort(p)
    BY <1>2 DEF Kill, At
  <2>2. p \in Upgrades
    BY <2>1 DEF TypeInv, ProcTypes, Ended, WriterSteps, Procs
  <2>3. QED
    BY <2>1, <2>2
<1>3. ASSUME NEW u \in Upgrades, Upgrade(u)
      PROVE  BackupConfig(u)
  BY <1>3 DEF Upgrade, EnsureRuntimeBinaries, LoadUpgradeEnv, BackfillHy2, ReRenderInPlace, Prepare,
     WriteXrayConfig, WriteCloudflaredConfig, UpsertVpnRecord, UpsertHy2Record, RestartXray, SaveEnv,
     RegenerateSubscriptions, Finish, DeleteCreated, RemoveConfigDir, RestoreFile, RestartMutated,
     outside
<1>4. ASSUME NEW u \in Upgrades, BackupConfig(u)
      PROVE  \E b \in BackupBy(u) : /\ pc[u] = "backup"
                                    /\ backups' \in {Append(backups, b), Pruned(Append(backups, b))}
  <2>1. Backup(u, dir) \in BackupBy(u)
    BY DEF TypeInv, DataTypes, Backup, BackupSet, BackupBy
  <2>2. \/ backups' \in {Append(backups, Backup(u, dir)), Pruned(Append(backups, Backup(u, dir)))}
        \/ backups' \in CutShort(u)
    BY <1>4 DEF BackupConfig
  <2>3. pc[u] = "backup"
    BY <1>4 DEF BackupConfig, At
  <2>4. QED
    BY <1>1, <2>1, <2>2, <2>3
<1>5. ASSUME NEW p \in Procs, Approaches(p) PROVE backups' = backups
  BY <1>5, ApproachTypes
<1>6. ASSUME NEW w \in Writers, Read(w) \/ Write(w) PROVE backups' = backups
  BY <1>6 DEF Read, Write
<1>7. QED
  BY <1>1, <1>2, <1>3, <1>4, <1>5, <1>6, NextCases DEF vars

LEMMA BackedUpStays ==
    ASSUME TypeInv, [Next]_vars, BackedUp
    PROVE  BackedUp'
<1>1. CASE backups' = backups
  BY <1>1 DEF BackedUp
<1>2. CASE backups' # backups
  BY <1>2, BackupChoices, BackedUpGrows DEF BackupBy
<1>3. QED
  BY <1>1, <1>2

\* Before its rollback an upgrade writes whole files, and so does a writer.
LEMMA WholeStays ==
    ASSUME TypeInv, [Next]_vars, Whole(dir), \A u \in Upgrades : pc[u] \notin Past
    PROVE  Whole(dir)'
<1> USE DEF Whole
<1>1. dir \in Contents /\ Upgrades \subseteq Procs
  BY DEF TypeInv, DataTypes, Procs
<1>2. ASSUME NEW x, x # Missing, NEW f \in Files, dir' = [dir EXCEPT ![f] = x] PROVE Whole(dir')
  BY <1>1, <1>2 DEF Contents, Files
<1>3. ASSUME NEW w \in Writers, Write(w) PROVE Whole(dir')
  <2>1. local[w] \in Xray /\ local[w] # Missing
    BY <1>3, MarksAssumption DEF Write, At, TypeInv, ProcTypes
  <2>2. QED
    BY <1>2, <1>3, <2>1 DEF Write, Files
<1>4. ASSUME NEW u \in Upgrades, BackfillHy2(u) PROVE Whole(dir')
  <2>1. u # Missing
    BY MarksAssumption DEF Hosts
  <2>2. QED
    BY <1>2, <1>4, <2>1 DEF BackfillHy2, Files
<1>5. ASSUME NEW u \in Upgrades, ReRenderInPlace(u) PROVE Whole(dir')
  <2> DEFINE xray == [mode |-> dir["env"].mode, users |-> dir["xray"].users]
             rendered == [dir EXCEPT !["xray"] = xray, !["cloudflared"] = dir["env"].mode]
  <2>1. dir["env"] \in Env /\ dir["xray"] \in Xray
    BY <1>1, FileTypes DEF Files
  <2>2. xray # Missing /\ dir["env"].mode # Missing
    BY <2>1, MarksAssumption DEF Env, Xray
  <2>3. dir' \in {dir, [dir EXCEPT !["xray"] = xray], rendered}
    BY <1>5 DEF ReRenderInPlace
  <2>4. Whole(rendered) /\ Whole([dir EXCEPT !["xray"] = xray])
    BY <1>1, <2>2 DEF Contents, Files
  <2>5. QED
    BY <2>3, <2>4
<1>6. ASSUME NEW p \in Procs, Kill(p) PROVE dir' = dir
  <2>1. ~At(p, "remove")
    <3>1. p \in Upgrades => pc[p] # "remove"
      BY PastSteps
    <3>2. p \in Writers => pc[p] # "remove"
      BY DEF TypeInv, ProcTypes, Ended, WriterSteps
    <3>3. QED
      BY <3>1, <3>2 DEF Procs, At
  <2>2. QED
    BY <1>6, <2>1 DEF Kill
<1>7. ASSUME NEW u \in Upgrades, Upgrade(u) PROVE dir' = dir \/ BackfillHy2(u) \/ ReRenderInPlace(u)
  BY <1>7, PastSteps DEF Upgrade, EnsureRuntimeBinaries, LoadUpgradeEnv, BackupConfig, Prepare, At,
     WriteXrayConfig, WriteCloudflaredConfig, UpsertVpnRecord, UpsertHy2Record, RestartXray, SaveEnv,
     RegenerateSubscriptions, Finish, DeleteCreated, RemoveConfigDir, RestoreFile, RestartMutated
<1>8. ASSUME NEW p \in Procs, Approaches(p) PROVE dir' = dir
  BY <1>8, ApproachTypes
<1>9. ASSUME NEW w \in Writers, Read(w) PROVE dir' = dir
  BY <1>9 DEF Read
<1>10. QED
  BY <1>3, <1>4, <1>5, <1>6, <1>7, <1>8, <1>9, NextCases DEF vars

\* Only the backup leads past it.
LEMMA PastFollowsBackup ==
    ASSUME TypeInv, [Next]_vars, NEW u \in Upgrades, pc[u] \notin Past, pc'[u] \in Past
    PROVE  BackupConfig(u) /\ backups' \in {Append(backups, Backup(u, dir)),
                                            Pruned(Append(backups, Backup(u, dir)))}
<1>1. u \in Procs /\ u \notin Writers /\ pc \in [Procs -> Steps]
  BY UpgradeTypes DEF TypeInv, ProcTypes
<1>2. ASSUME NEW p \in Procs, Approaches(p) PROVE FALSE
  <2>1. p # u => pc'[u] = pc[u]
    BY <1>1, <1>2, ApproachTypes
  <2>2. p = u => pc'[u] \in {"wait", "binaries", "read", "error"}
    BY <1>1, <1>2 DEF Approaches, OpenLock, AcquireConfigLock, ErrLockBusy, Become
  <2>3. Past \cap {"wait", "binaries", "read", "error"} = {}
    BY DEF Past, InCore, InRollback
  <2>4. QED
    BY <2>1, <2>2, <2>3
<1>3. ASSUME NEW p \in Procs, Kill(p) PROVE FALSE
  BY <1>1, <1>3, KillMoves, PastSteps, StepSets DEF Moves
<1>4. ASSUME NEW v \in Upgrades, Upgrade(v) PROVE v = u
  BY <1>1, <1>4, UpgradeMoves, UpgradeTypes DEF Moves
<1>5. ASSUME NEW w \in Writers, Read(w) \/ Write(w) PROVE FALSE
  BY <1>1, <1>5, ReadMoves, WriteMoves, WriterTypes DEF Moves
<1>6. Upgrade(u)
  BY <1>2, <1>3, <1>4, <1>5, NextCases DEF vars
<1>7. ASSUME NEW s, s \notin Past, pc' = [pc EXCEPT ![u] = s] PROVE FALSE
  BY <1>1, <1>7
<1>8. {"load", "backup", "backfill", "in_place", "error", "same", "ok"} \cap Past = {}
  BY DEF Past, InCore, InRollback
<1>9. BackupConfig(u)
  BY <1>6, <1>7, <1>8, PastSteps DEF Upgrade, EnsureRuntimeBinaries, LoadUpgradeEnv, BackfillHy2,
     ReRenderInPlace, GoTo, End, Become, At, Prepare,
     WriteXrayConfig, WriteCloudflaredConfig, UpsertVpnRecord, UpsertHy2Record, RestartXray, SaveEnv,
     RegenerateSubscriptions, Finish, DeleteCreated, RemoveConfigDir, RestoreFile, RestartMutated
<1>10. QED
  BY <1>7, <1>8, <1>9 DEF BackupConfig, End, Become

LEMMA BackupStep == TypeInv /\ BackupInv /\ [Next]_vars => BackupInv'
<1>1. SUFFICES ASSUME TypeInv, BackupInv, [Next]_vars PROVE BackupInv'
  OBVIOUS
<1>2. BackedUp => BackedUp'
  BY <1>1, BackedUpStays
<1>3. Whole(dir)' \/ BackedUp'
  BY <1>1, <1>2, WholeStays DEF BackupInv
<1>4. ASSUME NEW u \in Upgrades, pc'[u] \in Past PROVE BackedUp'
  <2>1. CASE pc[u] \in Past
    BY <1>1, <1>2, <2>1 DEF BackupInv
  <2>2. CASE pc[u] \notin Past
    <3>1. backups' \in {Append(backups, Backup(u, dir)), Pruned(Append(backups, Backup(u, dir)))}
      BY <1>1, <1>4, <2>2, PastFollowsBackup
    <3>2. Backup(u, dir) \in BackupSet /\ Backup(u, dir).files = dir
      BY <1>1 DEF TypeInv, DataTypes, Backup, BackupSet
    <3>3. QED
      BY <1>1, <3>1, <3>2, BackedUpGrows DEF BackupInv
  <2>3. QED
    BY <2>1, <2>2
<1>5. QED
  BY <1>3, <1>4 DEF BackupInv

LEMMA InitBackups == Init => BackupInv
<1>1. SUFFICES ASSUME Init PROVE BackupInv
  OBVIOUS
<1>2. Whole(dir)
  <2>1. PICK env \in [host : {Old}, hy2 : {Old, None}, mode : Modes] :
          dir = [f \in Files |->
                    CASE f = "env" -> env
                      [] f = "cloudflared" -> env.mode
                      [] f = "hysteria" -> env.hy2
                      [] f = "xray" -> [mode |-> env.mode, users |-> {}]]
    BY <1>1 DEF Init
  <2>2. env \in Env /\ env.mode \in Modes /\ env.hy2 \in Hosts \cup {None}
        /\ [mode |-> env.mode, users |-> {}] \in Xray
    BY DEF Env, Hosts, Xray
  <2>3. QED
    BY <2>1, <2>2, MarksAssumption DEF Whole, Files
<1>3. \A u \in Upgrades : pc[u] \notin Past
  BY <1>1 DEF Init, Procs, Past, InCore, InRollback
<1>4. QED
  BY <1>2, <1>3 DEF BackupInv

\* A whole configuration exists at any moment, under /etc/cfvpn or in a backup, also
\* between the steps of a rollback that is cut short, unless KeepConfigBackups
\* backups have been made since.
THEOREM AlwaysRecoverable == Spec => []Recoverable
<1>1. BackupInv => Recoverable
  BY DEF BackupInv, BackedUp, Recoverable
<1>2. QED
  BY <1>1, InitTypes, InitBackups, TypeStep, BackupStep, PTL DEF Spec

-----------------------------------------------------------------------------
(* The host that is served resolves.                                       *)

HostOf(env) == IF env = Missing THEN Old ELSE env.host

Resolves(env, recs) ==
    env # Missing =>
        /\ env.mode = "cloudflare" => Cname(env.host) \in recs
        /\ env.mode = "direct" /\ env.host # Old => A(env.host) \in recs

\* An upgrade that has not come to SaveEnv has told nobody the host it generated.
Unsaved == {"open", "wait", "binaries", "load", "backfill", "backup", "in_place", "prepare",
            "write_xray", "write_cloudflared", "upsert_vpn", "upsert_hy2", "restart_xray", "save_env"}

NamesInv ==
    /\ \A u \in Upgrades : pc[u] \in Unsaved =>
        /\ HostOf(dir["env"]) # u
        /\ \A i \in 1..Len(backups) : HostOf(backups[i].files["env"]) # u
        /\ \A v \in Upgrades \ {u} : pc[v] \in Working => local[v].env.host # u
    /\ \A i \in 1..Len(backups) : HostOf(backups[i].files["env"]) # backups[i].by
    /\ \A u \in Upgrades : pc[u] \in Working =>
        /\ local[u].env.mode = "direct" => local[u].env.host = u
        /\ \A h \in Hosts : Cname(h) \notin local[u].created /\ (A(h) \in local[u].created => h = u)

\* A rollback, and the end of the one lock, come after a backup; a single backup is
\* that of the upgrade that is past it.
CountInv ==
    /\ lockFile # Old => Len(backups) # 0
    /\ \A u \in Upgrades : pc[u] \in Past =>
        Len(backups) # 0 /\ (Len(backups) = 1 => backups[1].by = u)

\* The host in cfvpn.env resolves, unless a rollback is at work after a failure of
\* the environment; and so does what an upgrade is about to save or to restore.
Upserted == {"upsert_hy2", "restart_xray", "save_env", "subscriptions", "finish"}

ResolveInv ==
    OneAtWork /\ faults <= 1 =>
        /\ faults = 0 \/ (\A u \in Upgrades : pc[u] \notin InRollback) => Resolves(dir["env"], dns)
        /\ \A u \in Upgrades :
             pc[u] \in Past /\ Len(backups) = 1 => Resolves(backups[1].files["env"], dns)
        /\ \A u \in Upgrades : pc[u] \in Upserted => Resolves(local[u].env, dns)
        /\ \A u \in Upgrades : pc[u] = "restore" => dir["env"] \in {Missing, backups[1].files["env"]}
        /\ \A u \in Upgrades : pc[u] \in InRollback /\ faults = 0 => HostOf(dir["env"]) # u

\* The lengths that the backups can have after a step.
LEMMA BackupLengths ==
    ASSUME TypeInv, [Next]_vars, backups' # backups
    PROVE  /\ Len(backups') # 0
           /\ Len(backups') = 1 => /\ Len(backups) = 0
                                   /\ \E u \in Upgrades : \E b \in BackupBy(u) :
                                        pc[u] = "backup" /\ backups'[1] = b
<1>a. PICK u \in Upgrades : \E b \in BackupBy(u) :
        pc[u] = "backup" /\ backups' \in {Append(backups, b), Pruned(Append(backups, b))}
  BY BackupChoices
<1>1. PICK b \in BackupBy(u) :
        pc[u] = "backup" /\ backups' \in {Append(backups, b), Pruned(Append(backups, b))}
  BY <1>a
<1> DEFINE grown == Append(backups, b)
<1>2. /\ grown \in Seq(BackupSet) /\ Len(grown) = Len(backups) + 1 /\ Len(backups) \in Nat
      /\ grown[Len(backups) + 1] = b
  BY AppendProperties, LenProperties DEF TypeInv, DataTypes, BackupBy
<1> HIDE DEF grown
<1>3. CASE backups' = grown
  BY <1>1, <1>2, <1>3
<1>4. CASE backups' = Pruned(grown) /\ Len(grown) <= KeepConfigBackups
  BY <1>2, <1>3, <1>4, PrunedTypes
<1>5. CASE backups' = Pruned(grown) /\ Len(grown) > KeepConfigBackups
  <2>1. Len(backups') = KeepConfigBackups
    BY <1>2, <1>5, PrunedTypes
  <2>2. QED
    BY <2>1, KeepAssumption
<1>6. QED
  BY <1>1, <1>2, <1>3, <1>4, <1>5, KeepAssumption DEF grown

\* Each backup after a step was there before, or was added by it.
LEMMA BackupElements ==
    ASSUME TypeInv, [Next]_vars, NEW j \in 1..Len(backups')
    PROVE  \/ \E i \in 1..Len(backups) : backups'[j] = backups[i]
           \/ \E u \in Upgrades : \E b \in BackupBy(u) : pc[u] = "backup" /\ backups'[j] = b
<1>1. CASE backups' = backups
  BY <1>1
<1>2. CASE backups' # backups
  <2>a. PICK u \in Upgrades : \E b \in BackupBy(u) :
          pc[u] = "backup" /\ backups' \in {Append(backups, b), Pruned(Append(backups, b))}
    BY <1>2, BackupChoices
  <2>1. PICK b \in BackupBy(u) :
          pc[u] = "backup" /\ backups' \in {Append(backups, b), Pruned(Append(backups, b))}
    BY <2>a
  <2> DEFINE grown == Append(backups, b)
  <2>2. /\ grown \in Seq(BackupSet) /\ Len(grown) = Len(backups) + 1 /\ Len(backups) \in Nat
        /\ grown[Len(backups) + 1] = b /\ \A i \in 1..Len(backups) : grown[i] = backups[i]
    BY AppendProperties, LenProperties DEF TypeInv, DataTypes, BackupBy
  <2> HIDE DEF grown
  <2>3. ASSUME NEW k \in 1..Len(grown)
        PROVE  (\E i \in 1..Len(backups) : grown[k] = backups[i]) \/ grown[k] = b
    BY <2>2, <2>3
  <2>4. CASE backups' = grown
    BY <2>1, <2>3, <2>4
  <2>5. CASE backups' = Pruned(grown) /\ Len(grown) <= KeepConfigBackups
    BY <2>2, <2>4, <2>5, PrunedTypes
  <2>6. CASE backups' = Pruned(grown) /\ Len(grown) > KeepConfigBackups
    <3> DEFINE first == Len(grown) - KeepConfigBackups + 1
    <3>1. Len(grown) \in Nat /\ KeepConfigBackups \in Nat /\ first \in 1..(Len(grown) + 1)
      BY <2>2, <2>6, KeepAssumption
    <3>2. backups' = SubSeq(grown, first, Len(grown))
      BY <2>6, <3>1 DEF Pruned
    <3>3. backups'[j] = grown[first + j - 1] /\ first + j - 1 \in 1..Len(grown)
      BY <2>2, <2>6, <3>1, <3>2, SubSeqProperties
    <3>4. QED
      BY <2>1, <2>3, <3>3
  <2>7. QED
    BY <2>1, <2>2, <2>4, <2>5, <2>6, KeepAssumption DEF grown
<1>3. QED
  BY <1>1, <1>2

\* Nobody comes back to before SaveEnv.
LEMMA UnsavedBefore ==
    ASSUME TypeInv, [Next]_vars, NEW u \in Upgrades, pc'[u] \in Unsaved
    PROVE  pc[u] \in Unsaved
<1>1. u \in Procs /\ u \notin Writers /\ pc \in [Procs -> Steps]
  BY UpgradeTypes DEF TypeInv, ProcTypes
<1>2. ASSUME NEW p \in Procs, Approaches(p) PROVE pc[u] \in Unsaved
  <2>1. p # u => pc'[u] = pc[u]
    BY <1>1, <1>2, ApproachTypes
  <2>2. p = u => pc[u] \in {"open", "wait"}
    BY <1>2 DEF Approaches, OpenLock, AcquireConfigLock, ErrLockBusy, At
  <2>3. QED
    BY <2>1, <2>2 DEF Unsaved
<1>3. ASSUME NEW p \in Procs, Kill(p) PROVE pc'[u] = pc[u]
  <2>1. pc'[p] = "error" /\ \A q \in Procs \ {p} : pc'[q] = pc[q]
    BY <1>3, KillMoves DEF Moves
  <2>2. QED
    BY <1>1, <2>1 DEF Unsaved
<1>4. ASSUME NEW v \in Upgrades, v # u, Upgrade(v) PROVE pc'[u] = pc[u]
  BY <1>1, <1>4, UpgradeMoves DEF Moves
<1>5. ASSUME NEW w \in Writers, Read(w) \/ Write(w) PROVE pc'[u] = pc[u]
  BY <1>1, <1>5, ReadMoves, WriteMoves DEF Moves
<1>6. CASE Upgrade(u)
  <2>1. ASSUME NEW s, s \notin Unsaved, pc' = [pc EXCEPT ![u] = s] PROVE FALSE
    BY <1>1, <2>1
  <2>2. \/ EnsureRuntimeBinaries(u) \/ LoadUpgradeEnv(u) \/ BackfillHy2(u)
        \/ ReRenderInPlace(u) \/ BackupConfig(u) \/ Prepare(u) \/ WriteXrayConfig(u)
        \/ WriteCloudflaredConfig(u) \/ UpsertVpnRecord(u) \/ UpsertHy2Record(u) \/ RestartXray(u)
        \/ SaveEnv(u) \/ pc'[u] \notin Unsaved
    <3>1. CASE RegenerateSubscriptions(u) \/ Finish(u) \/ DeleteCreated(u) \/ RestartMutated(u)
               \/ RemoveConfigDir(u)
      BY <2>1, <3>1 DEF RegenerateSubscriptions, Finish, DeleteCreated, RestartMutated,
         RemoveConfigDir, GoTo, End, Become, Unsaved
    <3>2. ASSUME NEW f \in Files, RestoreFile(u, f) PROVE FALSE
      <4>1. pc[u] = "restore" /\ (pc' = pc \/ pc' = [pc EXCEPT ![u] = "error"])
        BY <3>2 DEF RestoreFile, At, End, Become
      <4>2. QED
        BY <1>1, <4>1 DEF Unsaved
    <3>3. QED
      BY <1>6, <3>1, <3>2 DEF Upgrade
  <2>3. QED
    BY <2>2 DEF EnsureRuntimeBinaries, LoadUpgradeEnv, BackfillHy2, ReRenderInPlace, BackupConfig,
       Prepare, WriteXrayConfig, WriteCloudflaredConfig, UpsertVpnRecord, UpsertHy2Record,
       RestartXray, SaveEnv, At, Unsaved
<1>7. QED
  BY <1>2, <1>3, <1>4, <1>5, <1>6, NextCases DEF vars

\* The four steps that write or remove cfvpn.env.
LEMMA EnvSteps ==
    ASSUME TypeInv, [Next]_vars
    PROVE  \/ dir'["env"] = dir["env"]
           \/ \E u \in Upgrades : SaveEnv(u) \/ RemoveConfigDir(u) \/ RestoreFile(u, "env")
           \/ \E u \in Upgrades : pc[u] = "remove" /\ Kill(u)
<1>1. dir \in Contents
  BY DEF TypeInv, DataTypes
<1>2. ASSUME NEW p \in Procs, Approaches(p) PROVE dir' = dir
  BY <1>2, ApproachTypes
<1>3. ASSUME NEW p \in Procs, Kill(p), ~(p \in Upgrades /\ pc[p] = "remove") PROVE dir' = dir
  <2>1. ~At(p, "remove")
    BY <1>3 DEF At, TypeInv, ProcTypes, Ended, WriterSteps, Procs
  <2>2. QED
    BY <1>3, <2>1 DEF Kill
<1>4. ASSUME NEW w \in Writers, Read(w) \/ Write(w) PROVE dir'["env"] = dir["env"]
  BY <1>1, <1>4 DEF Read, Write, Contents
<1>5. ASSUME NEW u \in Upgrades, NEW f \in Files \ {"env"}, RestoreFile(u, f)
      PROVE  dir'["env"] = dir["env"]
  BY <1>1, <1>5 DEF RestoreFile, Contents, Files
<1>6. ASSUME NEW u \in Upgrades,
             BackfillHy2(u) \/ WriteXrayConfig(u) \/ WriteCloudflaredConfig(u) \/ ReRenderInPlace(u)
      PROVE  dir'["env"] = dir["env"]
  BY <1>1, <1>6 DEF BackfillHy2, WriteXrayConfig, WriteCloudflaredConfig, ReRenderInPlace, Contents
<1>7. ASSUME NEW u \in Upgrades,
             \/ EnsureRuntimeBinaries(u) \/ LoadUpgradeEnv(u) \/ BackupConfig(u) \/ UpsertVpnRecord(u)
             \/ UpsertHy2Record(u) \/ RestartXray(u) \/ RegenerateSubscriptions(u) \/ Finish(u)
             \/ DeleteCreated(u) \/ RestartMutated(u) \/ Prepare(u)
      PROVE  dir' = dir
  BY <1>7 DEF EnsureRuntimeBinaries, LoadUpgradeEnv, BackupConfig, UpsertVpnRecord, Prepare,
     UpsertHy2Record, RestartXray, RegenerateSubscriptions, Finish, DeleteCreated, RestartMutated
<1>8. ASSUME NEW u \in Upgrades, Upgrade(u)
      PROVE  \/ dir'["env"] = dir["env"]
             \/ SaveEnv(u) \/ RemoveConfigDir(u) \/ RestoreFile(u, "env")
  BY <1>5, <1>6, <1>7, <1>8 DEF Upgrade
<1>9. QED
  BY <1>2, <1>3, <1>4, <1>8, NextCases DEF vars

\* Where the host in cfvpn.env comes from.
LEMMA EnvHosts ==
    ASSUME TypeInv, [Next]_vars
    PROVE  \/ HostOf(dir'["env"]) \in {HostOf(dir["env"]), Old}
           \/ \E i \in 1..Len(backups) : dir'["env"] = backups[i].files["env"]
           \/ \E u \in Upgrades : /\ pc[u] = "save_env" /\ pc'[u] \notin Unsaved
                                  /\ HostOf(dir'["env"]) = local[u].env.host
<1>1. dir \in Contents
  BY DEF TypeInv, DataTypes
<1>2. ASSUME dir'["env"] \in {dir["env"], Missing} PROVE HostOf(dir'["env"]) \in {HostOf(dir["env"]), Old}
  BY <1>2 DEF HostOf
<1>3. ASSUME NEW u \in Upgrades, RemoveConfigDir(u) \/ (pc[u] = "remove" /\ Kill(u))
      PROVE  dir'["env"] \in {dir["env"], Missing}
  BY <1>3 DEF RemoveConfigDir, Kill, CutOff, Files
<1>4. ASSUME NEW u \in Upgrades, RestoreFile(u, "env")
      PROVE  \/ dir'["env"] \in {dir["env"], Missing}
             \/ \E i \in 1..Len(backups) : dir'["env"] = backups[i].files["env"]
  <2>1. CASE dir' = [dir EXCEPT !["env"] = Missing]
    BY <1>1, <2>1 DEF Contents
  <2>2. CASE \E d \in BackupsOf(u) : dir' = IF d["env"] = Missing THEN dir ELSE [dir EXCEPT !["env"] = d["env"]]
    <3>1. PICK d \in BackupsOf(u) : dir' = IF d["env"] = Missing THEN dir ELSE [dir EXCEPT !["env"] = d["env"]]
      BY <2>2
    <3>2. dir'["env"] \in {dir["env"], d["env"]}
      BY <1>1, <3>1 DEF Contents
    <3>3. QED
      BY <3>2, BackupsOfTypes
  <2>3. QED
    BY <1>4, <2>1, <2>2 DEF RestoreFile
<1>5. ASSUME NEW u \in Upgrades, SaveEnv(u), dir'["env"] # dir["env"]
      PROVE  /\ pc[u] = "save_env" /\ pc'[u] \notin Unsaved
             /\ HostOf(dir'["env"]) = local[u].env.host
  <2>1. pc[u] = "save_env" /\ dir' = [dir EXCEPT !["env"] = local[u].env]
    BY <1>5 DEF SaveEnv, At
  <2>2. local[u].env \in Env
    BY <2>1, UpgradeTypes, PastSteps DEF UpgradeLocal, Env
  <2>3. dir'["env"] = local[u].env /\ local[u].env # Missing
    BY <1>1, <2>1, <2>2, MarksAssumption DEF Contents
  <2>4. pc' = [pc EXCEPT ![u] = "subscriptions"] \/ pc' = [pc EXCEPT ![u] = "delete_created"]
    BY <1>5 DEF SaveEnv, GoTo, Become
  <2>5. pc'[u] \notin Unsaved
    BY <2>4, UpgradeTypes DEF TypeInv, ProcTypes, Unsaved
  <2>6. QED
    BY <2>1, <2>3, <2>5 DEF HostOf
<1>6. QED
  BY <1>2, <1>3, <1>4, <1>5, EnvSteps

LEMMA RecordsDiffer ==
    ASSUME NEW g, NEW h
    PROVE  /\ A(g) = A(h) => g = h
           /\ A(g) # Hy2(h) /\ A(g) # Cname(h) /\ Cname(g) # Hy2(h)
BY DEF A, Hy2, Cname

\* The records an upgrade may delete again: of hosts, the one it generated.
CreatedGrow(u, kept) ==
    \A h \in Hosts :
        /\ Cname(h) \in kept.created => Cname(h) \in local[u].created
        /\ A(h) \in kept.created =>
             A(h) \in local[u].created \/ (local[u].env.mode = "direct" /\ h = local[u].env.host)

\* What an upgrade at work keeps it has loaded under the lock, and only adds to.
LEMMA KeptSteps ==
    ASSUME TypeInv, [Next]_vars, NEW u \in Upgrades, pc'[u] \in Working
    PROVE  \/ /\ pc[u] \in Working /\ local'[u].env = local[u].env
              /\ CreatedGrow(u, local'[u])
           \/ /\ pc[u] = "load" /\ local'[u].env.host \in {u, HostOf(dir["env"])}
              /\ local'[u].env.mode = "direct" => local'[u].env.host = u
              /\ local'[u].created = {}
<1> DEFINE Stays == /\ pc[u] \in Working /\ local'[u].env = local[u].env
                    /\ CreatedGrow(u, local'[u])
           Loads == /\ pc[u] = "load" /\ local'[u].env.host \in {u, HostOf(dir["env"])}
                    /\ local'[u].env.mode = "direct" => local'[u].env.host = u
                    /\ local'[u].created = {}
<1>1. /\ u \in Procs /\ u \notin Writers /\ pc \in [Procs -> Steps] /\ local \in [Procs -> Kept]
      /\ pc[u] \in Working => local[u] \in UpgradeLocal
  BY UpgradeTypes DEF TypeInv, ProcTypes
<1>2. ASSUME pc[u] \in Working, local'[u] = local[u] PROVE Stays
  BY <1>2 DEF CreatedGrow
<1>3. ASSUME pc'[u] = pc[u], local'[u] = local[u] PROVE Stays
  BY <1>2, <1>3
<1>4. ASSUME NEW p \in Procs, Approaches(p) PROVE Stays
  <2>1. p # u
    <3>1. ASSUME p = u PROVE pc'[u] \in {"wait", "binaries", "read", "error"}
      BY <1>1, <1>4, <3>1 DEF Approaches, OpenLock, AcquireConfigLock, ErrLockBusy, Become
    <3>2. Working \cap {"wait", "binaries", "read", "error"} = {}
      BY DEF Working, Past, InCore, InRollback
    <3>3. QED
      BY <3>1, <3>2
  <2>2. QED
    BY <1>1, <1>3, <1>4, <2>1, ApproachTypes
<1>5. ASSUME NEW p \in Procs, Kill(p) PROVE Stays
  <2>1. pc'[p] = "error" /\ \A q \in Procs \ {p} : pc'[q] = pc[q] /\ local'[q] = local[q]
    BY <1>5, KillMoves DEF Moves
  <2>2. p # u
    BY <2>1, StepSets, PastSteps
  <2>3. QED
    BY <1>1, <1>3, <2>1, <2>2
<1>6. ASSUME NEW v \in Upgrades, v # u, Upgrade(v) PROVE Stays
  BY <1>1, <1>3, <1>6, UpgradeMoves DEF Moves
<1>7. ASSUME NEW w \in Writers, Read(w) \/ Write(w) PROVE Stays
  BY <1>1, <1>3, <1>7, ReadMoves, WriteMoves DEF Moves
<1>8. ASSUME NEW result \in Ended, End(u, result) PROVE FALSE
  <2>1. pc'[u] = result
    BY <1>1, <1>8 DEF End, Become
  <2>2. QED
    BY <2>1, StepSets
<1>9. ASSUME NEW s, GoTo(u, s), pc[u] \in Working PROVE Stays
  BY <1>2, <1>9 DEF GoTo
<1>10. ASSUME LoadUpgradeEnv(u) PROVE Loads
  <2> DEFINE env == dir["env"]
  <2>1. pc[u] = "load" /\ env # Missing
    BY <1>8, <1>10, PastSteps DEF LoadUpgradeEnv, At
  <2>2. PICK mode \in Modes : local' = [local EXCEPT ![u] =
                     [env |-> [host |-> IF mode = "direct" THEN u ELSE env.host,
                               hy2 |-> IF env.hy2 = None THEN u ELSE env.hy2, mode |-> mode],
                      users |-> {}, created |-> {}, mutated |-> FALSE,
                      todo |-> Files]]
    BY <1>10, <2>1 DEF LoadUpgradeEnv
  <2>3. /\ local'[u].env.host = (IF mode = "direct" THEN u ELSE env.host)
        /\ local'[u].env.mode = mode /\ local'[u].created = {}
    BY <1>1, <2>2
  <2>4. HostOf(env) = env.host
    BY <2>1 DEF HostOf
  <2>5. QED
    BY <2>1, <2>3, <2>4
<1>11. ASSUME EnsureRuntimeBinaries(u) PROVE FALSE
  <2>1. pc'[u] = "load"
    BY <1>1, <1>8, <1>11, PastSteps DEF EnsureRuntimeBinaries, GoTo, Become
  <2>2. QED
    BY <2>1 DEF Working, Past, InCore, InRollback
<1>12. ASSUME Prepare(u) \/ RestartXray(u) PROVE Stays
  <2>1. pc[u] \in Working
    BY <1>12, PastSteps DEF Prepare, RestartXray, At
  <2>2. \/ local' = local \/ local' = [local EXCEPT ![u].users = dir["xray"].users]
        \/ local' = [local EXCEPT ![u].mutated = TRUE]
    BY <1>12 DEF Prepare, RestartXray, GoTo
  <2>3. local'[u].env = local[u].env /\ local'[u].created = local[u].created
    BY <1>1, <2>1, <2>2 DEF UpgradeLocal
  <2>4. QED
    BY <2>1, <2>3 DEF CreatedGrow
<1>13. ASSUME UpsertVpnRecord(u) PROVE Stays
  <2>1. pc[u] \in Working /\ pc[u] \in Past /\ local[u].env.host \in Hosts
    BY <1>1, <1>13, PastSteps DEF UpsertVpnRecord, At, UpgradeLocal
  <2>2. CASE local[u].env.mode = "direct" /\ UpsertA(u, A(local[u].env.host), "upsert_hy2")
    <3>1. /\ local'[u].env = local[u].env
          /\ local'[u].created \subseteq local[u].created \cup {A(local[u].env.host)}
      BY <2>1, <2>2, UpsertMoves, RecordTypes, PastSteps
    <3>2. QED
      BY <2>1, <2>2, <3>1, RecordsDiffer DEF CreatedGrow
  <2>3. CASE local[u].env.mode # "direct"
    BY <1>9, <1>13, <2>1, <2>3 DEF UpsertVpnRecord
  <2>4. QED
    BY <1>13, <2>2, <2>3 DEF UpsertVpnRecord
<1>14. ASSUME UpsertHy2Record(u) PROVE Stays
  <2>1. pc[u] \in Working /\ pc[u] \in Past /\ local[u].env.hy2 \in Hosts
    BY <1>1, <1>14, PastSteps DEF UpsertHy2Record, At, UpgradeLocal
  <2>2. /\ local'[u].env = local[u].env
        /\ local'[u].created \subseteq local[u].created \cup {Hy2(local[u].env.hy2)}
    BY <1>14, <2>1, UpsertMoves, RecordTypes, PastSteps DEF UpsertHy2Record
  <2>3. QED
    BY <2>1, <2>2, RecordsDiffer DEF CreatedGrow
<1>15. ASSUME NEW f \in Files, RestoreFile(u, f) PROVE Stays
  <2>1. pc[u] \in Working
    BY <1>15, PastSteps DEF RestoreFile, At
  <2>2. local' = [local EXCEPT ![u].todo = @ \ {f}]
    BY <1>8, <1>15, PastSteps DEF RestoreFile
  <2>3. local'[u].env = local[u].env /\ local'[u].created = local[u].created
    BY <1>1, <2>1, <2>2 DEF UpgradeLocal
  <2>4. QED
    BY <2>1, <2>3 DEF CreatedGrow
<1>16. ASSUME RemoveConfigDir(u) PROVE Stays
  <2>1. pc[u] \in Working
    BY <1>16, PastSteps DEF RemoveConfigDir, At
  <2>2. pc'[u] # "error"
    BY StepSets, PastSteps
  <2>3. local' = local
    BY <1>1, <1>16, <2>2 DEF RemoveConfigDir, Become
  <2>4. QED
    BY <1>2, <2>1, <2>3
<1>17. ASSUME \/ BackfillHy2(u) \/ BackupConfig(u) \/ WriteXrayConfig(u) \/ WriteCloudflaredConfig(u)
              \/ SaveEnv(u) \/ RegenerateSubscriptions(u) \/ Finish(u) \/ DeleteCreated(u)
       PROVE  Stays
  <2>1. pc[u] \in Working
    BY <1>17, PastSteps DEF BackfillHy2, BackupConfig, WriteXrayConfig, WriteCloudflaredConfig,
       SaveEnv, RegenerateSubscriptions, Finish, DeleteCreated, At, Working
  <2>2. \E s : GoTo(u, s)
    BY <1>8, <1>17, PastSteps DEF BackfillHy2, BackupConfig, WriteXrayConfig, WriteCloudflaredConfig,
       SaveEnv, RegenerateSubscriptions, Finish, DeleteCreated
  <2>3. QED
    BY <1>9, <2>1, <2>2
<1>18. ASSUME ReRenderInPlace(u) \/ RestartMutated(u) PROVE FALSE
  <2>1. "same" \in Ended
    BY DEF Ended
  <2>2. QED
    BY <1>8, <1>18, <2>1, PastSteps DEF ReRenderInPlace, RestartMutated
<1>19. CASE Upgrade(u)
  BY <1>10, <1>11, <1>12, <1>13, <1>14, <1>15, <1>16, <1>17, <1>18, <1>19 DEF Upgrade
<1>20. CASE UNCHANGED vars
  BY <1>3, <1>20 DEF vars
<1>21. QED
  BY <1>4, <1>5, <1>6, <1>7, <1>19, <1>20, NextCases

LEMMA NamesStep == TypeInv /\ NamesInv /\ [Next]_vars => NamesInv'
<1>1. SUFFICES ASSUME TypeInv, NamesInv, [Next]_vars PROVE NamesInv'
  OBVIOUS
<1>2. Old \notin Upgrades /\ Unsaved \cap Past # {} /\ "backup" \in Unsaved /\ "backup" \in Working
  BY ProcsAssumption DEF Procs, Unsaved, Past, InCore, Working
<1>3. ASSUME NEW u \in Upgrades, pc'[u] \in Unsaved PROVE HostOf(dir'["env"]) # u
  <2>1. pc[u] \in Unsaved
    BY <1>1, <1>3, UnsavedBefore
  <2>2. CASE HostOf(dir'["env"]) \in {HostOf(dir["env"]), Old}
    BY <1>1, <1>2, <2>1, <2>2 DEF NamesInv
  <2>3. CASE \E i \in 1..Len(backups) : dir'["env"] = backups[i].files["env"]
    BY <1>1, <2>1, <2>3 DEF NamesInv
  <2>4. ASSUME NEW v \in Upgrades, pc[v] = "save_env", pc'[v] \notin Unsaved,
               HostOf(dir'["env"]) = local[v].env.host
        PROVE  HostOf(dir'["env"]) # u
    BY <1>1, <1>3, <2>1, <2>4, PastSteps DEF NamesInv
  <2>5. QED
    BY <1>1, <2>2, <2>3, <2>4, EnvHosts
<1>4. ASSUME NEW u \in Upgrades, pc'[u] \in Unsaved, NEW j \in 1..Len(backups')
      PROVE  HostOf(backups'[j].files["env"]) # u
  <2>1. pc[u] \in Unsaved
    BY <1>1, <1>4, UnsavedBefore
  <2>2. CASE \E i \in 1..Len(backups) : backups'[j] = backups[i]
    BY <1>1, <2>1, <2>2 DEF NamesInv
  <2>3. CASE \E v \in Upgrades : \E b \in BackupBy(v) : pc[v] = "backup" /\ backups'[j] = b
    <3>1. HostOf(backups'[j].files["env"]) \in {HostOf(dir["env"]), Old}
      BY <2>3 DEF BackupBy, HostOf
    <3>2. QED
      BY <1>1, <1>2, <2>1, <3>1 DEF NamesInv
  <2>4. QED
    BY <1>1, <2>2, <2>3, BackupElements
<1>5. ASSUME NEW u \in Upgrades, pc'[u] \in Unsaved, NEW v \in Upgrades \ {u}, pc'[v] \in Working
      PROVE  local'[v].env.host # u
  <2>1. pc[u] \in Unsaved
    BY <1>1, <1>5, UnsavedBefore
  <2>2. CASE pc[v] \in Working /\ local'[v].env = local[v].env
    BY <1>1, <2>1, <2>2 DEF NamesInv
  <2>3. CASE local'[v].env.host \in {v, HostOf(dir["env"])}
    BY <1>1, <2>1, <2>3 DEF NamesInv
  <2>4. QED
    BY <1>1, <1>5, <2>2, <2>3, KeptSteps
<1>6. ASSUME NEW j \in 1..Len(backups')
      PROVE  HostOf(backups'[j].files["env"]) # backups'[j].by
  <2>1. CASE \E i \in 1..Len(backups) : backups'[j] = backups[i]
    BY <1>1, <2>1 DEF NamesInv
  <2>2. ASSUME NEW v \in Upgrades, NEW b \in BackupBy(v), pc[v] = "backup", backups'[j] = b
        PROVE  HostOf(backups'[j].files["env"]) # backups'[j].by
    <3>1. HostOf(b.files["env"]) \in {HostOf(dir["env"]), Old} /\ b.by = v
      BY <2>2 DEF BackupBy, HostOf
    <3>2. HostOf(dir["env"]) # v
      BY <1>1, <1>2, <2>2 DEF NamesInv
    <3>3. QED
      BY <1>2, <2>2, <3>1, <3>2
  <2>3. QED
    BY <1>1, <2>1, <2>2, BackupElements
<1>7. ASSUME NEW u \in Upgrades, pc'[u] \in Working
      PROVE  /\ local'[u].env.mode = "direct" => local'[u].env.host = u
             /\ \A h \in Hosts : Cname(h) \notin local'[u].created
                                 /\ (A(h) \in local'[u].created => h = u)
  <2>1. CASE pc[u] \in Working /\ local'[u].env = local[u].env /\ CreatedGrow(u, local'[u])
    BY <1>1, <2>1 DEF NamesInv, CreatedGrow
  <2>2. CASE /\ local'[u].env.mode = "direct" => local'[u].env.host = u
             /\ local'[u].created = {}
    BY <2>2
  <2>3. QED
    BY <1>1, <1>7, <2>1, <2>2, KeptSteps
<1>8. QED
  BY <1>3, <1>4, <1>5, <1>6, <1>7 DEF NamesInv

LEMMA InitNames == Init => NamesInv
<1>1. SUFFICES ASSUME Init PROVE NamesInv
  OBVIOUS
<1>2. HostOf(dir["env"]) = Old
  <2>1. PICK env \in [host : {Old}, hy2 : {Old, None}, mode : Modes] :
          dir = [f \in Files |->
                    CASE f = "env" -> env
                      [] f = "cloudflared" -> env.mode
                      [] f = "hysteria" -> env.hy2
                      [] f = "xray" -> [mode |-> env.mode, users |-> {}]]
    BY <1>1 DEF Init
  <2>2. dir["env"] = env /\ env.host = Old
    BY <2>1 DEF Files
  <2>3. QED
    BY <2>2 DEF HostOf
<1>3. Old \notin Upgrades /\ backups = <<>> /\ Len(backups) = 0
  BY <1>1, ProcsAssumption, EmptySeq DEF Init, Procs
<1>4. \A u \in Upgrades : pc[u] \notin Working
  BY <1>1 DEF Init, Procs, Working, Past, InCore, InRollback
<1>5. QED
  BY <1>2, <1>3, <1>4 DEF NamesInv

\* The lock file is replaced only by a rollback.
LEMMA LockFileSteps ==
    ASSUME TypeInv, [Next]_vars, lockFile = Old, lockFile' # Old
    PROVE  \E u \in Upgrades : pc[u] \in InRollback
<1>1. ASSUME NEW p \in Procs, Approaches(p) PROVE FALSE
  BY <1>1, MarksAssumption DEF Approaches, OpenLock, AcquireConfigLock, ErrLockBusy, Inodes
<1>2. ASSUME NEW p \in Procs, Kill(p) PROVE p \in Upgrades /\ pc[p] = "remove"
  <2>1. pc[p] = "remove"
    BY <1>2 DEF Kill, At
  <2>2. QED
    BY <2>1 DEF TypeInv, ProcTypes, Ended, WriterSteps, Procs
<1>3. ASSUME NEW w \in Writers, Read(w) \/ Write(w) PROVE FALSE
  BY <1>3 DEF Read, Write, End, locks
<1>4. ASSUME NEW u \in Upgrades, Upgrade(u)
      PROVE  RemoveConfigDir(u) \/ \E f \in Files : RestoreFile(u, f)
  BY <1>4 DEF Upgrade, EnsureRuntimeBinaries, LoadUpgradeEnv, BackfillHy2,
     ReRenderInPlace, BackupConfig, Prepare, WriteXrayConfig, WriteCloudflaredConfig, UpsertA,
     UpsertVpnRecord, UpsertHy2Record, RestartXray, SaveEnv, RegenerateSubscriptions, Finish,
     DeleteCreated, RestartMutated, GoTo, End, locks
<1>5. QED
  BY <1>1, <1>2, <1>3, <1>4, NextCases, PastSteps DEF RemoveConfigDir, RestoreFile, At, vars

LEMMA CountStep == TypeInv /\ CountInv /\ [Next]_vars => CountInv'
<1>1. SUFFICES ASSUME TypeInv, CountInv, [Next]_vars PROVE CountInv'
  OBVIOUS
<1>2. backups \in Seq(BackupSet) /\ Len(backups) \in Nat
  BY <1>1, LenProperties DEF TypeInv, DataTypes
<1>3. Len(backups) # 0 => Len(backups') # 0 /\ (Len(backups') = 1 => backups' = backups)
  BY <1>1, BackupLengths
<1>4. lockFile' # Old => Len(backups') # 0
  <2>1. CASE lockFile # Old
    BY <1>1, <1>3, <2>1 DEF CountInv
  <2>2. CASE lockFile = Old /\ lockFile' # Old
    BY <1>1, <1>3, <2>2, LockFileSteps, PastSteps DEF CountInv
  <2>3. QED
    BY <2>1, <2>2
<1>5. ASSUME NEW u \in Upgrades, pc'[u] \in Past
      PROVE  Len(backups') # 0 /\ (Len(backups') = 1 => backups'[1].by = u)
  <2>1. CASE pc[u] \in Past
    BY <1>1, <1>3, <2>1 DEF CountInv
  <2>2. CASE pc[u] \notin Past
    <3> DEFINE b == Backup(u, dir)
               grown == Append(backups, b)
    <3>1. backups' \in {grown, Pruned(grown)}
      BY <1>1, <1>5, <2>2, PastFollowsBackup
    <3>2. b \in BackupSet /\ b.by = u
      BY <1>1 DEF TypeInv, DataTypes, Backup, BackupSet
    <3>3. /\ grown \in Seq(BackupSet) /\ Len(grown) = Len(backups) + 1
          /\ grown[Len(backups) + 1] = b
      BY <1>2, <3>2, AppendProperties
    <3> HIDE DEF grown
    <3>4. CASE backups' = grown
      BY <1>2, <3>2, <3>3, <3>4
    <3>5. CASE backups' # grown
      <4>1. Len(grown) > KeepConfigBackups /\ Len(backups') = KeepConfigBackups
        BY <1>2, <3>1, <3>3, <3>5, PrunedTypes, KeepAssumption
      <4>2. QED
        BY <4>1, KeepAssumption
    <3>6. QED
      BY <3>4, <3>5
  <2>3. QED
    BY <2>1, <2>2
<1>6. QED
  BY <1>4, <1>5 DEF CountInv

LEMMA InitCount == Init => CountInv
BY DEF Init, CountInv, Procs, Past, InCore, InRollback

\* While one lock, or one backup, is there, one upgrade alone is past its backup.
LEMMA OnePast ==
    ASSUME TypeInv, LockInv, CountInv, OneAtWork, NEW u \in Upgrades, NEW v \in Upgrades,
           pc[u] \in Past, pc[v] \in Past
    PROVE  u = v
BY OneHolder, PastSteps, UpgradeTypes DEF OneAtWork, CountInv

\* OneAtWork is lost for good.
LEMMA OneAtWorkBefore ==
    ASSUME TypeInv, CountInv, [Next]_vars, OneAtWork'
    PROVE  /\ OneAtWork
           /\ backups' # backups /\ Len(backups') = 1 => Len(backups) = 0 /\ lockFile = Old
<1>1. lockFile' = Old => lockFile = Old
  <2>1. ASSUME NEW p \in Procs, Approaches(p) PROVE lockFile' = Old => lockFile = Old
    BY <2>1, ProcsAssumption DEF Approaches, OpenLock, AcquireConfigLock, ErrLockBusy
  <2>2. ASSUME NEW p \in Procs, Moves(p) PROVE lockFile' = Old => lockFile = Old
    BY <2>2, ProcsAssumption, MarksAssumption DEF Moves, Inodes
  <2>3. QED
    BY <2>1, <2>2, NextCases, KillMoves, UpgradeMoves, ReadMoves, WriteMoves DEF Procs, vars
<1>2. Len(backups) = 0 => lockFile = Old
  BY DEF CountInv
<1>3. QED
  BY <1>1, <1>2, BackupLengths DEF OneAtWork

LEMMA FaultsGrow ==
    ASSUME TypeInv, [Next]_vars
    PROVE  faults \in Nat /\ faults' \in {faults, faults + 1}
<1>1. faults \in Nat
  BY FaultsAssumption DEF TypeInv, DataTypes
<1>2. ASSUME NEW p \in Procs, Approaches(p) PROVE faults' = faults
  BY <1>2, ApproachTypes
<1>3. ASSUME NEW p \in Procs, Kill(p) PROVE faults' = faults + 1
  BY <1>3 DEF Kill, Fault
<1>4. ASSUME NEW w \in Writers, Read(w) \/ Write(w) PROVE faults' \in {faults, faults + 1}
  BY <1>4 DEF Read, Write, Fault, NoFault
<1>5. ASSUME NEW u \in Upgrades, Upgrade(u) PROVE faults' = faults \/ NoFault \/ Fault
  BY <1>5 DEF Upgrade, EnsureRuntimeBinaries, LoadUpgradeEnv, BackfillHy2, ReRenderInPlace,
     BackupConfig, Prepare, WriteXrayConfig, WriteCloudflaredConfig, UpsertA, UpsertVpnRecord,
     UpsertHy2Record, RestartXray, SaveEnv, RegenerateSubscriptions, Finish, DeleteCreated,
     RemoveConfigDir, RestoreFile, RestartMutated
<1>6. QED
  BY <1>1, <1>2, <1>3, <1>4, <1>5, NextCases DEF vars, Fault, NoFault

\* An upgrade is moved by its own steps, its death included.
LEMMA OwnMove ==
    ASSUME TypeInv, [Next]_vars, NEW u \in Upgrades, pc'[u] # pc[u]
    PROVE  Upgrade(u) \/ Kill(u) \/ Approaches(u)
<1>1. u \in Procs /\ u \notin Writers
  BY UpgradeTypes
<1>2. ASSUME NEW p \in Procs, p # u, Approaches(p) \/ Kill(p) PROVE pc'[u] = pc[u]
  BY <1>1, <1>2, ApproachTypes, KillMoves DEF Moves
<1>3. ASSUME NEW v \in Upgrades, v # u, Upgrade(v) PROVE pc'[u] = pc[u]
  BY <1>1, <1>3, UpgradeMoves DEF Moves
<1>4. ASSUME NEW w \in Writers, Read(w) \/ Write(w) PROVE pc'[u] = pc[u]
  BY <1>1, <1>4, ReadMoves, WriteMoves DEF Moves
<1>5. QED
  BY <1>2, <1>3, <1>4, NextCases DEF vars

\* The three steps that change the records.
LEMMA DnsSteps ==
    ASSUME TypeInv, [Next]_vars
    PROVE  \/ dns \subseteq dns'
           \/ \E u \in Upgrades : /\ DeleteCreated(u) /\ pc[u] = "delete_created"
                                  /\ dns \ local[u].created \subseteq dns'
<1>1. ASSUME NEW p \in Procs, Approaches(p) \/ Kill(p) PROVE dns' = dns
  BY <1>1, ApproachTypes DEF Kill, outside
<1>2. ASSUME NEW w \in Writers, Read(w) \/ Write(w) PROVE dns' = dns
  BY <1>2 DEF Read, Write, outside
<1>3. ASSUME NEW u \in Upgrades, UpsertVpnRecord(u) \/ UpsertHy2Record(u) PROVE dns \subseteq dns'
  BY <1>3 DEF UpsertVpnRecord, UpsertHy2Record, UpsertA
<1>4. ASSUME NEW u \in Upgrades, DeleteCreated(u)
      PROVE  pc[u] = "delete_created" /\ dns \ local[u].created \subseteq dns'
  BY <1>4 DEF DeleteCreated, At
<1>5. ASSUME NEW u \in Upgrades, Upgrade(u)
      PROVE  dns' = dns \/ UpsertVpnRecord(u) \/ UpsertHy2Record(u) \/ DeleteCreated(u)
  BY <1>5 DEF Upgrade, EnsureRuntimeBinaries, LoadUpgradeEnv, BackfillHy2, ReRenderInPlace,
     BackupConfig, Prepare, WriteXrayConfig, WriteCloudflaredConfig, RestartXray, SaveEnv,
     RegenerateSubscriptions, Finish, RemoveConfigDir, RestoreFile, RestartMutated, outside
<1>6. QED
  BY <1>1, <1>2, <1>3, <1>4, <1>5, NextCases DEF vars

\* How a rollback ends.
LEMMA RollbackLeft ==
    ASSUME TypeInv, [Next]_vars, NEW u \in Upgrades, pc[u] \in InRollback, pc'[u] \notin InRollback
    PROVE  \/ Fault
           \/ RestartMutated(u)
           \/ pc[u] = "restore" /\ BackupsOf(u) = {}
<1>1. u \in Procs /\ pc \in [Procs -> Steps]
  BY UpgradeTypes DEF TypeInv, ProcTypes
<1>2. ~Approaches(u)
  BY <1>1, ApproachTypes, PastSteps
<1>3. CASE Kill(u)
  BY <1>3 DEF Kill
<1>4. CASE Upgrade(u)
  <2>1. DeleteCreated(u) \/ RemoveConfigDir(u) \/ RestartMutated(u) \/ \E f \in Files : RestoreFile(u, f)
    BY <1>4 DEF Upgrade, EnsureRuntimeBinaries, LoadUpgradeEnv, BackfillHy2, ReRenderInPlace,
       BackupConfig, Prepare, WriteXrayConfig, WriteCloudflaredConfig, UpsertVpnRecord,
       UpsertHy2Record, RestartXray, SaveEnv, RegenerateSubscriptions, Finish, At, InRollback
  <2>2. ASSUME NEW s \in InRollback, Become(u, s) PROVE FALSE
    BY <1>1, <2>2 DEF Become
  <2>3. ~DeleteCreated(u)
    BY <2>2, PastSteps DEF DeleteCreated, GoTo
  <2>4. CASE RemoveConfigDir(u)
    BY <2>2, <2>4, PastSteps DEF RemoveConfigDir
  <2>5. ASSUME NEW f \in Files, RestoreFile(u, f) PROVE Fault \/ (pc[u] = "restore" /\ BackupsOf(u) = {})
    BY <2>5 DEF RestoreFile, At
  <2>6. QED
    BY <2>1, <2>3, <2>4, <2>5
<1>5. QED
  BY <1>2, <1>3, <1>4, OwnMove

\* A rollback that no failure of the environment begins comes before SaveEnv.
LEMMA RollbackEntered ==
    ASSUME TypeInv, [Next]_vars, NEW u \in Upgrades, pc[u] \notin InRollback, pc'[u] \in InRollback,
           faults' = faults
    PROVE  pc[u] \in Unsaved /\ dir' = dir
<1>1. u \in Procs /\ pc \in [Procs -> Steps] /\ faults \in Nat
  BY UpgradeTypes, FaultsGrow DEF TypeInv, ProcTypes
<1>2. ~Fault
  BY <1>1 DEF Fault
<1>3. ASSUME NEW s, s \notin InRollback, pc' = [pc EXCEPT ![u] = s] PROVE FALSE
  BY <1>1, <1>3
<1>4. {"load", "backup", "backfill", "in_place", "error", "same", "ok", "wait", "binaries", "read",
       "prepare", "write_xray", "write_cloudflared", "upsert_vpn", "upsert_hy2", "restart_xray",
       "save_env", "subscriptions", "finish"} \cap InRollback = {}
  BY DEF InRollback
<1>5. ~Approaches(u) /\ ~Kill(u)
  BY <1>2, <1>3, <1>4 DEF Approaches, OpenLock, AcquireConfigLock, ErrLockBusy, Kill, Become
<1>6. ~(\/ EnsureRuntimeBinaries(u) \/ LoadUpgradeEnv(u) \/ BackfillHy2(u) \/ ReRenderInPlace(u)
        \/ BackupConfig(u))
  BY <1>3, <1>4 DEF EnsureRuntimeBinaries, LoadUpgradeEnv, BackfillHy2, ReRenderInPlace, BackupConfig,
     GoTo, End, Become
<1>7. ~(\/ WriteXrayConfig(u) \/ WriteCloudflaredConfig(u) \/ UpsertHy2Record(u) \/ SaveEnv(u)
        \/ RegenerateSubscriptions(u) \/ Finish(u))
  BY <1>2, <1>3, <1>4 DEF WriteXrayConfig, WriteCloudflaredConfig, UpsertHy2Record, UpsertA, SaveEnv,
     RegenerateSubscriptions, Finish, GoTo, End, Become
<1>8. ~(\/ DeleteCreated(u) \/ RemoveConfigDir(u) \/ RestartMutated(u)
        \/ \E f \in Files : RestoreFile(u, f))
  BY PastSteps DEF DeleteCreated, RemoveConfigDir, RestartMutated, RestoreFile, At
<1>9. Prepare(u) \/ UpsertVpnRecord(u) \/ RestartXray(u)
  BY <1>4, <1>5, <1>6, <1>7, <1>8, OwnMove DEF Upgrade
<1>10. QED
  BY <1>9 DEF Prepare, UpsertVpnRecord, RestartXray, At, Unsaved

\* What comes before the steps after UpsertVpnRecord.
LEMMA UpsertedBefore ==
    ASSUME TypeInv, [Next]_vars, NEW u \in Upgrades, pc'[u] \in Upserted
    PROVE  pc[u] \in Upserted \/ UpsertVpnRecord(u)
<1>1. u \in Procs /\ pc \in [Procs -> Steps]
  BY UpgradeTypes DEF TypeInv, ProcTypes
<1>2. ASSUME NEW s, s \notin Upserted, pc' = [pc EXCEPT ![u] = s] PROVE FALSE
  BY <1>1, <1>2
<1>3. {"load", "backup", "backfill", "in_place", "error", "same", "ok", "wait", "binaries", "read",
       "prepare", "write_xray", "write_cloudflared", "upsert_vpn", "delete_created", "remove",
       "restore"} \cap Upserted = {}
  BY DEF Upserted
<1>4. ~Approaches(u) /\ ~Kill(u)
  BY <1>2, <1>3 DEF Approaches, OpenLock, AcquireConfigLock, ErrLockBusy, Kill, Become
<1>5. ~(\/ EnsureRuntimeBinaries(u) \/ LoadUpgradeEnv(u) \/ BackfillHy2(u) \/ ReRenderInPlace(u)
        \/ BackupConfig(u) \/ Prepare(u) \/ WriteXrayConfig(u) \/ WriteCloudflaredConfig(u))
  BY <1>2, <1>3 DEF EnsureRuntimeBinaries, LoadUpgradeEnv, BackfillHy2, ReRenderInPlace, BackupConfig,
     Prepare, WriteXrayConfig, WriteCloudflaredConfig, GoTo, End, Become
<1>6. ~(\/ DeleteCreated(u) \/ RemoveConfigDir(u) \/ RestartMutated(u))
  BY <1>2, <1>3 DEF DeleteCreated, RemoveConfigDir, RestartMutated, GoTo, End, Become
<1>7. ASSUME NEW f \in Files, RestoreFile(u, f) PROVE FALSE
  <2>1. pc[u] = "restore" /\ (pc' = pc \/ pc' = [pc EXCEPT ![u] = "error"])
    BY <1>7 DEF RestoreFile, At, End, Become
  <2>2. QED
    BY <1>2, <1>3, <2>1
<1>8. pc'[u] = pc[u] \/ UpsertVpnRecord(u)
      \/ UpsertHy2Record(u) \/ RestartXray(u) \/ SaveEnv(u) \/ RegenerateSubscriptions(u) \/ Finish(u)
  BY <1>4, <1>5, <1>6, <1>7, OwnMove DEF Upgrade
<1>9. QED
  BY <1>8 DEF UpsertHy2Record, RestartXray, SaveEnv, RegenerateSubscriptions, Finish, At, Upserted

\* A new restoration has emptied the directory.
LEMMA RestoreBefore ==
    ASSUME TypeInv, [Next]_vars, NEW u \in Upgrades, pc'[u] = "restore"
    PROVE  pc[u] = "restore" \/ dir'["env"] = Missing
<1>1. u \in Procs /\ pc \in [Procs -> Steps]
  BY UpgradeTypes DEF TypeInv, ProcTypes
<1>2. ASSUME NEW s, s # "restore", pc' = [pc EXCEPT ![u] = s] PROVE FALSE
  BY <1>1, <1>2
<1>3. ~Approaches(u) /\ ~Kill(u)
  BY <1>2 DEF Approaches, OpenLock, AcquireConfigLock, ErrLockBusy, Kill, Become
<1>4. pc'[u] = pc[u] \/ RemoveConfigDir(u) \/ \E f \in Files : RestoreFile(u, f)
  BY <1>2, <1>3, OwnMove DEF Upgrade, GoTo, End, Become, EnsureRuntimeBinaries, LoadUpgradeEnv,
     BackfillHy2, ReRenderInPlace, BackupConfig, Prepare, WriteXrayConfig, WriteCloudflaredConfig,
     UpsertA, UpsertVpnRecord, UpsertHy2Record, RestartXray, SaveEnv, RegenerateSubscriptions, Finish,
     DeleteCreated, RestartMutated
<1>5. CASE RemoveConfigDir(u)
  BY <1>2, <1>5 DEF RemoveConfigDir, CutOff, Become, Files
<1>6. CASE \E f \in Files : RestoreFile(u, f)
  BY <1>6 DEF RestoreFile, At
<1>7. QED
  BY <1>4, <1>5, <1>6

LEMMA ResolvesMore ==
    ASSUME NEW env, NEW recs, NEW more, recs \subseteq more, Resolves(env, recs)
    PROVE  Resolves(env, more)
BY DEF Resolves

\* A rollback leaves the records of hosts that other upgrades generated.
LEMMA ResolvesStill ==
    ASSUME TypeInv, NamesInv, NEW u \in Upgrades, pc[u] \in Past, NEW env \in Env \cup {Missing},
           Resolves(env, dns), HostOf(env) # u, NEW more, dns \ local[u].created \subseteq more
    PROVE  Resolves(env, more)
<1>1. env # Missing => env.host \in Hosts /\ env.host # u
  BY DEF HostOf, Env
<1>2. env # Missing => Cname(env.host) \notin local[u].created /\ A(env.host) \notin local[u].created
  BY <1>1, PastSteps DEF NamesInv
<1>3. QED
  BY <1>2 DEF Resolves

LEMMA EnvTypes ==
    ASSUME TypeInv
    PROVE  /\ dir["env"] \in Env \cup {Missing}
           /\ \A i \in 1..Len(backups) : backups[i].files["env"] \in Env \cup {Missing}
<1>1. \A i \in 1..Len(backups) : backups[i] \in BackupSet
  BY ElementOfSeq DEF TypeInv, DataTypes
<1>2. QED
  BY <1>1, FileTypes DEF TypeInv, DataTypes, BackupSet

\* What RestoreFile makes of cfvpn.env.
LEMMA RestoredEnv ==
    ASSUME TypeInv, NEW u \in Upgrades, RestoreFile(u, "env")
    PROVE  \/ dir'["env"] \in {dir["env"], Missing}
           \/ \E i \in 1..Len(backups) : backups[i].by = u /\ dir'["env"] = backups[i].files["env"]
<1>1. dir \in Contents
  BY DEF TypeInv, DataTypes
<1>2. CASE dir' = [dir EXCEPT !["env"] = Missing]
  BY <1>1, <1>2 DEF Contents
<1>3. ASSUME NEW d \in BackupsOf(u), dir' = IF d["env"] = Missing THEN dir ELSE [dir EXCEPT !["env"] = d["env"]]
      PROVE  \/ dir'["env"] \in {dir["env"], Missing}
             \/ \E i \in 1..Len(backups) : backups[i].by = u /\ dir'["env"] = backups[i].files["env"]
  <2>1. dir'["env"] \in {dir["env"], d["env"]}
    BY <1>1, <1>3 DEF Contents
  <2>2. QED
    BY <2>1, BackupsOfTypes
<1>4. QED
  BY <1>2, <1>3 DEF RestoreFile

LEMMA ResolveStep ==
    TypeInv /\ LockInv /\ NamesInv /\ CountInv /\ ResolveInv /\ LockInv' /\ [Next]_vars => ResolveInv'
<1>1. SUFFICES ASSUME TypeInv, LockInv, NamesInv, CountInv, ResolveInv, LockInv', [Next]_vars,
                      OneAtWork', faults' <= 1
               PROVE  ResolveInv'
  BY DEF ResolveInv
<1>2. /\ OneAtWork /\ faults \in {0, 1} /\ faults' \in {faults, faults + 1}
      /\ backups' # backups /\ Len(backups') = 1 => Len(backups) = 0 /\ lockFile = Old
  BY <1>1, FaultsGrow, OneAtWorkBefore
<1>3. faults <= 1
  BY <1>2
<1>4. faults = 0 \/ (\A u \in Upgrades : pc[u] \notin InRollback) => Resolves(dir["env"], dns)
  BY <1>1, <1>2, <1>3 DEF ResolveInv
<1>5. \A u \in Upgrades : pc[u] \in Past /\ Len(backups) = 1 => Resolves(backups[1].files["env"], dns)
  BY <1>1, <1>2, <1>3 DEF ResolveInv
<1>6. \A u \in Upgrades : pc[u] \in Upserted => Resolves(local[u].env, dns)
  BY <1>1, <1>2, <1>3 DEF ResolveInv
<1>7. \A u \in Upgrades : pc[u] = "restore" =>
        /\ dir["env"] \in {Missing, backups[1].files["env"]}
        /\ Len(backups) = 1 /\ backups[1].by = u
  <2>1. \A u \in Upgrades : pc[u] = "restore" => dir["env"] \in {Missing, backups[1].files["env"]}
    BY <1>1, <1>2, <1>3 DEF ResolveInv
  <2>2. \A u \in Upgrades : pc[u] = "restore" => Len(backups) = 1
    BY <1>1, <1>2 DEF LockInv, OneAtWork
  <2>3. QED
    BY <1>1, <2>1, <2>2, PastSteps DEF CountInv
<1>8. \A u \in Upgrades : pc[u] \in InRollback /\ faults = 0 => HostOf(dir["env"]) # u
  BY <1>1, <1>2, <1>3 DEF ResolveInv
<1>9. Old \notin Upgrades /\ Resolves(Missing, dns')
  BY ProcsAssumption DEF Procs, Resolves
<1>10. faults' = 0 \/ (\A u \in Upgrades : pc'[u] \notin InRollback) => Resolves(dir'["env"], dns')
  <2>1. SUFFICES ASSUME faults' = 0 \/ \A u \in Upgrades : pc'[u] \notin InRollback
                 PROVE  Resolves(dir'["env"], dns')
    OBVIOUS
  <2>2. ASSUME NEW u \in Upgrades, SaveEnv(u) PROVE Resolves(dir'["env"], dns')
    <3>1. pc[u] = "save_env" /\ dns' = dns /\ dir' \in {dir, [dir EXCEPT !["env"] = local[u].env]}
      BY <2>2 DEF SaveEnv, At, outside
    <3>2. dir'["env"] \in {dir["env"], local[u].env}
      BY <1>1, <3>1 DEF TypeInv, DataTypes, Contents
    <3>3. Resolves(local[u].env, dns)
      BY <1>6, <3>1 DEF Upserted
    <3>4. \A v \in Upgrades : pc[v] \notin InRollback
      BY <1>1, <1>2, <3>1, OnePast, PastSteps, StepSets
    <3>5. QED
      BY <1>4, <3>1, <3>2, <3>3, <3>4
  <2>3. ASSUME NEW u \in Upgrades, pc[u] = "remove", RemoveConfigDir(u) \/ Kill(u)
        PROVE  Resolves(dir'["env"], dns')
    <3>1. dns' = dns /\ dir'["env"] \in {dir["env"], Missing}
      BY <2>3 DEF RemoveConfigDir, Kill, CutOff, outside, Files
    <3>2. faults = 0
      <4>1. pc \in [Procs -> Steps] /\ u \in Procs
        BY <1>1, UpgradeTypes DEF TypeInv, ProcTypes
      <4>2. faults' = 0 \/ pc'[u] # "restore"
        BY <2>1, PastSteps
      <4>3. faults' = 0 \/ faults' = faults + 1
        BY <2>3, <4>1, <4>2 DEF RemoveConfigDir, Kill, Fault, Become
      <4>4. QED
        BY <1>1, <1>2, <4>3
    <3>3. QED
      BY <1>4, <1>9, <3>1, <3>2
  <2>4. ASSUME NEW u \in Upgrades, RestoreFile(u, "env") PROVE Resolves(dir'["env"], dns')
    <3>1. pc[u] = "restore" /\ dns' = dns
      BY <2>4 DEF RestoreFile, At, outside
    <3>2. dir["env"] \in {Missing, backups[1].files["env"]} /\ Len(backups) = 1
          /\ Resolves(backups[1].files["env"], dns)
      BY <1>5, <1>7, <3>1, PastSteps
    <3>3. dir'["env"] \in {Missing, backups[1].files["env"]}
      BY <1>1, <2>4, <3>2, RestoredEnv
    <3>4. QED
      BY <1>9, <3>1, <3>2, <3>3
  <2>5. ASSUME dir'["env"] = dir["env"] PROVE Resolves(dir'["env"], dns')
    <3>1. Resolves(dir["env"], dns)
      <4>1. CASE faults = 0 \/ \A u \in Upgrades : pc[u] \notin InRollback
        BY <1>4, <4>1
      <4>2. ASSUME faults # 0, NEW u \in Upgrades, pc[u] \in InRollback PROVE Resolves(dir["env"], dns)
        <5>1. faults' = faults /\ pc'[u] \notin InRollback
          BY <1>1, <1>2, <2>1, <4>2
        <5>2. ~Fault
          BY <1>2, <5>1 DEF Fault
        <5>3. pc[u] = "restore"
          BY <1>1, <4>2, <5>1, <5>2, RollbackLeft DEF RestartMutated, At
        <5>4. Resolves(backups[1].files["env"], dns) /\ dir["env"] \in {Missing, backups[1].files["env"]}
          BY <1>5, <1>7, <5>3, PastSteps
        <5>5. QED
          BY <5>4 DEF Resolves
      <4>3. QED
        BY <4>1, <4>2
    <3>2. CASE dns \subseteq dns'
      BY <2>5, <3>1, <3>2, ResolvesMore
    <3>3. ASSUME NEW u \in Upgrades, DeleteCreated(u), pc[u] = "delete_created",
                 dns \ local[u].created \subseteq dns'
          PROVE  Resolves(dir["env"], dns')
      <4>1. pc'[u] = "remove"
        BY <1>1, <3>3, UpgradeTypes DEF DeleteCreated, GoTo, Become, TypeInv, ProcTypes
      <4>2. faults = 0
        BY <1>2, <2>1, <4>1, PastSteps
      <4>3. HostOf(dir["env"]) # u /\ pc[u] \in Past
        BY <1>8, <3>3, <4>2, PastSteps
      <4>4. QED
        BY <1>1, <3>1, <3>3, <4>3, ResolvesStill, EnvTypes
    <3>4. QED
      BY <1>1, <2>5, <3>2, <3>3, DnsSteps
  <2>6. ASSUME NEW u \in Upgrades, RemoveConfigDir(u) PROVE Resolves(dir'["env"], dns')
    BY <2>3, <2>6 DEF RemoveConfigDir, At
  <2>7. QED
    BY <1>1, <2>2, <2>3, <2>4, <2>5, <2>6, EnvSteps
<1>11. ASSUME NEW u \in Upgrades, pc'[u] \in Past, Len(backups') = 1
       PROVE  Resolves(backups'[1].files["env"], dns')
  <2>1. CASE pc[u] \notin Past
    <3>1. /\ BackupConfig(u) /\ dns' = dns
          /\ backups' \in {Append(backups, Backup(u, dir)), Pruned(Append(backups, Backup(u, dir)))}
      BY <1>1, <1>11, <2>1, PastFollowsBackup DEF BackupConfig, outside
    <3> DEFINE b == Backup(u, dir)
               grown == Append(backups, b)
    <3>2. b \in BackupSet /\ b.files = dir
      BY <1>1 DEF TypeInv, DataTypes, Backup, BackupSet
    <3>3. /\ grown \in Seq(BackupSet) /\ Len(grown) = Len(backups) + 1 /\ Len(backups) \in Nat
          /\ grown[Len(backups) + 1] = b
      BY <1>1, <3>2, AppendProperties, LenProperties DEF TypeInv, DataTypes
    <3>4. backups' \in {grown, Pruned(grown)}
      BY <3>1
    <3> HIDE DEF grown, b
    <3>5. backups' = grown
      <4>1. \/ Pruned(grown) = grown
            \/ Len(Pruned(grown)) = KeepConfigBackups
        BY <3>3, PrunedTypes, KeepAssumption
      <4>2. Len(backups') = 1 /\ KeepConfigBackups # 1
        BY <1>11, KeepAssumption
      <4>3. QED
        BY <3>4, <4>1, <4>2
    <3>6. Len(backups) = 0 /\ backups'[1] = b
      BY <1>11, <3>3, <3>5
    <3>7. \A v \in Upgrades : pc[v] \notin InRollback
      BY <1>1, <3>6, PastSteps DEF CountInv
    <3>8. QED
      BY <1>4, <3>1, <3>2, <3>6, <3>7
  <2>2. CASE pc[u] \in Past
    <3>1. backups' = backups /\ Len(backups) = 1
      BY <1>1, <1>2, <1>11, <2>2 DEF CountInv
    <3>2. Resolves(backups[1].files["env"], dns) /\ backups[1].by = u
      BY <1>1, <1>5, <2>2, <3>1 DEF CountInv
    <3>3. CASE dns \subseteq dns'
      BY <3>1, <3>2, <3>3, ResolvesMore
    <3>4. ASSUME NEW v \in Upgrades, pc[v] = "delete_created", dns \ local[v].created \subseteq dns'
          PROVE  Resolves(backups[1].files["env"], dns')
      <4>1. v = u
        BY <1>1, <1>2, <2>2, <3>4, OnePast, PastSteps
      <4>2. HostOf(backups[1].files["env"]) # u
        BY <1>1, <3>1, <3>2 DEF NamesInv
      <4>3. backups[1].files["env"] \in Env \cup {Missing}
        BY <1>1, <3>1, EnvTypes
      <4>4. QED
        BY <1>1, <2>2, <3>2, <3>4, <4>1, <4>2, <4>3, ResolvesStill
    <3>5. QED
      BY <1>1, <3>1, <3>3, <3>4, DnsSteps
  <2>3. QED
    BY <2>1, <2>2
<1>12. ASSUME NEW u \in Upgrades, pc'[u] \in Upserted PROVE Resolves(local'[u].env, dns')
  <2>1. local'[u].env = local[u].env
    <3>1. pc[u] # "load" /\ pc'[u] \in Working
      BY <1>1, <1>12, UpsertedBefore, PastSteps DEF Upserted, UpsertVpnRecord, At
    <3>2. QED
      BY <1>1, <3>1, KeptSteps
  <2>2. CASE pc[u] \in Upserted
    <3>1. Resolves(local[u].env, dns)
      BY <1>6, <2>2
    <3>2. CASE dns \subseteq dns'
      BY <2>1, <3>1, <3>2, ResolvesMore
    <3>3. ASSUME NEW v \in Upgrades, pc[v] = "delete_created" PROVE FALSE
      <4>1. pc[u] \in Past /\ pc[u] # "delete_created"
        BY <2>2, PastSteps DEF Upserted
      <4>2. QED
        BY <1>1, <1>2, <3>3, <4>1, OnePast, PastSteps
    <3>4. QED
      BY <1>1, <3>2, <3>3, DnsSteps
  <2>3. CASE UpsertVpnRecord(u) /\ pc[u] \notin Upserted
    <3>1. pc'[u] # "delete_created" /\ pc[u] = "upsert_vpn" /\ pc[u] \in Past
          /\ u \in Procs /\ pc \in [Procs -> Steps]
      BY <1>1, <1>12, <2>3, PastSteps, UpgradeTypes DEF Upserted, UpsertVpnRecord, At, TypeInv, ProcTypes
    <3>2. ~GoTo(u, "delete_created")
      BY <3>1 DEF GoTo, Become
    <3>3. local[u].env \in Env /\ local[u].env # Missing
      BY <1>1, <3>1, UpgradeTypes, PastSteps, MarksAssumption DEF UpgradeLocal, Env
    <3>4. /\ local[u].env.mode = "direct" => A(local[u].env.host) \in dns'
          /\ local[u].env.mode # "direct" => Cname(local[u].env.host) \in dns'
      BY <2>3, <3>2 DEF UpsertVpnRecord, UpsertA
    <3>5. QED
      BY <2>1, <3>3, <3>4 DEF Resolves, Env, Modes
  <2>4. QED
    BY <1>1, <1>12, <2>2, <2>3, UpsertedBefore
<1>13. ASSUME NEW u \in Upgrades, pc'[u] = "restore"
       PROVE  dir'["env"] \in {Missing, backups'[1].files["env"]}
  <2>1. CASE pc[u] # "restore"
    BY <1>1, <1>13, <2>1, RestoreBefore
  <2>2. CASE pc[u] = "restore"
    <3>1. /\ dir["env"] \in {Missing, backups[1].files["env"]} /\ Len(backups) = 1
          /\ pc[u] \in Past
      BY <1>7, <2>2, PastSteps
    <3>2. backups' = backups
      <4>1. lockFile' # Old
        BY <1>1, <1>13 DEF LockInv
      <4>2. Len(backups') = 1
        BY <1>1, <4>1 DEF OneAtWork
      <4>3. QED
        BY <1>2, <3>1, <4>2
    <3>3. \A v \in Upgrades : pc[v] \in Past => v = u
      BY <1>1, <1>2, <3>1, OnePast
    <3>4. ASSUME NEW v \in Upgrades, SaveEnv(v) \/ RemoveConfigDir(v) \/ pc[v] = "remove" PROVE FALSE
      BY <2>2, <3>3, <3>4, PastSteps DEF SaveEnv, RemoveConfigDir, At
    <3>5. ASSUME NEW v \in Upgrades, RestoreFile(v, "env")
          PROVE  dir'["env"] \in {Missing, backups[1].files["env"]}
      BY <1>1, <3>1, <3>5, RestoredEnv
    <3>6. QED
      BY <1>1, <3>1, <3>2, <3>4, <3>5, EnvSteps
  <2>3. QED
    BY <2>1, <2>2
<1>14. ASSUME NEW u \in Upgrades, pc'[u] \in InRollback, faults' = 0
       PROVE  HostOf(dir'["env"]) # u
  <2>1. faults = 0
    BY <1>2, <1>14
  <2>2. CASE pc[u] \notin InRollback
    BY <1>1, <1>14, <2>1, <2>2, RollbackEntered DEF NamesInv
  <2>3. CASE pc[u] \in InRollback
    <3>1. HostOf(dir["env"]) # u /\ pc[u] \in Past /\ HostOf(Missing) # u
      BY <1>8, <1>9, <2>1, <2>3, PastSteps DEF HostOf
    <3>2. \A v \in Upgrades : pc[v] \in Past => v = u
      BY <1>1, <1>2, <3>1, OnePast
    <3>3. ASSUME NEW v \in Upgrades, SaveEnv(v) PROVE FALSE
      BY <2>3, <3>2, <3>3, PastSteps, StepSets DEF SaveEnv, At
    <3>4. ASSUME NEW v \in Upgrades, RemoveConfigDir(v) PROVE dir'["env"] \in {dir["env"], Missing}
      BY <3>4 DEF RemoveConfigDir, CutOff, Files
    <3>5. ASSUME NEW v \in Upgrades, Kill(v) PROVE FALSE
      BY <1>14, <2>1, <3>5 DEF Kill, Fault
    <3>6. ASSUME NEW v \in Upgrades, RestoreFile(v, "env") PROVE HostOf(dir'["env"]) # u
      <4>1. v = u
        BY <3>2, <3>6, PastSteps DEF RestoreFile, At
      <4>2. QED
        BY <1>1, <3>1, <3>6, <4>1, RestoredEnv DEF NamesInv
    <3>7. QED
      BY <1>1, <3>1, <3>3, <3>4, <3>5, <3>6, EnvSteps
  <2>4. QED
    BY <2>2, <2>3
<1>15. QED
  BY <1>10, <1>11, <1>12, <1>13, <1>14 DEF ResolveInv

LEMMA InitResolve == Init => ResolveInv
<1>1. SUFFICES ASSUME Init PROVE ResolveInv
  OBVIOUS
<1>2. Resolves(dir["env"], dns)
  <2>1. PICK env \in [host : {Old}, hy2 : {Old, None}, mode : Modes] :
          /\ dir = [f \in Files |->
                    CASE f = "env" -> env
                      [] f = "cloudflared" -> env.mode
                      [] f = "hysteria" -> env.hy2
                      [] f = "xray" -> [mode |-> env.mode, users |-> {}]]
          /\ dns \in IF env.mode = "direct" THEN {{A(Old), Hy2(Old)}, {Hy2(Old)}}
                                            ELSE {{Cname(Old), Hy2(Old)}}
    BY <1>1 DEF Init
  <2>2. dir["env"] = env /\ env.host = Old
    BY <2>1 DEF Files
  <2>3. env.mode # "direct" => Cname(Old) \in dns
    BY <2>1
  <2>4. QED
    BY <2>2, <2>3 DEF Resolves
<1>3. \A u \in Upgrades : pc[u] = "open"
  BY <1>1 DEF Init, Procs
<1>4. QED
  BY <1>2, <1>3 DEF ResolveInv, Past, InCore, InRollback, Upserted

\* Whatever single thing goes wrong, the host cfvpn.env names has the record that
\* its mode needs, as long as the lock is one lock or one upgrade alone has made a
\* backup, except while that upgrade rolls back.
THEOREM HostResolves == Spec => []ServedHostResolves
<1>1. ResolveInv => ServedHostResolves
  BY DEF ResolveInv, ServedHostResolves, Resolves
<1>2. QED
  BY <1>1, InitTypes, InitLock, InitNames, InitCount, InitResolve,
     TypeStep, LockStep, NamesStep, CountStep, ResolveStep, PTL DEF Spec

-----------------------------------------------------------------------------
(* What an upgrade has replaced by each step of its core.                  *)

Saved == {"subscriptions", "finish"}
Restarted == {"save_env"} \cup Saved
Advertised == {"restart_xray"} \cup Restarted
Resolved == {"upsert_hy2"} \cup Advertised
TunnelWritten == {"upsert_vpn"} \cup Resolved
XrayWritten == {"write_cloudflared"} \cup TunnelWritten

Staged(u) ==
    LET env == local[u].env IN
    /\ pc[u] \in XrayWritten => dir["xray"] # Missing /\ dir["xray"].mode = env.mode
    /\ pc[u] \in TunnelWritten => dir["cloudflared"] = env.mode
    /\ pc[u] \in Resolved => VpnRecord(env) \in dns
    /\ pc[u] \in Advertised => Hy2(env.hy2) \in dns
    /\ pc[u] \in Restarted => xrayRun = dir["xray"]
    /\ pc[u] \in Saved => dir["env"] = env
    /\ pc[u] = "finish" => subs = [host |-> env.host, mode |-> env.mode]

StageInv == lockFile = Old => \A u \in Upgrades : Staged(u)

LEMMA Stages ==
    /\ "finish" \in Saved /\ Saved \subseteq Restarted /\ Restarted \subseteq Advertised
    /\ Advertised \subseteq Resolved /\ Resolved \subseteq TunnelWritten
    /\ TunnelWritten \subseteq XrayWritten
    /\ XrayWritten \subseteq Past /\ XrayWritten \cap ({"open", "wait"} \cup Ended) = {}
    /\ XrayWritten \cap {"binaries", "load", "backfill", "in_place", "backup", "prepare",
                         "write_xray", "delete_created", "remove", "restore"} = {}
BY DEF Saved, Restarted, Advertised, Resolved, TunnelWritten, XrayWritten, Past, InCore, Ended

\* A step of the upgrade itself.
LEMMA StageMoves ==
    ASSUME TypeInv, NEW u \in Upgrades, Staged(u), Upgrade(u)
    PROVE  Staged(u)'
<1>1. /\ u \in Procs /\ pc \in [Procs -> Steps] /\ local \in [Procs -> Kept] /\ dir \in Contents
      /\ pc[u] \in Working => local[u] \in UpgradeLocal
  BY UpgradeTypes DEF TypeInv, ProcTypes, DataTypes
<1>2. ASSUME NEW s, s \notin XrayWritten, pc' = [pc EXCEPT ![u] = s] PROVE Staged(u)'
  BY <1>1, <1>2, Stages DEF Staged
<1>3. CASE GoTo(u, "delete_created")
  BY <1>2, <1>3, Stages DEF GoTo, Become
<1>4. ASSUME NEW result \in Ended, End(u, result) PROVE Staged(u)'
  BY <1>2, <1>4, Stages DEF End, Become
<1>5. CASE \/ EnsureRuntimeBinaries(u) \/ LoadUpgradeEnv(u) \/ BackfillHy2(u)
           \/ ReRenderInPlace(u) \/ BackupConfig(u)
  BY <1>2, <1>4, <1>5, Stages DEF EnsureRuntimeBinaries, LoadUpgradeEnv, BackfillHy2,
     ReRenderInPlace, BackupConfig, GoTo, Become, Ended
<1>6. CASE Prepare(u) \/ DeleteCreated(u) \/ RemoveConfigDir(u)
  BY <1>2, <1>6, Stages DEF Prepare, DeleteCreated, RemoveConfigDir, GoTo, Become, Ended
<1>7. CASE (\E f \in Files : RestoreFile(u, f)) \/ RestartMutated(u)
  <2>1. CASE RestartMutated(u)
    BY <1>4, <2>1 DEF RestartMutated, Ended
  <2>2. ASSUME NEW f \in Files, RestoreFile(u, f) PROVE Staged(u)'
    <3>1. pc[u] = "restore" /\ (pc' = pc \/ End(u, "error"))
      BY <2>2 DEF RestoreFile, At
    <3>2. QED
      BY <1>2, <1>4, <3>1, Stages DEF Ended, Staged
  <2>3. QED
    BY <1>7, <2>1, <2>2
<1>8. CASE WriteXrayConfig(u)
  <2>1. CASE GoTo(u, "write_cloudflared")
    <3>1. pc'[u] = "write_cloudflared" /\ local' = local
      BY <1>1, <2>1 DEF GoTo, Become
    <3>2. dir'["xray"] = [mode |-> local[u].env.mode, users |-> local[u].users]
      <4>1. pc[u] # "delete_created" /\ ~GoTo(u, "delete_created")
        BY <1>1, <1>8, <3>1 DEF WriteXrayConfig, At, GoTo, Become
      <4>2. QED
        BY <1>1, <1>8, <4>1 DEF WriteXrayConfig, Contents
    <3>3. dir'["xray"] # Missing /\ dir'["xray"].mode = local[u].env.mode
      <4>1. local[u] \in UpgradeLocal
        BY <1>1, <1>8, PastSteps DEF WriteXrayConfig, At
      <4>2. dir'["xray"] \in Xray
        BY <3>2, <4>1 DEF UpgradeLocal, Xray
      <4>3. QED
        BY <3>2, <4>2, MarksAssumption
    <3>4. QED
      BY <3>1, <3>3 DEF Staged, TunnelWritten, Resolved, Advertised,
         Restarted, Saved
  <2>2. QED
    BY <1>3, <1>8, <2>1 DEF WriteXrayConfig
<1>9. CASE WriteCloudflaredConfig(u)
  <2>1. CASE GoTo(u, "upsert_vpn")
    <3>1. pc'[u] = "upsert_vpn" /\ local' = local
      BY <1>1, <2>1 DEF GoTo, Become
    <3>2. dir' = [dir EXCEPT !["cloudflared"] = local[u].env.mode]
      BY <1>1, <1>9, <3>1 DEF WriteCloudflaredConfig, GoTo, Become
    <3>3. dir'["cloudflared"] = local[u].env.mode /\ dir'["xray"] = dir["xray"]
      BY <1>1, <3>2 DEF Contents
    <3>4. dir["xray"] # Missing /\ dir["xray"].mode = local[u].env.mode
      BY <1>9 DEF WriteCloudflaredConfig, At, Staged, XrayWritten
    <3>5. QED
      BY <3>1, <3>3, <3>4 DEF Staged, Resolved, Advertised, Restarted, Saved
  <2>2. QED
    BY <1>3, <1>9, <2>1 DEF WriteCloudflaredConfig
<1>10. CASE UpsertVpnRecord(u)
  <2>1. pc[u] = "upsert_vpn" /\ dir' = dir
    BY <1>10 DEF UpsertVpnRecord, At
  <2>2. CASE pc' = [pc EXCEPT ![u] = "upsert_hy2"]
    <3>1. pc'[u] = "upsert_hy2" /\ local'[u].env = local[u].env
      <4>1. pc'[u] = "upsert_hy2" /\ ~GoTo(u, "delete_created")
        BY <1>1, <2>2 DEF GoTo, Become
      <4>2. local' = local \/ local' = [local EXCEPT ![u].created = @ \cup {A(local[u].env.host)}]
        BY <1>10, <4>1 DEF UpsertVpnRecord, UpsertA, GoTo
      <4>3. local[u] \in UpgradeLocal
        BY <1>1, <2>1, PastSteps
      <4>4. QED
        BY <1>1, <4>1, <4>2, <4>3 DEF UpgradeLocal
    <3>2. VpnRecord(local[u].env) \in dns'
      <4>1. ~GoTo(u, "delete_created")
        BY <1>1, <2>2 DEF GoTo, Become
      <4>2. QED
        BY <1>10, <4>1 DEF UpsertVpnRecord, UpsertA, VpnRecord
    <3>3. VpnRecord(local'[u].env) = VpnRecord(local[u].env)
      BY <3>1 DEF VpnRecord
    <3>4. QED
      BY <2>1, <3>1, <3>2, <3>3 DEF Staged, XrayWritten, TunnelWritten, Resolved, Advertised,
         Restarted, Saved
  <2>3. QED
    BY <1>3, <1>10, <2>2 DEF UpsertVpnRecord, UpsertA, GoTo, Become
<1>11. CASE UpsertHy2Record(u)
  <2>1. pc[u] = "upsert_hy2" /\ dir' = dir
    BY <1>11 DEF UpsertHy2Record, At
  <2>2. CASE pc' = [pc EXCEPT ![u] = "restart_xray"]
    <3>1. /\ pc'[u] = "restart_xray" /\ dns' = dns \cup {Hy2(local[u].env.hy2)}
          /\ local' = [local EXCEPT ![u].created = @ \cup {Hy2(local[u].env.hy2)}]
      BY <1>1, <1>11, <2>2 DEF UpsertHy2Record, UpsertA, GoTo, Become
    <3>2. local'[u].env = local[u].env
      <4>1. local[u] \in UpgradeLocal
        BY <1>1, <2>1, PastSteps
      <4>2. QED
        BY <1>1, <3>1, <4>1 DEF UpgradeLocal
    <3>3. QED
      BY <2>1, <3>1, <3>2 DEF Staged, XrayWritten, TunnelWritten, Resolved, Advertised,
         Restarted, Saved
  <2>3. QED
    BY <1>3, <1>11, <2>2 DEF UpsertHy2Record, UpsertA, Become
<1>12. CASE RestartXray(u)
  <2>1. pc[u] = "restart_xray" /\ dir' = dir /\ dns' = dns
    BY <1>12 DEF RestartXray, At
  <2>2. CASE pc' = [pc EXCEPT ![u] = "save_env"]
    <3>1. /\ pc'[u] = "save_env" /\ xrayRun' = dir["xray"]
          /\ local' = [local EXCEPT ![u].mutated = TRUE]
      BY <1>1, <1>12, <2>2 DEF RestartXray, GoTo, Become
    <3>2. local'[u].env = local[u].env
      <4>1. local[u] \in UpgradeLocal
        BY <1>1, <2>1, PastSteps
      <4>2. QED
        BY <1>1, <3>1, <4>1 DEF UpgradeLocal
    <3>3. QED
      BY <2>1, <3>1, <3>2 DEF Staged, XrayWritten, TunnelWritten, Resolved, Advertised,
         Restarted, Saved
  <2>3. QED
    BY <1>3, <1>12, <2>2 DEF RestartXray, Become
<1>13. CASE SaveEnv(u)
  <2>1. pc[u] = "save_env" /\ UNCHANGED <<subs, xrayRun, dns>>
    BY <1>13 DEF SaveEnv, At, outside
  <2>2. CASE GoTo(u, "subscriptions")
    <3>1. pc'[u] = "subscriptions" /\ local' = local
      BY <1>1, <2>2 DEF GoTo, Become
    <3>2. dir' = [dir EXCEPT !["env"] = local[u].env]
      BY <1>1, <1>13, <3>1 DEF SaveEnv, GoTo, Become
    <3>3. dir'["env"] = local[u].env /\ dir'["xray"] = dir["xray"]
          /\ dir'["cloudflared"] = dir["cloudflared"]
      BY <1>1, <3>2 DEF Contents
    <3>4. QED
      BY <2>1, <3>1, <3>3 DEF Staged, XrayWritten, TunnelWritten, Resolved, Advertised,
         Restarted, Saved
  <2>3. QED
    BY <1>3, <1>13, <2>2 DEF SaveEnv
<1>14. CASE RegenerateSubscriptions(u)
  <2>1. pc[u] = "subscriptions" /\ UNCHANGED <<dir, xrayRun, dns>>
    BY <1>14 DEF RegenerateSubscriptions, At
  <2>2. CASE GoTo(u, "finish")
    <3>1. pc'[u] = "finish" /\ local' = local
      BY <1>1, <2>2 DEF GoTo, Become
    <3>2. subs' = [host |-> local[u].env.host, mode |-> local[u].env.mode]
      BY <1>1, <1>14, <3>1 DEF RegenerateSubscriptions, GoTo, Become
    <3>3. QED
      BY <2>1, <3>1, <3>2 DEF Staged, XrayWritten, TunnelWritten, Resolved, Advertised,
         Restarted, Saved
  <2>3. QED
    BY <1>3, <1>14, <2>2 DEF RegenerateSubscriptions
<1>15. CASE Finish(u)
  BY <1>3, <1>4, <1>15 DEF Finish, Ended
<1>16. QED
  BY <1>5, <1>6, <1>7, <1>8, <1>9, <1>10, <1>11, <1>12, <1>13, <1>14, <1>15 DEF Upgrade

LEMMA StageStep == TypeInv /\ LockInv /\ StageInv /\ [Next]_vars => StageInv'
<1>1. SUFFICES ASSUME TypeInv, LockInv, StageInv, [Next]_vars, lockFile' = Old, NEW u \in Upgrades
               PROVE  Staged(u)'
  BY DEF StageInv
<1>2. u \in Procs /\ u \notin Writers /\ pc \in [Procs -> Steps]
  BY <1>1, UpgradeTypes DEF TypeInv, ProcTypes
<1>3. lockFile = Old
  <2>1. ASSUME NEW p \in Procs, Approaches(p) PROVE lockFile = Old
    BY <1>1, <2>1, ProcsAssumption DEF Approaches, OpenLock, AcquireConfigLock, ErrLockBusy
  <2>2. ASSUME NEW p \in Procs, Moves(p) PROVE lockFile = Old
    BY <1>1, <2>2, ProcsAssumption, MarksAssumption DEF Moves, Inodes
  <2>3. CASE UNCHANGED vars
    BY <1>1, <2>3 DEF vars
  <2>4. QED
    BY <1>1, <2>1, <2>2, <2>3, NextCases, UpgradeMoves, ReadMoves, WriteMoves, KillMoves,
       UpgradeTypes DEF Procs
<1>4. Staged(u)
  BY <1>1, <1>3 DEF StageInv
<1>5. CASE pc'[u] \notin XrayWritten
  BY <1>5, Stages DEF Staged
<1>6. ASSUME NEW p \in Procs, p # u, Moves(p) PROVE Staged(u)'
  <2>1. pc[p] \in Holding /\ pc'[u] = pc[u]
    BY <1>2, <1>6 DEF Moves
  <2>2. pc[u] \notin Holding
    BY <1>1, <1>2, <1>3, <1>6, <2>1, OneHolder
  <2>3. QED
    BY <1>5, <2>1, <2>2, Stages, PastSteps
<1>7. ASSUME NEW p \in Procs, Approaches(p) PROVE Staged(u)'
  <2>1. UNCHANGED <<dir, subs, xrayRun, dns>> /\ pc[p] \notin Holding
        /\ \A q \in Procs \ {p} : pc'[q] = pc[q] /\ local'[q] = local[q]
    BY <1>1, <1>7, ApproachTypes
  <2>2. CASE p # u
    BY <1>2, <1>4, <2>1, <2>2 DEF Staged
  <2>3. CASE p = u
    <3>1. \E s \in {"wait", "binaries", "error"} : pc'[u] = s
      BY <1>2, <1>7, <2>3 DEF Approaches, OpenLock, AcquireConfigLock, ErrLockBusy, Become
    <3>2. QED
      BY <1>5, <3>1, Stages DEF Ended
  <2>4. QED
    BY <2>2, <2>3
<1>8. ASSUME NEW p \in Procs, Kill(p) PROVE Staged(u)'
  <2>1. p = u => pc'[u] = "error"
    BY <1>2, <1>8 DEF Kill, Become
  <2>2. QED
    BY <1>1, <1>5, <1>6, <1>8, <2>1, Stages, KillMoves DEF Ended
<1>9. ASSUME NEW v \in Upgrades, Upgrade(v) PROVE Staged(u)'
  BY <1>1, <1>4, <1>6, <1>9, StageMoves, UpgradeMoves, UpgradeTypes DEF Procs
<1>10. ASSUME NEW w \in Writers, Read(w) \/ Write(w) PROVE Staged(u)'
  BY <1>1, <1>2, <1>6, <1>10, ReadMoves, WriteMoves DEF Procs
<1>11. CASE UNCHANGED vars
  BY <1>4, <1>11 DEF vars, Staged
<1>12. QED
  BY <1>1, <1>7, <1>8, <1>9, <1>10, <1>11, NextCases

LEMMA InitStages == Init => StageInv
<1>1. ASSUME Init, NEW u \in Upgrades PROVE pc[u] \notin XrayWritten
  BY <1>1, Stages DEF Init, Procs
<1>2. QED
  BY <1>1, Stages DEF StageInv, Staged

\* An upgrade that reports success has written the mode and the host it asked for
\* into every file, has xray running the config on disk, has its subscriptions
\* advertise them and has the records of its VPN host and its HY2 host
\* (runUpgradeCore), whatever else ran beside it, as long as the lock file is the
\* one there was.
THEOREM UpgradeDelivers == Spec => OkMeansUpgraded
<1> DEFINE Delivered ==
      \A u \in Upgrades : lockFile = Old /\ ~At(u, "ok") /\ pc'[u] = "ok" =>
         /\ dir'["env"] = local[u].env
         /\ {dir'["cloudflared"], dir'["xray"].mode} = {local[u].env.mode}
         /\ xrayRun' = dir'["xray"]
         /\ subs' = [host |-> local[u].env.host, mode |-> local[u].env.mode]
         /\ {VpnRecord(local[u].env), Hy2(local[u].env.hy2)} \subseteq dns'
<1>1. TypeInv /\ StageInv /\ [Next]_vars => [Delivered]_vars
  <2>1. SUFFICES ASSUME TypeInv, StageInv, [Next]_vars, NEW u \in Upgrades,
                        lockFile = Old, pc[u] # "ok", pc'[u] = "ok"
                 PROVE  /\ dir'["env"] = local[u].env
                        /\ {dir'["cloudflared"], dir'["xray"].mode} = {local[u].env.mode}
                        /\ xrayRun' = dir'["xray"]
                        /\ subs' = [host |-> local[u].env.host, mode |-> local[u].env.mode]
                        /\ {VpnRecord(local[u].env), Hy2(local[u].env.hy2)} \subseteq dns'
    BY DEF At
  <2>2. u \in Procs /\ pc \in [Procs -> Steps]
    BY <2>1, UpgradeTypes DEF TypeInv, ProcTypes
  <2>3. ASSUME NEW s, s # "ok", pc' = [pc EXCEPT ![u] = s] PROVE FALSE
    BY <2>1, <2>2, <2>3
  <2>4. Upgrade(u)
    BY <2>1, <2>3, OwnMove DEF Approaches, OpenLock, AcquireConfigLock, ErrLockBusy, Kill, Become
  <2>5. Finish(u)
    BY <2>1, <2>3, <2>4 DEF Upgrade, GoTo, End, Become, EnsureRuntimeBinaries, LoadUpgradeEnv,
       BackfillHy2, ReRenderInPlace, BackupConfig, Prepare, WriteXrayConfig, WriteCloudflaredConfig,
       UpsertVpnRecord, UpsertA, UpsertHy2Record, RestartXray, SaveEnv, RegenerateSubscriptions,
       DeleteCreated, RemoveConfigDir, RestoreFile, RestartMutated
  <2>6. pc[u] = "finish" /\ UNCHANGED <<dir, subs, xrayRun, dns>>
    BY <2>5 DEF Finish, At, outside
  <2>7. Staged(u)
    BY <2>1 DEF StageInv
  <2>8. QED
    BY <2>6, <2>7 DEF Staged, XrayWritten, TunnelWritten, Resolved, Advertised,
         Restarted, Saved
<1>2. QED
  BY <1>1, InitTypes, InitLock, InitStages, TypeStep, LockStep, StageStep,
     PTL DEF Spec, OkMeansUpgraded
-----------------------------------------------------------------------------
(* A failed upgrade leaves what it found.                                  *)

\* A configuration all of whose files are there, in one mode.
Fits(d) ==
    /\ Whole(d)
    /\ d["cloudflared"] = d["env"].mode /\ d["xray"].mode = d["env"].mode

\* Up to the first backup nothing but users changes.
QuietInv ==
    Len(backups) = 0 =>
        /\ Fits(dir) /\ xrayRun \in {dir["xray"], Down}
        /\ \A w \in Writers : pc[w] = "write" => local[w].mode = dir["xray"].mode

\* u alone has made a backup.
Only(u) == Len(backups) = 1 /\ backups[1].by = u

\* The config `was`, or that with more users.
Grown(xray, was) == xray # Missing /\ xray.mode = was.mode /\ was.users \subseteq xray.users

\* What the rollback of u has restored, which others may see before it is through.
Restored(u) ==
    LET was == backups[1].files
        todo == local[u].todo
    IN  /\ \A f \in {"env", "cloudflared"} \ todo : dir[f] = was[f]
        /\ \/ "hysteria" \in todo \/ dir["hysteria"] = was["hysteria"]
           \/ faults + Refusals(u) > 1 \/ \E v \in Upgrades \ {u} : pc[v] = "backup"
        /\ IF "xray" \in todo
           THEN /\ dir["xray"] = Missing /\ \A w \in Writers : pc[w] # "write"
                /\ local[u].mutated \/ xrayRun \in {was["xray"], Down}
           ELSE /\ todo = {} /\ Grown(dir["xray"], was["xray"])
                /\ \A w \in Writers : pc[w] = "write" => Grown(local[w], was["xray"])
                /\ local[u].mutated \/ xrayRun \in {dir["xray"], Down}

\* The one upgrade that is past its backup.
KeptBy(u) ==
    LET was == backups[1].files IN
    /\ Fits(was)
    /\ local[u].env.mode = "cloudflare" => \A h \in Hosts : A(h) \notin local[u].created
    /\ pc[u] \in InCore => dir["xray"] # Missing
    /\ pc[u] \in InRollback => faults + Refusals(u) > 0
    /\ IF pc[u] = "restore" THEN Restored(u)
       ELSE /\ lockFile = Old /\ local[u].todo = Files
            /\ local[u].mutated \/ xrayRun \in {was["xray"], Down}

KeptInv == \A u \in Upgrades : pc[u] \in Past /\ Only(u) => KeptBy(u)

\* What Load gives an upgrade to start with.
FreshInv ==
    \A u \in Upgrades : pc[u] \in {"backfill", "backup"} =>
        local[u].todo = Files /\ local[u].created = {}

LEMMA FreshStep == TypeInv /\ FreshInv /\ [Next]_vars => FreshInv'
<1>1. SUFFICES ASSUME TypeInv, FreshInv, [Next]_vars, NEW u \in Upgrades,
                      pc'[u] \in {"backfill", "backup"}
               PROVE  local'[u].todo = Files /\ local'[u].created = {}
  BY DEF FreshInv
<1>2. u \in Procs /\ u \notin Writers /\ pc \in [Procs -> Steps] /\ local \in [Procs -> Kept]
  BY <1>1, UpgradeTypes DEF TypeInv, ProcTypes
<1>3. ASSUME NEW s, s \notin {"backfill", "backup"}, pc' = [pc EXCEPT ![u] = s] PROVE FALSE
  BY <1>1, <1>2, <1>3
<1>4. ASSUME pc'[u] = pc[u], local'[u] = local[u]
      PROVE  local'[u].todo = Files /\ local'[u].created = {}
  BY <1>1, <1>4 DEF FreshInv
<1>5. CASE Upgrade(u)
  <2>1. pc[u] \in {"load", "backfill"} \/ pc'[u] = pc[u]
    BY <1>3, <1>5 DEF Upgrade, GoTo, End, Become, At, EnsureRuntimeBinaries, LoadUpgradeEnv,
       BackfillHy2, ReRenderInPlace, BackupConfig, Prepare, WriteXrayConfig, WriteCloudflaredConfig,
       UpsertVpnRecord, UpsertA, UpsertHy2Record, RestartXray, SaveEnv, RegenerateSubscriptions,
       Finish, DeleteCreated, RemoveConfigDir, RestoreFile, RestartMutated
  <2>2. CASE pc[u] = "load"
    <3>1. LoadUpgradeEnv(u) /\ ~End(u, "error")
      BY <1>3, <1>5, <2>2 DEF Upgrade, EnsureRuntimeBinaries, BackfillHy2, ReRenderInPlace,
         BackupConfig, Prepare, WriteXrayConfig, WriteCloudflaredConfig, UpsertVpnRecord,
         UpsertHy2Record, RestartXray, SaveEnv, RegenerateSubscriptions, Finish, DeleteCreated,
         RemoveConfigDir, RestoreFile, RestartMutated, At, End, Become
    <3>2. PICK e, s : local' = [local EXCEPT ![u] = [env |-> e, users |-> {}, created |-> {},
                                                     mutated |-> FALSE, todo |-> s]] /\ s = Files
      BY <3>1 DEF LoadUpgradeEnv
    <3>3. QED
      BY <1>2, <3>2
  <2>3. CASE pc[u] = "backfill"
    <3>1. BackfillHy2(u)
      BY <1>5, <2>3 DEF Upgrade, EnsureRuntimeBinaries, LoadUpgradeEnv, ReRenderInPlace,
         BackupConfig, Prepare, WriteXrayConfig, WriteCloudflaredConfig, UpsertVpnRecord,
         UpsertHy2Record, RestartXray, SaveEnv, RegenerateSubscriptions, Finish, DeleteCreated,
         RemoveConfigDir, RestoreFile, RestartMutated, At
    <3>2. local' = local
      BY <1>3, <3>1 DEF BackfillHy2, GoTo, End, Become
    <3>3. QED
      BY <1>1, <2>3, <3>2 DEF FreshInv
  <2>4. CASE pc'[u] = pc[u] /\ pc[u] # "backfill"
    <3>1. BackupConfig(u)
      BY <1>1, <1>5, <2>4 DEF Upgrade, EnsureRuntimeBinaries, LoadUpgradeEnv, ReRenderInPlace,
         BackfillHy2, Prepare, WriteXrayConfig, WriteCloudflaredConfig, UpsertVpnRecord,
         UpsertHy2Record, RestartXray, SaveEnv, RegenerateSubscriptions, Finish, DeleteCreated,
         RemoveConfigDir, RestoreFile, RestartMutated, At
    <3>2. QED
      BY <1>3, <3>1 DEF BackupConfig, GoTo, End, Become
  <2>5. QED
    BY <2>1, <2>2, <2>3, <2>4
<1>6. ASSUME NEW v \in Upgrades, v # u, Upgrade(v) PROVE pc'[u] = pc[u] /\ local'[u] = local[u]
  BY <1>1, <1>2, <1>6, UpgradeMoves DEF Moves
<1>7. ASSUME NEW p \in Procs, p # u, Approaches(p) \/ Kill(p)
      PROVE  pc'[u] = pc[u] /\ local'[u] = local[u]
  BY <1>1, <1>2, <1>7, ApproachTypes, KillMoves DEF Moves
<1>8. ~Approaches(u) /\ ~Kill(u)
  BY <1>3 DEF Approaches, OpenLock, AcquireConfigLock, ErrLockBusy, Kill, Become
<1>9. ASSUME NEW w \in Writers, Read(w) \/ Write(w) PROVE pc'[u] = pc[u] /\ local'[u] = local[u]
  BY <1>1, <1>2, <1>9, ReadMoves, WriteMoves DEF Moves
<1>10. QED
  BY <1>1, <1>4, <1>5, <1>6, <1>7, <1>8, <1>9, NextCases DEF vars

LEMMA InitQuiet == Init => FreshInv /\ QuietInv /\ KeptInv
<1>1. SUFFICES ASSUME Init PROVE FreshInv /\ QuietInv /\ KeptInv
  OBVIOUS
<1>2. PICK env \in [host : {Old}, hy2 : {Old, None}, mode : Modes] :
        dir = [f \in Files |-> CASE f = "env" -> env
                                 [] f = "cloudflared" -> env.mode
                                 [] f = "hysteria" -> env.hy2
                                 [] f = "xray" -> [mode |-> env.mode, users |-> {}]]
  BY <1>1 DEF Init
<1>3. /\ dir["env"] = env /\ dir["cloudflared"] = env.mode /\ dir["hysteria"] = env.hy2
      /\ dir["xray"] = [mode |-> env.mode, users |-> {}]
  BY <1>2 DEF Files
<1>4. env \in Env /\ env.mode \in Modes /\ env.hy2 \in Hosts \cup {None} /\ dir["xray"] \in Xray
      /\ dir["xray"].mode = env.mode
  BY <1>3 DEF Env, Hosts, Xray
<1>5. Fits(dir)
  BY <1>3, <1>4, MarksAssumption DEF Fits, Whole, Files
<1>6. \A p \in Procs : pc[p] = "open"
  BY <1>1 DEF Init
<1>7. QED
  BY <1>1, <1>5, <1>6 DEF FreshInv, QuietInv, KeptInv, Init, Procs, Past, InCore, InRollback

LEMMA QuietStep == TypeInv /\ CountInv /\ QuietInv /\ [Next]_vars => QuietInv'
<1>1. SUFFICES ASSUME TypeInv, CountInv, QuietInv, [Next]_vars, Len(backups') = 0
               PROVE  /\ Fits(dir') /\ xrayRun' \in {dir'["xray"], Down}
                      /\ \A w \in Writers : pc'[w] = "write" => local'[w].mode = dir'["xray"].mode
  BY DEF QuietInv, Fits, Whole
<1>2. backups' = backups /\ Len(backups) = 0 /\ \A u \in Upgrades : pc[u] \notin Past
  BY <1>1, BackupLengths DEF CountInv
<1>3. /\ Fits(dir) /\ xrayRun \in {dir["xray"], Down}
      /\ \A w \in Writers : pc[w] = "write" => local[w].mode = dir["xray"].mode
  BY <1>1, <1>2 DEF QuietInv
<1>4. /\ dir \in Contents /\ pc \in [Procs -> Steps] /\ local \in [Procs -> Kept]
      /\ \A w \in Writers : pc[w] = "write" => local[w] \in Xray
      /\ dir["env"] \in Env /\ dir["xray"] \in Xray
  BY <1>1, <1>3, FileTypes DEF TypeInv, DataTypes, ProcTypes, Fits, Whole, Files
<1>5. ASSUME dir' = dir, xrayRun' \in {xrayRun, dir["xray"], Down},
             \A w \in Writers : pc'[w] = "write" => pc[w] = "write" /\ local'[w] = local[w]
      PROVE  /\ Fits(dir') /\ xrayRun' \in {dir'["xray"], Down}
             /\ \A w \in Writers : pc'[w] = "write" => local'[w].mode = dir'["xray"].mode
  BY <1>3, <1>5
<1>6. ASSUME NEW p \in Procs, Approaches(p)
      PROVE  /\ dir' = dir /\ xrayRun' = xrayRun
             /\ \A w \in Writers : pc'[w] = "write" => pc[w] = "write" /\ local'[w] = local[w]
  <2>1. pc'[p] # "write"
    BY <1>4, <1>6 DEF Approaches, OpenLock, AcquireConfigLock, ErrLockBusy, Become
  <2>2. QED
    BY <1>1, <1>6, <2>1, ApproachTypes, WriterTypes
<1>7. ASSUME NEW p \in Procs, Kill(p)
      PROVE  /\ dir' = dir /\ xrayRun' = xrayRun
             /\ \A w \in Writers : pc'[w] = "write" => pc[w] = "write" /\ local'[w] = local[w]
  <2>1. ~At(p, "remove")
    <3>1. p \in Writers => pc[p] # "remove"
      BY <1>1 DEF TypeInv, ProcTypes, Ended, WriterSteps
    <3>2. QED
      BY <1>2, <3>1, PastSteps DEF At, Procs
  <2>2. dir' = dir /\ xrayRun' = xrayRun
    BY <1>7, <2>1 DEF Kill, outside
  <2>3. QED
    BY <1>1, <1>7, <2>2, KillMoves, WriterTypes DEF Moves
<1>8. ASSUME NEW u \in Upgrades, Upgrade(u)
      PROVE  \A w \in Writers : pc'[w] = "write" => pc[w] = "write" /\ local'[w] = local[w]
  BY <1>1, <1>8, UpgradeMoves, UpgradeTypes, WriterTypes DEF Moves
<1>9. ASSUME NEW u \in Upgrades, BackfillHy2(u), dir' # dir
      PROVE  Fits(dir') /\ dir'["xray"] = dir["xray"] /\ xrayRun' = xrayRun
  <2>1. dir' = [dir EXCEPT !["hysteria"] = u] /\ xrayRun' = xrayRun /\ u # Missing
    BY <1>9, MarksAssumption DEF BackfillHy2, outside, Hosts
  <2>2. QED
    BY <1>3, <1>4, <2>1 DEF Contents, Fits, Whole, Files
<1>10. ASSUME NEW u \in Upgrades, ReRenderInPlace(u)
       PROVE  dir' = dir /\ xrayRun' = xrayRun
  <2> DEFINE xray == [mode |-> dir["env"].mode, users |-> dir["xray"].users]
  <2>1. xray = dir["xray"] /\ dir["cloudflared"] = dir["env"].mode
        /\ dir["xray"] # Missing /\ dir["env"] # Missing
    BY <1>3, <1>4 DEF Fits, Whole, Files, Xray
  <2>2. [dir EXCEPT !["xray"] = xray] = dir
    BY <1>4, <2>1 DEF Contents
  <2>3. [dir EXCEPT !["xray"] = xray, !["cloudflared"] = dir["env"].mode] = dir
    BY <1>4, <2>1 DEF Contents
  <2>4. QED
    BY <1>10, <2>1, <2>2, <2>3 DEF ReRenderInPlace
<1>11. ASSUME NEW u \in Upgrades, Upgrade(u)
       PROVE  \/ EnsureRuntimeBinaries(u) \/ LoadUpgradeEnv(u) \/ BackfillHy2(u)
              \/ ReRenderInPlace(u) \/ BackupConfig(u)
  BY <1>2, <1>11, PastSteps DEF Upgrade, At, Prepare, WriteXrayConfig, WriteCloudflaredConfig,
     UpsertVpnRecord, UpsertHy2Record, RestartXray, SaveEnv, RegenerateSubscriptions, Finish,
     DeleteCreated, RemoveConfigDir, RestoreFile, RestartMutated
<1>12. ASSUME NEW u \in Upgrades, EnsureRuntimeBinaries(u) \/ LoadUpgradeEnv(u) \/ BackupConfig(u)
       PROVE  dir' = dir /\ xrayRun' \in {xrayRun, dir["xray"], Down}
  BY <1>12 DEF EnsureRuntimeBinaries, LoadUpgradeEnv, BackupConfig, outside
<1>13. ASSUME NEW w \in Writers, Read(w)
       PROVE  /\ Fits(dir') /\ xrayRun' \in {dir'["xray"], Down}
              /\ \A x \in Writers : pc'[x] = "write" => local'[x].mode = dir'["xray"].mode
  <2>1. dir' = dir /\ xrayRun' = xrayRun /\ w \in Procs
    BY <1>13, WriterTypes, <1>1 DEF Read, outside
  <2>2. local'[w] = [dir["xray"] EXCEPT !.users = @ \cup {w}]
    BY <1>3, <1>4, <1>13, <2>1 DEF Read, Fits, Whole, Files
  <2>3. local'[w].mode = dir["xray"].mode
    BY <1>4, <2>2 DEF Xray
  <2>4. \A x \in Writers \ {w} : pc'[x] = pc[x] /\ local'[x] = local[x]
    BY <1>1, <1>13, <2>1, ReadMoves, WriterTypes DEF Moves
  <2>5. QED
    BY <1>3, <2>1, <2>3, <2>4
<1>14. ASSUME NEW w \in Writers, Write(w)
       PROVE  /\ Fits(dir') /\ xrayRun' \in {dir'["xray"], Down}
              /\ \A x \in Writers : pc'[x] = "write" => local'[x].mode = dir'["xray"].mode
  <2>1. pc[w] = "write" /\ local[w] \in Xray /\ w \in Procs /\ local[w].mode = dir["xray"].mode
    BY <1>1, <1>3, <1>4, <1>14, WriterTypes DEF Write, At
  <2>2. pc'[w] # "write"
    BY <1>4, <1>14, <2>1 DEF Write, End, Become
  <2>3. \A x \in Writers \ {w} : pc'[x] = pc[x] /\ local'[x] = local[x]
    BY <1>1, <1>14, WriteMoves, WriterTypes DEF Moves
  <2>4. CASE UNCHANGED <<dir, xrayRun>>
    BY <1>3, <2>2, <2>3, <2>4
  <2>5. CASE dir' = [dir EXCEPT !["xray"] = local[w]] /\ xrayRun' = local[w]
    <3>1. /\ dir'["xray"] = local[w] /\ local[w] # Missing
          /\ \A f \in Files \ {"xray"} : dir'[f] = dir[f]
      BY <1>4, <2>1, <2>5, MarksAssumption DEF Contents, Files
    <3>2. Fits(dir')
      BY <1>3, <2>1, <3>1 DEF Fits, Whole, Files
    <3>3. QED
      BY <1>3, <2>1, <2>2, <2>3, <2>5, <3>1, <3>2
  <2>6. QED
    BY <1>14, <2>4, <2>5 DEF Write
<1>15. ASSUME NEW u \in Upgrades, Upgrade(u)
       PROVE  /\ Fits(dir') /\ xrayRun' \in {dir'["xray"], Down}
              /\ \A w \in Writers : pc'[w] = "write" => local'[w].mode = dir'["xray"].mode
  <2>1. CASE BackfillHy2(u) /\ dir' # dir
    BY <1>3, <1>8, <1>9, <1>15, <2>1
  <2>2. CASE BackfillHy2(u) /\ dir' = dir
    BY <1>5, <1>8, <1>15, <2>2 DEF BackfillHy2, outside
  <2>3. QED
    BY <1>5, <1>8, <1>10, <1>11, <1>12, <1>15, <2>1, <2>2
<1>16. CASE UNCHANGED vars
  BY <1>3, <1>16 DEF vars
<1>17. QED
  BY <1>1, <1>5, <1>6, <1>7, <1>13, <1>14, <1>15, <1>16, NextCases

LEMMA RefusalTypes ==
    ASSUME NEW u \in Upgrades
    PROVE  Refusals(u) \in {0, 1} /\ Refusals(u)' \in {0, 1}
BY DEF Refusals

\* What Cloudflare refuses once it refuses as long as the record is there.
LEMMA RefusalStays ==
    ASSUME NEW u \in Upgrades, local'[u].env = local[u].env,
           local[u].env.mode = "cloudflare" /\ A(local[u].env.host) \in dns
              => A(local[u].env.host) \in dns'
    PROVE  Refusals(u)' >= Refusals(u)
BY DEF Refusals

\* A step of u's that does not restore, for what it does not change.
LEMMA KeptStill ==
    ASSUME TypeInv, NEW u \in Upgrades, KeptBy(u), pc[u] \in Past, pc[u] # "restore",
           pc'[u] # "restore", backups' = backups, lockFile' = lockFile,
           local'[u].env = local[u].env, local'[u].todo = local[u].todo,
           \A h \in Hosts : local[u].env.mode = "cloudflare" /\ A(h) \in local'[u].created
              => A(h) \in local[u].created,
           \/ local'[u].mutated = local[u].mutated /\ xrayRun' \in {xrayRun, Down}
           \/ local'[u].mutated = TRUE,
           pc'[u] \in InCore => dir'["xray"] # Missing,
           pc'[u] \in InRollback => faults' + Refusals(u)' > 0
    PROVE  KeptBy(u)'
<1>1. local[u].env.mode = "cloudflare" => \A h \in Hosts : A(h) \notin local[u].created
  BY DEF KeptBy
<1>2. local[u].mutated \/ xrayRun \in {backups[1].files["xray"], Down}
  BY DEF KeptBy
<1>3. local'[u].mutated \/ xrayRun' \in {backups[1].files["xray"], Down}
  BY <1>2
<1>4. Fits(backups[1].files) /\ lockFile = Old /\ local[u].todo = Files
  BY DEF KeptBy
<1>5. Fits(backups'[1].files)
  BY <1>4
<1>6. QED
  BY <1>1, <1>3, <1>4, <1>5 DEF KeptBy, Fits, Whole

\* A step of the core, or the first of the rollback.
LEMMA KeptByCore ==
    ASSUME TypeInv, [Next]_vars, NEW u \in Upgrades, pc[u] \in Past, Only(u), KeptBy(u),
           pc'[u] \in Past, backups' = backups,
           \/ Prepare(u) \/ WriteXrayConfig(u) \/ WriteCloudflaredConfig(u) \/ UpsertVpnRecord(u)
           \/ UpsertHy2Record(u) \/ RestartXray(u) \/ SaveEnv(u) \/ RegenerateSubscriptions(u)
           \/ Finish(u) \/ DeleteCreated(u)
    PROVE  KeptBy(u)'
<1>1. /\ u \in Procs /\ pc \in [Procs -> Steps] /\ local \in [Procs -> Kept] /\ dir \in Contents
      /\ local[u] \in UpgradeLocal /\ faults \in Nat
  BY UpgradeTypes, PastSteps, FaultsGrow DEF TypeInv, ProcTypes, DataTypes
<1>2. Fault => faults' > 0
  BY <1>1 DEF Fault
<1>3. Refusals(u)' \in {0, 1} /\ faults' \in Nat
  BY <1>1, RefusalTypes, FaultsGrow
<1>4. Fault => faults' + Refusals(u)' > 0
  BY <1>2, <1>3
<1>5. pc[u] # "restore" /\ (pc[u] \in InCore => dir["xray"] # Missing)
  BY PastSteps DEF KeptBy, Prepare, WriteXrayConfig, WriteCloudflaredConfig, UpsertVpnRecord,
     UpsertHy2Record, RestartXray, SaveEnv, RegenerateSubscriptions, Finish, DeleteCreated, At
<1>6. ASSUME NEW s \in Past, s # "restore", GoTo(u, s), xrayRun' \in {xrayRun, Down},
             s \in InCore => dir'["xray"] # Missing,
             s \in InRollback => faults' + Refusals(u)' > 0
      PROVE  KeptBy(u)'
  <2>1. pc'[u] = s /\ local' = local /\ lockFile' = lockFile
    BY <1>1, <1>6 DEF GoTo, Become, locks
  <2>2. QED
    BY <1>5, <1>6, <2>1, KeptStill
<1>7. ASSUME Fault, GoTo(u, "delete_created"), xrayRun' \in {xrayRun, Down} PROVE KeptBy(u)'
  BY <1>4, <1>6, <1>7, PastSteps, StepSets
<1>8. ASSUME NEW result \in Ended, End(u, result) PROVE FALSE
  BY <1>1, <1>8 DEF End, Become, Ended, Past, InCore, InRollback
<1>9. ASSUME NEW s \in InCore, NEW rec \in Records, UpsertA(u, rec, s), dir' = dir, xrayRun' = xrayRun,
             pc[u] \in InCore,
             local[u].env.mode = "cloudflare" => \A h \in Hosts : rec # A(h)
      PROVE  KeptBy(u)'
  <2>1. CASE /\ local' = [local EXCEPT ![u].created = @ \cup {rec}]
             /\ Become(u, s) /\ UNCHANGED locks
    <3>1. pc'[u] = s /\ lockFile' = lockFile
      BY <1>1, <2>1 DEF Become, locks
    <3>2. local'[u] = [local[u] EXCEPT !.created = @ \cup {rec}]
      BY <1>1, <2>1
    <3>3. /\ local'[u].env = local[u].env /\ local'[u].todo = local[u].todo
          /\ local'[u].mutated = local[u].mutated /\ local'[u].created = local[u].created \cup {rec}
      BY <1>1, <3>2 DEF UpgradeLocal
    <3>4. s # "restore" /\ s \notin InRollback
      BY StepSets, PastSteps
    <3>5. QED
      BY <1>5, <1>9, <3>1, <3>3, <3>4, KeptStill
  <2>2. QED
    BY <1>7, <1>9, <2>1 DEF UpsertA
<1>10. CASE Prepare(u)
  <2>1. pc[u] = "prepare" /\ dir["xray"] # Missing /\ UNCHANGED <<dir, xrayRun>>
    BY <1>5, <1>10, PastSteps DEF Prepare, At, outside
  <2>2. CASE /\ local' = [local EXCEPT ![u].users = dir["xray"].users]
             /\ Become(u, "write_xray") /\ UNCHANGED locks
    <3>1. pc'[u] = "write_xray" /\ lockFile' = lockFile
      BY <1>1, <2>2 DEF Become, locks
    <3>2. local'[u] = [local[u] EXCEPT !.users = dir["xray"].users]
      BY <1>1, <2>2
    <3>3. /\ local'[u].env = local[u].env /\ local'[u].todo = local[u].todo
          /\ local'[u].mutated = local[u].mutated /\ local'[u].created = local[u].created
      BY <1>1, <3>2 DEF UpgradeLocal
    <3>4. pc'[u] # "restore" /\ pc'[u] \notin InRollback
      BY <3>1 DEF InRollback
    <3>5. QED
      BY <1>5, <2>1, <3>1, <3>3, <3>4, KeptStill
  <2>3. QED
    BY <1>7, <1>10, <2>1, <2>2 DEF Prepare
<1>11. CASE WriteXrayConfig(u)
  <2> DEFINE xray == [mode |-> local[u].env.mode, users |-> local[u].users]
  <2>1. xray # Missing
    BY <1>1, MarksAssumption DEF UpgradeLocal, Xray
  <2>2. CASE dir' = [dir EXCEPT !["xray"] = xray] /\ GoTo(u, "write_cloudflared")
    <3>1. dir'["xray"] # Missing
      BY <1>1, <2>1, <2>2 DEF Contents
    <3>2. "write_cloudflared" \in Past /\ "write_cloudflared" \notin InRollback
      BY PastSteps DEF InRollback
    <3>3. QED
      BY <1>6, <1>11, <2>2, <3>1, <3>2 DEF WriteXrayConfig, outside
  <2>3. QED
    BY <1>7, <1>11, <2>2 DEF WriteXrayConfig, outside
<1>12. CASE WriteCloudflaredConfig(u) \/ SaveEnv(u)
  <2>1. pc[u] \in InCore /\ xrayRun' = xrayRun
    BY <1>12, PastSteps DEF WriteCloudflaredConfig, SaveEnv, At, outside
  <2>2. dir'["xray"] = dir["xray"]
    BY <1>1, <1>12 DEF WriteCloudflaredConfig, SaveEnv, Contents
  <2>3. {"upsert_vpn", "subscriptions"} \subseteq Past /\ {"upsert_vpn", "subscriptions"} \cap InRollback = {}
    BY PastSteps DEF InRollback
  <2>4. QED
    BY <1>5, <1>6, <1>7, <1>12, <2>1, <2>2, <2>3 DEF WriteCloudflaredConfig, SaveEnv
<1>13. CASE RegenerateSubscriptions(u) \/ Finish(u)
  <2>1. pc[u] \in InCore /\ xrayRun' = xrayRun /\ dir' = dir
    BY <1>13, PastSteps DEF RegenerateSubscriptions, Finish, At, outside
  <2>2. "finish" \in Past /\ "finish" \notin InRollback
    BY PastSteps DEF InRollback
  <2>3. QED
    BY <1>5, <1>6, <1>7, <1>8, <1>13, <2>1, <2>2, PastSteps DEF RegenerateSubscriptions, Finish
<1>14. CASE UpsertHy2Record(u)
  <2>1. pc[u] \in InCore /\ dir' = dir /\ xrayRun' = xrayRun /\ "restart_xray" \in InCore
    BY <1>14, PastSteps DEF UpsertHy2Record, At
  <2>2. Hy2(local[u].env.hy2) \in Records
    BY <1>1 DEF UpgradeLocal, Hy2, Records
  <2>3. \A h \in Hosts : Hy2(local[u].env.hy2) # A(h)
    BY DEF Hy2, A
  <2>4. QED
    BY <1>9, <1>14, <2>1, <2>2, <2>3 DEF UpsertHy2Record
<1>15. CASE UpsertVpnRecord(u)
  <2>1. /\ pc[u] \in InCore /\ dir' = dir /\ xrayRun' = xrayRun /\ dir["xray"] # Missing
        /\ "upsert_hy2" \in InCore \cap Past /\ "upsert_hy2" \notin InRollback
    BY <1>5, <1>15, PastSteps DEF UpsertVpnRecord, At, InRollback
  <2>2. CASE local[u].env.mode = "direct"
    <3>1. A(local[u].env.host) \in Records /\ local[u].env.mode # "cloudflare"
      BY <1>1, <2>2 DEF UpgradeLocal, A, Records
    <3>2. QED
      BY <1>9, <1>15, <2>1, <2>2, <3>1 DEF UpsertVpnRecord
  <2>3. CASE local[u].env.mode # "direct"
    <3>1. local[u].env.mode = "cloudflare"
      BY <1>1, <2>3 DEF UpgradeLocal, Modes
    <3>2. CASE A(local[u].env.host) \in dns /\ UNCHANGED dns /\ GoTo(u, "delete_created")
      <4>1. local' = local
        BY <3>2 DEF GoTo
      <4>2. Refusals(u)' # 0
        BY <3>1, <3>2, <4>1 DEF Refusals
      <4>3. faults' + Refusals(u)' > 0
        BY <1>3, <4>2
      <4>4. QED
        BY <1>6, <2>1, <3>2, <4>3, PastSteps, StepSets
    <3>3. QED
      BY <1>6, <1>7, <1>15, <2>1, <2>3, <3>2 DEF UpsertVpnRecord
  <2>4. QED
    BY <2>2, <2>3
<1>16. CASE RestartXray(u)
  <2>1. pc[u] \in InCore /\ dir' = dir /\ dir["xray"] # Missing
    BY <1>5, <1>16, PastSteps DEF RestartXray, At
  <2>2. CASE /\ local' = [local EXCEPT ![u].mutated = TRUE]
             /\ Become(u, "save_env") /\ UNCHANGED locks
    <3>1. pc'[u] = "save_env" /\ lockFile' = lockFile
      BY <1>1, <2>2 DEF Become, locks
    <3>2. local'[u] = [local[u] EXCEPT !.mutated = TRUE]
      BY <1>1, <2>2
    <3>3. /\ local'[u].env = local[u].env /\ local'[u].todo = local[u].todo
          /\ local'[u].mutated = TRUE /\ local'[u].created = local[u].created
      BY <1>1, <3>2 DEF UpgradeLocal
    <3>4. pc'[u] # "restore" /\ pc'[u] \notin InRollback
      BY <3>1 DEF InRollback
    <3>5. QED
      BY <1>5, <2>1, <3>1, <3>3, <3>4, KeptStill
  <2>3. QED
    BY <1>7, <1>16, <2>1, <2>2 DEF RestartXray
<1>17. CASE DeleteCreated(u)
  <2>1. pc[u] = "delete_created" /\ pc[u] \in InRollback /\ GoTo(u, "remove") /\ xrayRun' = xrayRun
        /\ dns \ local[u].created \subseteq dns'
    BY <1>17, PastSteps DEF DeleteCreated, At
  <2>2. local' = local
    BY <2>1 DEF GoTo
  <2>3. local[u].env.host \in Hosts
    BY <1>1 DEF UpgradeLocal
  <2>4. Refusals(u)' >= Refusals(u)
    BY <2>1, <2>2, <2>3, RefusalStays DEF KeptBy
  <2>5. faults + Refusals(u) > 0 /\ faults' \in {faults, faults + 1}
    BY <2>1, FaultsGrow DEF KeptBy
  <2>6. faults' + Refusals(u)' > 0
    BY <1>1, <1>3, <2>4, <2>5, RefusalTypes
  <2>7. "remove" \in Past /\ "remove" \notin InCore
    BY PastSteps DEF InCore
  <2>8. QED
    BY <1>6, <2>1, <2>6, <2>7
<1>18. QED
  BY <1>10, <1>11, <1>12, <1>13, <1>14, <1>15, <1>16, <1>17

\* The only backup is all that u restores from.
LEMMA OnlyBackup ==
    ASSUME TypeInv, NEW u \in Upgrades, Only(u)
    PROVE  BackupsOf(u) = {backups[1].files}
<1>1. Len(backups) = 1 /\ backups[1].by = u
  BY DEF Only
<1>2. \A j \in 1..Len(backups) : j = 1
  BY <1>1
<1>3. 1 \in 1..Len(backups)
  BY <1>1
<1>4. QED
  BY <1>1, <1>2, <1>3 DEF BackupsOf

\* The directory is gone, and u starts to restore.
LEMMA KeptByRemove ==
    ASSUME TypeInv, LockInv, NEW u \in Upgrades, Only(u), KeptBy(u), RemoveConfigDir(u),
           pc'[u] \in Past, [Next]_vars
    PROVE  KeptBy(u)'
<1>1. /\ u \in Procs /\ pc \in [Procs -> Steps] /\ dir \in Contents
      /\ pc[u] = "remove" /\ pc[u] \in Past /\ pc[u] \in InRollback
      /\ UNCHANGED <<backups, subs, xrayRun, dns>> /\ "error" \notin Past
  BY UpgradeTypes, PastSteps, StepSets DEF TypeInv, ProcTypes, DataTypes, RemoveConfigDir, At, outside
<1>2. NoFault /\ CutOff(Files) /\ pc' = [pc EXCEPT ![u] = "restore"] /\ local' = local
  BY <1>1 DEF RemoveConfigDir, Become
<1>3. /\ Fits(backups[1].files)
      /\ local[u].env.mode = "cloudflare" => \A h \in Hosts : A(h) \notin local[u].created
      /\ faults + Refusals(u) > 0 /\ lockFile = Old /\ local[u].todo = Files
      /\ local[u].mutated \/ xrayRun \in {backups[1].files["xray"], Down}
  BY <1>1 DEF KeptBy
<1>4. dir'["xray"] = Missing
  BY <1>2 DEF CutOff, Files
<1>5. Refusals(u)' = Refusals(u) /\ faults' = faults /\ pc'[u] = "restore"
  BY <1>1, <1>2 DEF Refusals, NoFault
<1>6. \A w \in Writers : pc'[w] # "write"
  <2>1. ASSUME NEW w \in Writers, pc'[w] = "write" PROVE FALSE
    <3>1. w \in Procs /\ w # u
      BY WriterTypes
    <3>2. pc[w] = "write" /\ "write" \in Holding
      BY <1>1, <1>2, <2>1, <3>1 DEF Holding, WriterSteps
    <3>3. QED
      BY <1>1, <1>3, <3>1, <3>2, OneHolder, PastSteps
  <2>2. QED
    BY <2>1
<1>7. "xray" \in Files /\ "hysteria" \in Files /\ {"env", "cloudflared"} \ Files = {}
  BY DEF Files
<1>8. Restored(u)'
  BY <1>1, <1>2, <1>3, <1>4, <1>6, <1>7 DEF Restored
<1>9. "restore" \notin InCore
  BY DEF InCore
<1>10. Fits(backups'[1].files)
  BY <1>1, <1>3
<1>11. QED
  BY <1>2, <1>3, <1>5, <1>8, <1>9, <1>10 DEF KeptBy, Fits, Whole

LEMMA KeptByRestore ==
    ASSUME TypeInv, NEW u \in Upgrades, Only(u), KeptBy(u), NEW f \in Files, RestoreFile(u, f),
           pc'[u] \in Past
    PROVE  KeptBy(u)'
<1> DEFINE was == backups[1].files
<1>1. /\ u \in Procs /\ pc \in [Procs -> Steps] /\ dir \in Contents /\ local \in [Procs -> Kept]
      /\ pc[u] = "restore" /\ pc[u] \in InRollback /\ local[u] \in UpgradeLocal
      /\ UNCHANGED <<backups, subs, xrayRun, dns>> /\ "error" \notin Past /\ "restore" \notin InCore
      /\ f \in local[u].todo /\ Before(f) \cap local[u].todo = {}
  BY UpgradeTypes, PastSteps, StepSets DEF TypeInv, ProcTypes, DataTypes, RestoreFile, At, outside
<1>2. ~End(u, "error")
  BY <1>1 DEF End, Become
<1>3. /\ Fits(was) /\ faults + Refusals(u) > 0 /\ Restored(u)
      /\ local[u].env.mode = "cloudflare" => \A h \in Hosts : A(h) \notin local[u].created
  BY <1>1 DEF KeptBy
<1>4. /\ NoFault /\ pc' = pc /\ local' = [local EXCEPT ![u].todo = @ \ {f}]
      /\ \E d \in BackupsOf(u) : dir' = IF d[f] = Missing THEN dir ELSE [dir EXCEPT ![f] = d[f]]
  BY <1>2 DEF RestoreFile
<1>5. was[f] # Missing
  BY <1>3 DEF Fits, Whole
<1>6. dir' = [dir EXCEPT ![f] = was[f]]
  BY <1>4, <1>5, OnlyBackup
<1>7. dir'[f] = was[f] /\ \A g \in Files \ {f} : dir'[g] = dir[g]
  BY <1>1, <1>6 DEF Contents, Files
<1>8. /\ local'[u].env = local[u].env /\ local'[u].todo = local[u].todo \ {f}
      /\ local'[u].mutated = local[u].mutated /\ local'[u].created = local[u].created
      /\ \A w \in Writers : local'[w] = local[w]
  <2>1. local'[u] = [local[u] EXCEPT !.todo = @ \ {f}]
    BY <1>1, <1>4
  <2>2. \A w \in Writers : local'[w] = local[w]
    BY <1>1, <1>4, WriterTypes
  <2>3. QED
    BY <1>1, <2>1, <2>2 DEF UpgradeLocal
<1>9. Refusals(u)' = Refusals(u) /\ faults' = faults
  BY <1>1, <1>4, <1>8 DEF Refusals, NoFault
<1>10. "xray" \in local[u].todo
  <2>1. local[u].todo # {}
    BY <1>1
  <2>2. QED
    BY <1>3, <2>1 DEF Restored
<1>11. /\ \A g \in {"env", "cloudflared"} \ local[u].todo : dir[g] = was[g]
       /\ dir["xray"] = Missing /\ \A w \in Writers : pc[w] # "write"
       /\ local[u].mutated \/ xrayRun \in {was["xray"], Down}
       /\ \/ "hysteria" \in local[u].todo \/ dir["hysteria"] = was["hysteria"]
          \/ faults + Refusals(u) > 1 \/ \E v \in Upgrades \ {u} : pc[v] = "backup"
  BY <1>3, <1>10 DEF Restored
<1>12. Files = {"env", "cloudflared", "hysteria", "xray"}
  BY DEF Files
<1>13. \A g \in {"env", "cloudflared"} \ local'[u].todo : dir'[g] = was[g]
  BY <1>7, <1>8, <1>11, <1>12
<1>14. \/ "hysteria" \in local'[u].todo \/ dir'["hysteria"] = was["hysteria"]
       \/ faults' + Refusals(u)' > 1 \/ \E v \in Upgrades \ {u} : pc'[v] = "backup"
  BY <1>4, <1>7, <1>8, <1>9, <1>11, <1>12
<1>15. CASE f # "xray"
  <2>1. "xray" \in local'[u].todo /\ dir'["xray"] = Missing /\ \A w \in Writers : pc'[w] # "write"
    BY <1>4, <1>7, <1>8, <1>10, <1>11, <1>12, <1>15
  <2>2. local'[u].mutated \/ xrayRun' \in {was["xray"], Down}
    BY <1>1, <1>8, <1>11
  <2>3. Restored(u)'
    BY <1>1, <1>13, <1>14, <2>1, <2>2 DEF Restored
  <2>4. QED
    BY <1>1, <1>3, <1>4, <1>8, <1>9, <2>3 DEF KeptBy, Fits, Whole
<1>16. CASE f = "xray"
  <2>1. local'[u].todo = {}
    <3>1. local[u].todo \subseteq Files
      BY <1>1 DEF UpgradeLocal
    <3>2. QED
      BY <1>1, <1>8, <1>12, <1>16, <3>1 DEF Before
  <2>2. dir'["xray"] = was["xray"] /\ was["xray"] # Missing
    BY <1>5, <1>7, <1>16
  <2>3. Grown(dir'["xray"], was["xray"])
    BY <2>2 DEF Grown
  <2>4. \A w \in Writers : pc'[w] # "write"
    BY <1>4, <1>11
  <2>5. local'[u].mutated \/ xrayRun' \in {dir'["xray"], Down}
    BY <1>1, <1>8, <1>11, <2>2
  <2>6. Restored(u)'
    BY <1>1, <1>13, <1>14, <2>1, <2>3, <2>4, <2>5 DEF Restored, Grown
  <2>7. QED
    BY <1>1, <1>3, <1>4, <1>8, <1>9, <2>6 DEF KeptBy, Fits, Whole
<1>17. QED
  BY <1>15, <1>16

\* While u restores, a step of another process that adds no user.
LEMMA RestoredStill ==
    ASSUME TypeInv, NEW u \in Upgrades, KeptBy(u), pc[u] = "restore", pc'[u] = "restore",
           local'[u] = local[u], UNCHANGED <<backups, dns>>,
           faults \in Nat, faults' \in {faults, faults + 1},
           \A f \in {"env", "cloudflared", "xray"} : dir'[f] = dir[f],
           \/ dir'["hysteria"] = dir["hysteria"] \/ faults' = faults + 1
           \/ \E v \in Upgrades \ {u} : pc'[v] = "backup",
           \A v \in Upgrades \ {u} : pc[v] = "backup" => pc'[v] = "backup" \/ faults' = faults + 1,
           xrayRun' \in {xrayRun, Down} \/ (xrayRun' = dir["xray"] /\ dir["xray"] # Missing),
           \A w \in Writers : pc'[w] = "write" => pc[w] = "write" /\ local'[w] = local[w]
    PROVE  KeptBy(u)'
<1> DEFINE was == backups[1].files
<1>1. /\ Fits(was) /\ faults + Refusals(u) > 0 /\ Restored(u)
      /\ local[u].env.mode = "cloudflare" => \A h \in Hosts : A(h) \notin local[u].created
  BY PastSteps DEF KeptBy
<1>2. Refusals(u)' = Refusals(u) /\ Refusals(u) \in {0, 1}
  BY RefusalTypes DEF Refusals
<1>3. \A f \in {"env", "cloudflared"} \ local'[u].todo : dir'[f] = was[f]
  BY <1>1 DEF Restored
<1>4. \/ "hysteria" \in local'[u].todo \/ dir'["hysteria"] = was["hysteria"]
      \/ faults' + Refusals(u)' > 1 \/ \E v \in Upgrades \ {u} : pc'[v] = "backup"
  <2>1. CASE faults' = faults + 1
    BY <1>1, <1>2, <2>1
  <2>2. CASE faults' = faults
    <3>1. faults' # faults + 1
      BY <2>2
    <3>2. \/ "hysteria" \in local[u].todo \/ dir["hysteria"] = was["hysteria"]
          \/ faults + Refusals(u) > 1 \/ \E v \in Upgrades \ {u} : pc[v] = "backup"
      BY <1>1 DEF Restored
    <3>3. QED
      BY <1>2, <2>2, <3>1, <3>2
  <2>3. QED
    BY <2>1, <2>2
<1>5. CASE "xray" \in local[u].todo
  <2>1. /\ dir["xray"] = Missing /\ \A w \in Writers : pc[w] # "write"
        /\ local[u].mutated \/ xrayRun \in {was["xray"], Down}
    BY <1>1, <1>5 DEF Restored
  <2>2. /\ dir'["xray"] = Missing /\ \A w \in Writers : pc'[w] # "write"
        /\ local[u].mutated \/ xrayRun' \in {was["xray"], Down}
    BY <2>1
  <2>3. Restored(u)'
    BY <1>3, <1>4, <1>5, <2>2 DEF Restored
  <2>4. QED
    BY <1>1, <1>2, <2>3, PastSteps, StepSets DEF KeptBy, Fits, Whole
<1>6. CASE "xray" \notin local[u].todo
  <2>1. /\ local[u].todo = {} /\ Grown(dir["xray"], was["xray"])
        /\ \A w \in Writers : pc[w] = "write" => Grown(local[w], was["xray"])
        /\ local[u].mutated \/ xrayRun \in {dir["xray"], Down}
    BY <1>1, <1>6 DEF Restored
  <2>2. /\ Grown(dir'["xray"], was["xray"])
        /\ \A w \in Writers : pc'[w] = "write" => Grown(local'[w], was["xray"])
        /\ local[u].mutated \/ xrayRun' \in {dir'["xray"], Down}
    BY <2>1
  <2>3. Restored(u)'
    BY <1>3, <1>4, <1>6, <2>1, <2>2 DEF Restored, Grown
  <2>4. QED
    BY <1>1, <1>2, <2>3, PastSteps, StepSets DEF KeptBy, Fits, Whole
<1>7. QED
  BY <1>5, <1>6

\* An upgrade that has got in behind the rollback.
LEMMA KeptByUpgrade ==
    ASSUME TypeInv, CountInv, CountInv', [Next]_vars, NEW u \in Upgrades, Only(u), KeptBy(u),
           pc[u] = "restore", backups' = backups, NEW v \in Upgrades, v # u, Upgrade(v)
    PROVE  KeptBy(u)'
<1>1. /\ u \in Procs /\ v \in Procs /\ pc \in [Procs -> Steps] /\ local \in [Procs -> Kept]
      /\ dir \in Contents /\ faults \in Nat /\ faults' \in {faults, faults + 1}
  BY UpgradeTypes, FaultsGrow DEF TypeInv, ProcTypes, DataTypes
<1>2. /\ pc'[u] = "restore" /\ local'[u] = local[u]
      /\ \A x \in Upgrades \ {v} : pc'[x] = pc[x]
      /\ \A w \in Writers : pc'[w] = pc[w] /\ local'[w] = local[w]
  BY <1>1, UpgradeMoves, UpgradeTypes, WriterTypes DEF Moves
<1>3. pc[v] \notin Past /\ pc'[v] \notin Past
  BY DEF CountInv, Only
<1>4. /\ Restored(u) /\ Fits(backups[1].files)
  BY DEF KeptBy
<1>5. ASSUME UNCHANGED <<dir, dns>>,
             xrayRun' \in {xrayRun, Down} \/ (xrayRun' = dir["xray"] /\ dir["xray"] # Missing),
             pc[v] = "backup" => faults' = faults + 1
      PROVE  KeptBy(u)'
  BY <1>1, <1>2, <1>5, RestoredStill
<1>6. CASE EnsureRuntimeBinaries(v) \/ LoadUpgradeEnv(v)
  <2>1. UNCHANGED <<dir, dns>> /\ pc[v] # "backup"
    BY <1>6 DEF EnsureRuntimeBinaries, LoadUpgradeEnv, At, outside
  <2>2. xrayRun' \in {xrayRun, Down} \/ (xrayRun' = dir["xray"] /\ dir["xray"] # Missing)
    BY <1>6 DEF EnsureRuntimeBinaries, LoadUpgradeEnv, outside
  <2>3. QED
    BY <1>5, <2>1, <2>2
<1>7. CASE BackfillHy2(v)
  <2>1. /\ UNCHANGED <<dns, xrayRun>> /\ pc[v] # "backup"
        /\ \A f \in {"env", "cloudflared", "xray"} : dir'[f] = dir[f]
    BY <1>1, <1>7 DEF BackfillHy2, At, outside, Contents
  <2>2. pc'[v] = "backup" \/ faults' = faults + 1
    BY <1>1, <1>7 DEF BackfillHy2, GoTo, Become, Fault
  <2>3. \A x \in Upgrades \ {u} : pc[x] = "backup" => pc'[x] = "backup"
    BY <1>2, <2>1
  <2>4. QED
    BY <1>1, <1>2, <2>1, <2>2, <2>3, RestoredStill
<1>8. CASE ReRenderInPlace(v)
  <2> DEFINE xray == [mode |-> dir["env"].mode, users |-> dir["xray"].users]
             was == backups[1].files
  <2>1. dns' = dns /\ pc[v] # "backup"
    BY <1>8 DEF ReRenderInPlace, At
  <2>2. CASE UNCHANGED <<dir, xrayRun>>
    BY <1>5, <2>1, <2>2
  <2>3. CASE dir["xray"] # Missing /\ dir["env"] # Missing
    <3>1. "xray" \notin local[u].todo
      BY <1>4, <2>3 DEF Restored
    <3>2. /\ dir["env"] = was["env"] /\ dir["cloudflared"] = was["cloudflared"]
          /\ dir["xray"].mode = was["xray"].mode
      BY <1>4, <3>1 DEF Restored, Grown
    <3>3. dir["xray"] \in Xray
      BY <1>1, <2>3, FileTypes
    <3>4. xray = dir["xray"] /\ dir["cloudflared"] = dir["env"].mode
      BY <1>4, <3>2, <3>3 DEF Fits, Xray
    <3>5. [dir EXCEPT !["xray"] = xray] = dir
      BY <1>1, <3>4 DEF Contents
    <3>6. [dir EXCEPT !["xray"] = xray, !["cloudflared"] = dir["env"].mode] = dir
      BY <1>1, <3>4 DEF Contents
    <3>7. UNCHANGED <<dir, xrayRun>>
      BY <1>8, <2>3, <3>4, <3>5, <3>6 DEF ReRenderInPlace
    <3>8. QED
      BY <2>2, <3>7
  <2>4. QED
    BY <1>8, <2>2, <2>3 DEF ReRenderInPlace
<1>9. CASE BackupConfig(v)
  <2>1. UNCHANGED <<dir, dns, xrayRun>>
    BY <1>9 DEF BackupConfig, outside
  <2>2. ~GoTo(v, "prepare")
    BY <1>1, <1>3, PastSteps DEF GoTo, Become
  <2>3. faults' = faults + 1
    BY <1>9, <2>2 DEF BackupConfig, Fault
  <2>4. QED
    BY <1>5, <2>1, <2>3
<1>10. QED
  BY <1>3, <1>6, <1>7, <1>8, <1>9, PastSteps DEF Upgrade, At, Prepare, WriteXrayConfig,
     WriteCloudflaredConfig, UpsertVpnRecord, UpsertHy2Record, RestartXray, SaveEnv,
     RegenerateSubscriptions, Finish, DeleteCreated, RemoveConfigDir, RestoreFile, RestartMutated

\* A request of the agent that has got in behind the rollback.
LEMMA KeptByWriter ==
    ASSUME TypeInv, [Next]_vars, NEW u \in Upgrades, Only(u), KeptBy(u), pc[u] = "restore",
           NEW w \in Writers, Read(w) \/ Write(w)
    PROVE  KeptBy(u)'
<1> DEFINE was == backups[1].files
<1>1. /\ u \in Procs /\ w \in Procs /\ w # u /\ pc \in [Procs -> Steps] /\ local \in [Procs -> Kept]
      /\ dir \in Contents /\ faults \in Nat /\ faults' \in {faults, faults + 1}
  BY UpgradeTypes, WriterTypes, FaultsGrow DEF TypeInv, ProcTypes, DataTypes
<1>2. /\ UNCHANGED <<backups, dns>> /\ pc'[u] = "restore" /\ local'[u] = local[u]
      /\ \A x \in Writers \ {w} : pc'[x] = pc[x] /\ local'[x] = local[x]
      /\ \A v \in Upgrades : pc'[v] = pc[v]
  <2>1. UNCHANGED <<backups, dns>>
    BY DEF Read, Write, outside
  <2>2. QED
    BY <1>1, <2>1, ReadMoves, WriteMoves, UpgradeTypes, WriterTypes DEF Moves
<1>3. ASSUME UNCHANGED <<dir, xrayRun>>, pc'[w] # "write" PROVE KeptBy(u)'
  BY <1>1, <1>2, <1>3, RestoredStill
<1>4. /\ Fits(was) /\ faults + Refusals(u) > 0 /\ Restored(u)
      /\ local[u].env.mode = "cloudflare" => \A h \in Hosts : A(h) \notin local[u].created
  BY PastSteps DEF KeptBy
<1>5. Refusals(u)' = Refusals(u) /\ Refusals(u) \in {0, 1} /\ faults' >= faults
  BY <1>1, <1>2, RefusalTypes DEF Refusals
<1>6. ASSUME dir'["env"] = dir["env"], dir'["cloudflared"] = dir["cloudflared"],
             dir'["hysteria"] = dir["hysteria"], "xray" \notin local[u].todo,
             Grown(dir'["xray"], was["xray"]),
             pc'[w] = "write" => Grown(local'[w], was["xray"]),
             xrayRun' = dir'["xray"] \/ UNCHANGED <<xrayRun, dir>>
      PROVE  KeptBy(u)'
  <2>1. /\ local[u].todo = {}
        /\ \A x \in Writers : pc[x] = "write" => Grown(local[x], was["xray"])
        /\ local[u].mutated \/ xrayRun \in {dir["xray"], Down}
    BY <1>4, <1>6 DEF Restored
  <2>2. \A f \in {"env", "cloudflared"} \ local'[u].todo : dir'[f] = was[f]
    BY <1>2, <1>4, <1>6 DEF Restored
  <2>3. \/ "hysteria" \in local'[u].todo \/ dir'["hysteria"] = was["hysteria"]
        \/ faults' + Refusals(u)' > 1 \/ \E v \in Upgrades \ {u} : pc'[v] = "backup"
    <3>1. faults + Refusals(u) > 1 => faults' + Refusals(u)' > 1
      BY <1>1, <1>5
    <3>2. QED
      BY <1>2, <1>4, <1>6, <3>1 DEF Restored
  <2>4. \A x \in Writers : pc'[x] = "write" => Grown(local'[x], was["xray"])
    BY <1>2, <1>6, <2>1
  <2>5. local'[u].mutated \/ xrayRun' \in {dir'["xray"], Down}
    BY <1>2, <1>6, <2>1
  <2>6. Restored(u)'
    BY <1>2, <1>6, <2>1, <2>2, <2>3, <2>4, <2>5 DEF Restored, Grown
  <2>7. faults' + Refusals(u)' > 0
    BY <1>1, <1>4, <1>5
  <2>8. QED
    BY <1>2, <1>4, <2>6, <2>7, PastSteps, StepSets DEF KeptBy, Fits, Whole
<1>7. CASE Read(w)
  <2>1. UNCHANGED <<dir, xrayRun>>
    BY <1>7 DEF Read, outside
  <2>2. CASE dir["xray"] = Missing
    <3>1. pc'[w] # "write"
      BY <1>1, <1>7, <2>2 DEF Read, End, Become
    <3>2. QED
      BY <1>3, <2>1, <3>1
  <2>3. CASE dir["xray"] # Missing
    <3>1. "xray" \notin local[u].todo
      BY <1>4, <2>3 DEF Restored
    <3>2. Grown(dir["xray"], was["xray"]) /\ dir["xray"] \in Xray
      BY <1>1, <1>4, <2>3, <3>1, FileTypes DEF Restored
    <3>3. local'[w] = [dir["xray"] EXCEPT !.users = @ \cup {w}]
      BY <1>1, <1>7, <2>3 DEF Read
    <3>4. /\ local'[w] \in Xray /\ local'[w].mode = dir["xray"].mode
          /\ dir["xray"].users \subseteq local'[w].users
      BY <3>2, <3>3 DEF Xray
    <3>5. Grown(local'[w], was["xray"])
      BY <3>2, <3>4, MarksAssumption DEF Grown
    <3>6. QED
      BY <1>6, <2>1, <3>1, <3>2, <3>5
  <2>4. QED
    BY <2>2, <2>3
<1>8. CASE Write(w)
  <2>1. pc[w] = "write" /\ pc'[w] # "write"
    BY <1>1, <1>8 DEF Write, At, End, Become
  <2>2. CASE UNCHANGED <<dir, xrayRun>>
    BY <1>3, <2>1, <2>2
  <2>3. CASE dir' = [dir EXCEPT !["xray"] = local[w]] /\ xrayRun' = local[w]
    <3>1. "xray" \notin local[u].todo /\ Grown(local[w], was["xray"])
      BY <1>4, <2>1 DEF Restored
    <3>2. /\ dir'["xray"] = local[w]
          /\ \A f \in {"env", "cloudflared", "hysteria"} : dir'[f] = dir[f]
      BY <1>1, <2>3 DEF Contents
    <3>3. QED
      BY <1>6, <2>1, <2>3, <3>1, <3>2
  <2>4. QED
    BY <1>8, <2>2, <2>3 DEF Write
<1>9. QED
  BY <1>7, <1>8

LEMMA KeptByBackup ==
    ASSUME TypeInv, CountInv, FreshInv, QuietInv, [Next]_vars, NEW u \in Upgrades,
           pc[u] \notin Past, pc'[u] \in Past, Only(u)'
    PROVE  KeptBy(u)'
<1> DEFINE b == Backup(u, dir)
<1>1. /\ BackupConfig(u) /\ backups' \in {Append(backups, b), Pruned(Append(backups, b))}
      /\ u \in Procs /\ pc \in [Procs -> Steps]
  BY PastFollowsBackup, UpgradeTypes DEF TypeInv, ProcTypes
<1>2. /\ pc[u] = "backup" /\ "prepare" \notin {"ok", "same", "error"}
      /\ UNCHANGED <<dir, xrayRun>> /\ b \in BackupSet
  BY <1>1 DEF BackupConfig, At, outside, TypeInv, DataTypes, Backup, BackupSet
<1>3. pc'[u] = "prepare" /\ local' = local /\ lockFile' = lockFile
  BY <1>1, PastSteps, StepSets DEF BackupConfig, GoTo, End, Become, locks
<1>4. Len(backups) = 0
  <2>1. CASE backups' # backups
    BY <2>1, BackupLengths DEF Only
  <2>2. CASE backups' = backups
    <3> DEFINE grown == Append(backups, b)
    <3>1. Len(grown) = Len(backups) + 1 /\ Len(backups) = 1
      BY <1>2, <2>2, AppendProperties DEF TypeInv, DataTypes, Only
    <3> HIDE DEF grown
    <3>2. Pruned(grown) = grown
      BY <3>1, KeepAssumption DEF Pruned
    <3>3. backups' = grown
      BY <1>1, <3>2 DEF grown
    <3>4. QED
      BY <2>2, <3>1, <3>3
  <2>3. QED
    BY <2>1, <2>2
<1>5. backups'[1] = b
  <2> DEFINE grown == Append(backups, b)
  <2>1. Len(grown) = 1 /\ grown[1] = b
    BY <1>2, <1>4, AppendProperties DEF TypeInv, DataTypes
  <2> HIDE DEF grown
  <2>2. Pruned(grown) = grown
    BY <2>1, KeepAssumption DEF Pruned
  <2>3. QED
    BY <1>1, <2>1, <2>2 DEF grown
<1>6. /\ Fits(dir) /\ xrayRun \in {dir["xray"], Down} /\ lockFile = Old
      /\ local[u].todo = Files /\ local[u].created = {}
  BY <1>2, <1>4 DEF QuietInv, CountInv, FreshInv
<1>7. backups'[1].files = dir
  BY <1>5 DEF Backup
<1>8. "prepare" # "restore" /\ "prepare" \notin InRollback
  BY DEF InRollback
<1>9. dir["xray"] # Missing
  BY <1>6 DEF Fits, Whole, Files
<1>10. QED
  BY <1>2, <1>3, <1>6, <1>7, <1>8, <1>9 DEF KeptBy, Fits, Whole

LEMMA KeptStep ==
    /\ TypeInv /\ LockInv /\ CountInv /\ CountInv' /\ FreshInv /\ QuietInv /\ KeptInv
    /\ [Next]_vars
    => KeptInv'
<1>1. SUFFICES ASSUME TypeInv, LockInv, CountInv, CountInv', FreshInv, QuietInv, KeptInv,
                      [Next]_vars, NEW u \in Upgrades, pc'[u] \in Past, Only(u)'
               PROVE  KeptBy(u)'
  BY DEF KeptInv
<1>2. CASE pc[u] \notin Past
  BY <1>1, <1>2, KeptByBackup
<1>3. CASE pc[u] \in Past
  <2>1. Len(backups) # 0 /\ Len(backups') = 1
    BY <1>1, <1>3 DEF CountInv, Only
  <2>2. backups' = backups
    BY <1>1, <2>1, BackupLengths
  <2>3. Only(u) /\ KeptBy(u)
    BY <1>1, <1>3, <2>2 DEF Only, KeptInv
  <2>4. /\ u \in Procs /\ u \notin Writers /\ pc[u] \in Holding
        /\ pc \in [Procs -> Steps] /\ local \in [Procs -> Kept]
    BY <1>1, <1>3, UpgradeTypes, PastSteps DEF TypeInv, ProcTypes
  <2>5. ASSUME UNCHANGED vars PROVE KeptBy(u)'
    <3>1. /\ UNCHANGED <<backups, dns, dir, xrayRun, pc, local, lockFile, faults>>
          /\ Refusals(u)' = Refusals(u)
      BY <2>5 DEF vars, Refusals
    <3>2. Restored(u) => Restored(u)'
      BY <3>1 DEF Restored, Grown
    <3>3. QED
      BY <2>3, <3>1, <3>2 DEF KeptBy, Fits, Whole
  <2>6. ASSUME NEW p \in Procs, Approaches(p) PROVE KeptBy(u)'
    <3>1. /\ UNCHANGED <<dir, backups, subs, xrayRun, dns, faults>> /\ p # u
          /\ \A q \in Procs \ {p} : pc'[q] = pc[q] /\ local'[q] = local[q]
      BY <1>1, <2>4, <2>6, ApproachTypes
    <3>2. pc'[u] = pc[u] /\ local'[u] = local[u] /\ Refusals(u)' = Refusals(u)
      BY <2>4, <3>1 DEF Refusals
    <3>3. pc[p] # "backup" /\ pc'[p] # "write"
      BY <2>4, <2>6 DEF Approaches, OpenLock, AcquireConfigLock, ErrLockBusy, At, Become
    <3>4. CASE pc[u] = "restore"
      <4>1. \A w \in Writers : pc'[w] = "write" => pc[w] = "write" /\ local'[w] = local[w]
        BY <1>1, <3>1, <3>3, WriterTypes
      <4>2. \A v \in Upgrades \ {u} : pc[v] = "backup" => pc'[v] = "backup"
        BY <1>1, <3>1, <3>3, UpgradeTypes
      <4>3. faults \in Nat
        BY <1>1, FaultsGrow
      <4>4. QED
        BY <1>1, <2>3, <3>1, <3>2, <3>4, <4>1, <4>2, <4>3, RestoredStill
    <3>5. CASE pc[u] # "restore"
      <4>1. lockFile = Old
        BY <2>3, <3>5 DEF KeptBy
      <4>2. lockFile' = lockFile
        BY <2>6, <4>1, MarksAssumption DEF Approaches, OpenLock, AcquireConfigLock, ErrLockBusy, Inodes
      <4>3. /\ pc[u] \in InCore => dir["xray"] # Missing
            /\ pc[u] \in InRollback => faults + Refusals(u) > 0
        BY <2>3 DEF KeptBy
      <4>4. QED
        BY <1>1, <1>3, <2>3, <3>1, <3>2, <3>5, <4>2, <4>3, KeptStill
    <3>6. QED
      BY <3>4, <3>5
  <2>7. ASSUME pc[u] # "restore", NEW p \in Procs, pc[p] \in Holding PROVE p = u
    <3>1. lockFile = Old
      BY <2>3, <2>7 DEF KeptBy
    <3>2. QED
      BY <1>1, <2>4, <2>7, <3>1, OneHolder
  <2>8. ASSUME Upgrade(u) PROVE KeptBy(u)'
    <3>1. CASE RemoveConfigDir(u)
      BY <1>1, <2>3, <3>1, KeptByRemove
    <3>2. CASE \E f \in Files : RestoreFile(u, f)
      BY <1>1, <2>3, <3>2, KeptByRestore
    <3>3. ~RestartMutated(u)
      <4>1. "error" \notin Past
        BY PastSteps, StepSets
      <4>2. QED
        BY <1>1, <2>4, <4>1 DEF RestartMutated, End, Become
    <3>4. ~(\/ EnsureRuntimeBinaries(u) \/ LoadUpgradeEnv(u) \/ BackfillHy2(u) \/ ReRenderInPlace(u)
            \/ BackupConfig(u))
      BY <1>3, PastSteps DEF EnsureRuntimeBinaries, LoadUpgradeEnv, BackfillHy2, ReRenderInPlace,
         BackupConfig, At, Past, InCore, InRollback
    <3>5. QED
      BY <1>1, <1>3, <2>2, <2>3, <2>8, <3>1, <3>2, <3>3, <3>4, KeptByCore DEF Upgrade
  <2>9. ASSUME NEW v \in Upgrades, v # u, Upgrade(v) PROVE KeptBy(u)'
    <3>1. pc[v] \in Holding /\ v \in Procs
      BY <1>1, <2>9, UpgradeMoves, UpgradeTypes DEF Moves
    <3>2. pc[u] = "restore"
      BY <2>7, <2>9, <3>1
    <3>3. QED
      BY <1>1, <2>2, <2>3, <2>9, <3>2, KeptByUpgrade
  <2>10. ASSUME NEW w \in Writers, Read(w) \/ Write(w) PROVE KeptBy(u)'
    <3>1. pc[w] \in Holding /\ w \in Procs /\ w # u
      BY <1>1, <2>10, ReadMoves, WriteMoves, WriterTypes DEF Moves
    <3>2. pc[u] = "restore"
      BY <2>7, <3>1
    <3>3. QED
      BY <1>1, <2>3, <2>10, <3>2, KeptByWriter
  <2>11. ASSUME NEW p \in Procs, Kill(p) PROVE KeptBy(u)'
    <3>1. /\ pc[p] \in Holding /\ pc'[p] = "error"
          /\ \A q \in Procs \ {p} : pc'[q] = pc[q] /\ local'[q] = local[q]
      BY <1>1, <2>11, KillMoves DEF Moves
    <3>2. p # u /\ "error" \notin Past
      BY <1>1, <3>1, PastSteps, StepSets
    <3>3. pc[u] = "restore"
      BY <2>7, <3>1, <3>2
    <3>4. ~At(p, "remove")
      <4>1. p \in Writers => pc[p] # "remove"
        BY <1>1 DEF TypeInv, ProcTypes, Ended, WriterSteps
      <4>2. p \in Upgrades => pc[p] \notin Past
        BY <1>1, <2>3, <3>2 DEF CountInv, Only
      <4>3. QED
        BY <4>1, <4>2, PastSteps DEF At, Procs
    <3>5. UNCHANGED <<dir, xrayRun, dns>> /\ faults' = faults + 1
      BY <2>11, <3>4 DEF Kill, outside, Fault
    <3>6. pc'[u] = "restore" /\ local'[u] = local[u]
      BY <2>4, <3>1, <3>2, <3>3
    <3>7. \A w \in Writers : pc'[w] = "write" => pc[w] = "write" /\ local'[w] = local[w]
      BY <1>1, <3>1, WriterTypes
    <3>8. faults \in Nat
      BY <1>1, FaultsGrow
    <3>9. QED
      BY <1>1, <2>2, <2>3, <3>3, <3>5, <3>6, <3>7, <3>8, RestoredStill
  <2>12. QED
    BY <1>1, <2>5, <2>6, <2>8, <2>9, <2>10, <2>11, NextCases
<1>4. QED
  BY <1>2, <1>3

\* A rollback that comes through leaves every file as the backup has it, up to
\* users added by requests that met the new lock file, and xray on the config on
\* disk or down after its own failed restart (rollbacker.run), whatever single
\* thing went wrong, unless another upgrade is at work beside it.
THEOREM FailureKeepsConfig == Spec => FailedUpgradeKeepsConfig
<1> DEFINE Keeps ==
      \A u \in Upgrades :
         pc[u] \in InRollback /\ pc'[u] = "error" /\ faults' + Refusals(u) <= 1 /\ Alone(u) =>
         LET was == backups[1].files IN Whole(was) =>
            /\ \A f \in Files \ {"xray"} : dir'[f] = was[f]
            /\ dir'["xray"].mode = was["xray"].mode
            /\ was["xray"].users \subseteq dir'["xray"].users
            /\ xrayRun' \in {dir'["xray"], Down}
<1>1. TypeInv /\ LockInv /\ KeptInv /\ [Next]_vars => [Keeps]_vars
  <2> DEFINE was == backups[1].files
  <2>1. SUFFICES ASSUME TypeInv, LockInv, KeptInv, [Next]_vars, NEW u \in Upgrades,
                        pc[u] \in InRollback, pc'[u] = "error", faults' + Refusals(u) <= 1, Alone(u)
                 PROVE  /\ \A f \in Files \ {"xray"} : dir'[f] = was[f]
                        /\ dir'["xray"].mode = was["xray"].mode
                        /\ was["xray"].users \subseteq dir'["xray"].users
                        /\ xrayRun' \in {dir'["xray"], Down}
    OBVIOUS
  <2>2. /\ Only(u) /\ KeptBy(u) /\ faults + Refusals(u) > 0 /\ Refusals(u) \in {0, 1}
        /\ faults \in Nat /\ faults' \in {faults, faults + 1}
    BY <2>1, PastSteps, RefusalTypes, FaultsGrow DEF Alone, Only, KeptInv, KeptBy
  <2>3. faults' = faults /\ ~Fault /\ faults + Refusals(u) = 1
    BY <2>1, <2>2 DEF Fault
  <2>4. was \in BackupsOf(u)
    BY <2>1, <2>2, OnlyBackup
  <2>5. "error" \notin InRollback
    BY DEF InRollback
  <2>6. RestartMutated(u)
    BY <2>1, <2>3, <2>4, <2>5, RollbackLeft
  <2>7. pc[u] = "restore" /\ local[u].todo = {} /\ dir' = dir
    BY <2>6 DEF RestartMutated, At
  <2>8. /\ \A f \in {"env", "cloudflared"} : dir[f] = was[f]
        /\ Grown(dir["xray"], was["xray"])
        /\ local[u].mutated \/ xrayRun \in {dir["xray"], Down}
    BY <2>2, <2>7 DEF KeptBy, Restored
  <2>9. dir["hysteria"] = was["hysteria"]
    <3>1. ASSUME NEW v \in Upgrades \ {u}, pc[v] = "backup" PROVE FALSE
      <4>1. u \in Procs /\ v \in Procs /\ pc[u] \in Holding /\ pc[v] \in Holding
        BY <2>1, <3>1, UpgradeTypes, PastSteps DEF Holding, UpgradeSteps
      <4>2. holder[fd[u]] = u /\ holder[fd[v]] = v /\ fd[v] \in Inodes
        BY <2>1, <4>1 DEF LockInv
      <4>3. fd[v] \in {None, fd[u]}
        BY <2>1 DEF Alone
      <4>4. QED
        BY <3>1, <4>2, <4>3, MarksAssumption
    <3>2. ~(faults + Refusals(u) > 1)
      BY <2>3
    <3>3. QED
      BY <2>2, <2>7, <3>1, <3>2 DEF KeptBy, Restored
  <2>10. xrayRun' \in {dir["xray"], Down}
    BY <2>6, <2>8 DEF RestartMutated, Grown
  <2>11. QED
    BY <2>7, <2>8, <2>9, <2>10 DEF Grown, Files
<1>2. QED
  BY <1>1, InitTypes, InitLock, InitCount, InitQuiet, TypeStep, LockStep, CountStep, FreshStep,
     QuietStep, KeptStep, PTL DEF Spec, FailedUpgradeKeepsConfig
=============================================================================
