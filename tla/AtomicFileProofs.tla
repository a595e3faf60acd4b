-------------------------- MODULE AtomicFileProofs --------------------------
(***************************************************************************)
(* Theorems about AtomicFile, for any number of concurrent calls: its      *)
(* safety properties, and that it implements FileRegister.                 *)
(***************************************************************************)
EXTENDS AtomicFile, TLAPS

\* What a call has done by the step it is at, and what that means for the path.
CallInv ==
    \A w \in Writers :
        /\ pc[w] \in {"sync", "close", "rename"} => data[w] = "whole"
        /\ pc[w] \in {"write", "sync", "close", "rename"} => w \in mode
        /\ pc[w] \in {"close", "rename"} => w \in synced
        /\ w \in Possible => pc[w] \in {"syncdir", "done", "dead"} /\ result[w] # "error"
        /\ pc[w] = "syncdir" => entry # Old
        /\ pc[w] = "done" <=> result[w] # "none"

FileInv ==
    /\ TypeOK
    /\ CallInv
    /\ OnlyFinishedFilesShow
    /\ ErrorMeansUntouched
    /\ OkMeansDurable

LEMMA InitInv == Init => FileInv
BY OldAssumption
   DEF Init, FileInv, TypeOK, CallInv, OnlyFinishedFilesShow, ErrorMeansUntouched,
       OkMeansDurable, Possible, Contents, Steps, Running, Results

LEMMA GoToType ==
    ASSUME TypeOK, NEW w \in Writers, NEW step \in Steps, GoTo(w, step)
    PROVE  /\ pc' \in [Writers -> Steps] /\ pc'[w] = step
           /\ \A v \in Writers : v # w => pc'[v] = pc[v]
           /\ result' = result
BY DEF TypeOK, GoTo

LEMMA ReturnType ==
    ASSUME TypeOK, NEW w \in Writers, NEW answer \in Results, Return(w, answer)
    PROVE  /\ pc' \in [Writers -> Steps] /\ pc'[w] = "done"
           /\ result' \in [Writers -> Results] /\ result'[w] = answer
           /\ \A v \in Writers : v # w => pc'[v] = pc[v] /\ result'[v] = result[v]
BY DEF TypeOK, Return, Steps

\* A step of a call that changes neither what the path names nor what it may name
\* keeps the invariant if the call keeps its own part of it.
LEMMA OwnStep ==
    ASSUME FileInv, NEW w \in Writers, TypeOK', Possible' = Possible, entry' = entry,
           w \notin Possible,
           synced \subseteq synced', mode \subseteq mode',
           \A v \in Writers : v # w => pc'[v] = pc[v] /\ result'[v] = result[v] /\ data'[v] = data[v],
           pc'[w] \in {"sync", "close", "rename"} => data'[w] = "whole",
           pc'[w] \in {"write", "sync", "close", "rename"} => w \in mode',
           pc'[w] \in {"close", "rename"} => w \in synced',
           pc'[w] # "syncdir", result'[w] # "ok",
           pc'[w] = "done" <=> result'[w] # "none"
    PROVE  FileInv'
BY DEF FileInv, CallInv, OnlyFinishedFilesShow, ErrorMeansUntouched, OkMeansDurable

LEMMA PrivateSteps ==
    ASSUME FileInv, NEW w \in Writers,
           \/ CreateTemp(w) \/ Chmod(w) \/ Write(w) \/ SyncFile(w) \/ Close(w) \/ Cleanup(w)
    PROVE  FileInv'
<1> USE DEF dir
<1>1. entry' = entry /\ lost' = lost /\ Possible' = Possible
  BY DEF CreateTemp, Chmod, Write, SyncFile, Close, Cleanup, Possible
<1>2. pc[w] \in {"create", "chmod", "write", "sync", "close", "cleanup"} /\ w \notin Possible
  BY DEF CreateTemp, Chmod, Write, SyncFile, Close, Cleanup, At, FileInv, CallInv
<1>3. CASE CreateTemp(w)
  BY <1>1, <1>2, <1>3, GoToType, ReturnType, OwnStep
     DEF CreateTemp, FileInv, CallInv, TypeOK, Steps, Running, Results
<1>4. CASE Chmod(w)
  BY <1>1, <1>2, <1>4, GoToType, OwnStep
     DEF Chmod, FileInv, CallInv, TypeOK, Steps, Running
<1>5. CASE Write(w)
  <2>1. data' \in [Writers -> Contents] /\ \A v \in Writers : v # w => data'[v] = data[v]
    BY <1>5 DEF Write, FileInv, TypeOK, Contents
  <2>2. pc'[w] = "sync" => data'[w] = "whole"
    BY <1>5 DEF Write, GoTo, FileInv, TypeOK
  <2>3. pc'[w] \in {"sync", "cleanup"}
    BY <1>5 DEF Write, GoTo, FileInv, TypeOK
  <2>4. pc[w] = "write" /\ UNCHANGED <<temps, synced, mode>>
    BY <1>5 DEF Write, At
  <2>5. \E step \in {"sync", "cleanup"} : GoTo(w, step)
    BY <1>5 DEF Write
  <2>6. QED
    BY <1>1, <1>2, <2>1, <2>2, <2>3, <2>4, <2>5, GoToType, OwnStep
       DEF FileInv, CallInv, TypeOK, Steps, Running
<1>6. CASE SyncFile(w)
  BY <1>1, <1>2, <1>6, GoToType, OwnStep
     DEF SyncFile, At, FileInv, CallInv, TypeOK, Steps, Running
<1>7. CASE Close(w)
  BY <1>1, <1>2, <1>7, GoToType, OwnStep
     DEF Close, At, FileInv, CallInv, TypeOK, Steps, Running
<1>8. CASE Cleanup(w)
  BY <1>1, <1>2, <1>8, ReturnType, OwnStep
     DEF Cleanup, FileInv, CallInv, TypeOK, Steps, Running, Results
<1>9. QED
  BY <1>3, <1>4, <1>5, <1>6, <1>7, <1>8

LEMMA RenameInv ==
    ASSUME FileInv, NEW w \in Writers, Rename(w)
    PROVE  FileInv'
<1>1. pc[w] = "rename" /\ w \notin Possible /\ UNCHANGED <<data, synced, mode>>
  BY DEF Rename, At, FileInv, CallInv
<1>2. CASE UNCHANGED dir /\ GoTo(w, "cleanup")
  BY <1>1, <1>2, GoToType, OwnStep
     DEF dir, Possible, FileInv, CallInv, TypeOK, Steps, Running
<1>3. CASE /\ entry' = w /\ lost' = lost \cup {entry} /\ temps' = temps \ {w}
           /\ GoTo(w, "syncdir")
  <2>1. /\ pc' \in [Writers -> Steps] /\ pc'[w] = "syncdir"
        /\ \A v \in Writers : v # w => pc'[v] = pc[v]
        /\ result' = result
    BY <1>3, GoToType DEF FileInv, Steps, Running
  <2>2. Possible' = Possible \cup {w}
    BY <1>3 DEF Possible
  <2>3. TypeOK'
    BY <1>1, <1>3, <2>1 DEF FileInv, TypeOK
  <2>4. CallInv' /\ ErrorMeansUntouched'
    BY <1>1, <1>3, <2>1, <2>2, OldAssumption DEF FileInv, CallInv, ErrorMeansUntouched
  <2>5. OnlyFinishedFilesShow'
    BY <1>1, <2>2 DEF FileInv, CallInv, OnlyFinishedFilesShow
  <2>6. OkMeansDurable'
    BY <2>1, <2>2, OldAssumption DEF FileInv, OkMeansDurable
  <2>7. QED
    BY <2>3, <2>4, <2>5, <2>6 DEF FileInv
<1>4. QED
  BY <1>2, <1>3 DEF Rename

LEMMA SyncDirInv ==
    ASSUME FileInv, NEW w \in Writers, SyncDir(w)
    PROVE  FileInv'
<1>1. pc[w] = "syncdir" /\ UNCHANGED <<entry, temps, data, synced, mode>> /\ lost' \in {lost, {}}
  BY DEF SyncDir, At
<1>2. Possible' \subseteq Possible
  BY <1>1 DEF Possible
<1>3. /\ pc' \in [Writers -> Steps] /\ pc'[w] = "done"
      /\ result' \in [Writers -> Results] /\ result'[w] \in {"ok", "undurable"}
      /\ \A v \in Writers : v # w => pc'[v] = pc[v] /\ result'[v] = result[v]
  BY ReturnType DEF SyncDir, FileInv, Results
<1>4. TypeOK'
  BY <1>1, <1>3 DEF FileInv, TypeOK
<1>5. CallInv' /\ ErrorMeansUntouched' /\ OnlyFinishedFilesShow'
  BY <1>1, <1>2, <1>3 DEF FileInv, CallInv, ErrorMeansUntouched, OnlyFinishedFilesShow
<1>6. OkMeansDurable'
  <2>1. CASE result'[w] = "ok"
    BY <1>1, <2>1, ReturnType DEF SyncDir, Possible, OkMeansDurable, FileInv, CallInv, Results
  <2>2. CASE result'[w] # "ok"
    BY <1>2, <1>3, <2>2 DEF OkMeansDurable, FileInv
  <2>3. QED
    BY <2>1, <2>2
<1>7. QED
  BY <1>4, <1>5, <1>6 DEF FileInv

LEMMA DeathInv ==
    ASSUME FileInv, NEW S \in SUBSET Writers, Die(S), \A w \in S : pc[w] \in Running,
           entry' \in Possible, lost' \subseteq lost,
           \A w \in Writers : pc[w] = "syncdir" /\ w \notin S => entry' = entry,
           data' \in [Writers -> Contents], \A w \in synced : data'[w] = data[w],
           UNCHANGED <<synced, mode>>, temps' = temps,
           \A w \in Writers : pc[w] \in Running /\ w \notin S => data'[w] = data[w]
    PROVE  FileInv'
<1>1. Possible' \subseteq Possible
  BY DEF Possible
<1>2. /\ pc' \in [Writers -> Steps] /\ result' = result
      /\ \A w \in Writers : pc'[w] = IF w \in S THEN "dead" ELSE pc[w]
  BY DEF Die, FileInv, TypeOK, Steps
<1>3. TypeOK'
  BY <1>1, <1>2 DEF FileInv, TypeOK, Possible
<1>4. CallInv'
  BY <1>1, <1>2 DEF FileInv, CallInv, Running
<1>5. OnlyFinishedFilesShow' /\ ErrorMeansUntouched' /\ OkMeansDurable'
  BY <1>1, <1>2 DEF FileInv, OnlyFinishedFilesShow, ErrorMeansUntouched, OkMeansDurable
<1>6. QED
  BY <1>3, <1>4, <1>5 DEF FileInv

LEMMA NextInv == FileInv /\ [Next]_vars => FileInv'
<1>1. SUFFICES ASSUME FileInv, [Next]_vars PROVE FileInv'
  OBVIOUS
<1>2. ASSUME NEW w \in Writers,
             \/ CreateTemp(w) \/ Chmod(w) \/ Write(w) \/ SyncFile(w) \/ Close(w) \/ Cleanup(w)
      PROVE  FileInv'
  BY <1>1, <1>2, PrivateSteps
<1>3. ASSUME NEW w \in Writers, Rename(w) PROVE FileInv'
  BY <1>1, <1>3, RenameInv
<1>4. ASSUME NEW w \in Writers, SyncDir(w) PROVE FileInv'
  BY <1>1, <1>4, SyncDirInv
<1>5. ASSUME NEW w \in Writers, Killed(w) PROVE FileInv'
  BY <1>1, <1>5, DeathInv DEF Killed, dir, Possible, FileInv, TypeOK
<1>6. CASE PowerCut
  <2> DEFINE S == {w \in Writers : pc[w] \in Running}
  <2>1. \A w \in Writers : pc[w] = "syncdir" => w \in S
    BY DEF Running
  <2>2. QED
    BY <1>1, <1>6, <2>1, DeathInv DEF PowerCut, Possible
<1>7. CASE UNCHANGED vars
  BY <1>1, <1>7
     DEF vars, FileInv, TypeOK, CallInv, OnlyFinishedFilesShow, ErrorMeansUntouched,
         OkMeansDurable, Possible
<1>8. QED
  BY <1>1, <1>2, <1>3, <1>4, <1>5, <1>6, <1>7 DEF Next

LEMMA InvAlways == Spec => []FileInv
BY InitInv, NextInv, PTL DEF Spec

\* The variables keep their types, whatever fails.
THEOREM FileTypes == Spec => []TypeOK
BY InvAlways, PTL DEF FileInv

\* The path only ever names, or falls back on after a power cut, a file that
\* WriteFile has written to its end, fsynced and given its permissions.
THEOREM FinishedFilesShow == Spec => []OnlyFinishedFilesShow
BY InvAlways, PTL DEF FileInv

\* A call of WriteFile that returned an error other than DurabilityError has left
\* the path alone, before and after a power cut.
THEOREM ErrorsLeaveThePath == Spec => []ErrorMeansUntouched
BY InvAlways, PTL DEF FileInv

\* Once any call of WriteFile has returned nil, a power cut does not bring back
\* what was there before all of them.
THEOREM FileSafety == Spec => []OkMeansDurable
BY InvAlways, PTL DEF FileInv

-----------------------------------------------------------------------------
(* The refinement.                                                         *)

\* Since only finished files show, the abstract value is the file the path names.
LEMMA WholeContents ==
    ASSUME OnlyFinishedFilesShow
    PROVE  Content(entry) = entry /\ {Content(f) : f \in lost} = lost
<1>1. \A f \in Possible : Content(f) = f
  BY DEF OnlyFinishedFilesShow, Content
<1>2. entry \in Possible /\ lost \subseteq Possible
  BY DEF Possible
<1>3. QED
  BY <1>1, <1>2

Statuses == [w \in Writers |-> Status(w)]

LEMMA InitRefines == Init => Register!Init
<1>1. SUFFICES ASSUME Init PROVE Register!Init
  OBVIOUS
<1>2. Content(entry) = Old /\ {Content(f) : f \in lost} = {}
  BY <1>1, OldAssumption DEF Init, Content
<1>3. Statuses = [w \in Writers |-> "pending"]
  BY <1>1 DEF Init, Statuses, Status, At
<1>4. QED
  BY <1>2, <1>3 DEF Register!Init, Statuses

\* A step of one call moves its status alone.
LEMMA StatusMove ==
    ASSUME NEW w \in Writers, NEW to,
           \A v \in Writers : v # w => pc'[v] = pc[v] /\ result'[v] = result[v],
           Status(w)' = to
    PROVE  Statuses' = [Statuses EXCEPT ![w] = to]
BY DEF Statuses, Status, At

\* A call that neither answers nor renames stutters.
LEMMA QuietStep ==
    ASSUME NEW w \in Writers, FileInv, OnlyFinishedFilesShow',
           UNCHANGED <<entry, lost>>,
           pc[w] \in Steps \ {"syncdir", "done", "dead"}, NEW step \in Steps \ {"syncdir", "done", "dead"},
           GoTo(w, step)
    PROVE  UNCHANGED <<Content(entry), {Content(f) : f \in lost}, Statuses>>
<1>1. UNCHANGED <<Content(entry), {Content(f) : f \in lost}>>
  BY WholeContents DEF FileInv, OnlyFinishedFilesShow, Possible, Content
<1>2. pc'[w] = step /\ \A v \in Writers : v # w => pc'[v] = pc[v] /\ result'[v] = result[v]
  BY GoToType DEF FileInv, GoTo
<1>3. Status(w) = "pending" /\ Status(w)' = "pending"
  BY <1>2 DEF Status, At
<1>4. Statuses' = [Statuses EXCEPT ![w] = "pending"] /\ Statuses[w] = "pending"
  BY <1>2, <1>3, StatusMove DEF Statuses
<1>5. Statuses' = Statuses
  BY <1>4 DEF Statuses
<1>6. QED
  BY <1>1, <1>5

\* A call that gives up before the rename.
LEMMA FailRefines ==
    ASSUME NEW w \in Writers, FileInv, OnlyFinishedFilesShow',
           UNCHANGED <<entry, lost>>,
           pc[w] \in Steps \ {"syncdir", "done", "dead"}, Return(w, "error")
    PROVE  Register!Fail(w)
<1>1. UNCHANGED <<Content(entry), {Content(f) : f \in lost}>>
  BY WholeContents DEF FileInv, OnlyFinishedFilesShow, Possible, Content
<1>2. /\ pc'[w] = "done" /\ result'[w] = "error"
      /\ \A v \in Writers : v # w => pc'[v] = pc[v] /\ result'[v] = result[v]
  BY ReturnType DEF FileInv, Results
<1>3. Statuses[w] = "pending" /\ Statuses' = [Statuses EXCEPT ![w] = "error"]
  BY <1>2, StatusMove DEF Statuses, Status, At
<1>4. QED
  BY <1>1, <1>3 DEF Register!Fail, Register!Becomes, Statuses

LEMMA RenameRefines ==
    ASSUME NEW w \in Writers, FileInv, FileInv', pc[w] = "rename",
           entry' = w, lost' = lost \cup {entry}, GoTo(w, "syncdir")
    PROVE  Register!Publish(w)
<1>1. /\ Content(entry) = entry /\ {Content(f) : f \in lost} = lost
      /\ Content(entry)' = w /\ {Content(f) : f \in lost}' = lost \cup {entry}
  BY WholeContents DEF FileInv, OnlyFinishedFilesShow, Possible, Content
<1>2. pc'[w] = "syncdir" /\ \A v \in Writers : v # w => pc'[v] = pc[v] /\ result'[v] = result[v]
  BY GoToType DEF FileInv, GoTo, Steps, Running
<1>3. Statuses[w] = "pending" /\ Statuses' = [Statuses EXCEPT ![w] = "published"]
  BY <1>2, StatusMove DEF Statuses, Status, At
<1>4. QED
  BY <1>1, <1>3 DEF Register!Publish, Register!Becomes, Statuses

LEMMA SyncDirRefines ==
    ASSUME NEW w \in Writers, FileInv, FileInv', SyncDir(w)
    PROVE  Register!Acknowledge(w) \/ Register!Undurable(w)
<1>1. /\ Content(entry) = entry /\ {Content(f) : f \in lost} = lost
      /\ Content(entry)' = entry' /\ {Content(f) : f \in lost}' = lost' /\ entry' = entry
  BY WholeContents DEF FileInv, OnlyFinishedFilesShow, Possible, Content, SyncDir
<1>2. ASSUME NEW answer \in {"ok", "undurable"}, Return(w, answer)
      PROVE  Statuses[w] = "published" /\ Statuses' = [Statuses EXCEPT ![w] = answer]
  <2>1. /\ pc'[w] = "done" /\ result'[w] = answer
        /\ \A v \in Writers : v # w => pc'[v] = pc[v] /\ result'[v] = result[v]
    BY <1>2, ReturnType DEF FileInv, Results
  <2>2. QED
    BY <2>1, StatusMove DEF Statuses, Status, At, SyncDir
<1>3. CASE lost' = {} /\ Return(w, "ok")
  BY <1>1, <1>2, <1>3 DEF Register!Acknowledge, Register!Becomes, Statuses
<1>4. CASE UNCHANGED lost /\ Return(w, "undurable")
  BY <1>1, <1>2, <1>4 DEF Register!Undurable, Register!Becomes, Statuses
<1>5. QED
  BY <1>3, <1>4 DEF SyncDir

LEMMA DieRefines ==
    ASSUME NEW S \in SUBSET Writers, FileInv, Die(S), \A w \in S : pc[w] \in Running
    PROVE  Register!Die(S)
<1>1. \A w \in Writers : pc'[w] = (IF w \in S THEN "dead" ELSE pc[w]) /\ result'[w] = result[w]
  BY DEF Die, FileInv, TypeOK
<1>2. \A w \in S : Statuses[w] \in {"pending", "published"}
  BY DEF Statuses, Status, At, Running
<1>3. Statuses' = [w \in Writers |-> IF w \in S THEN "dead" ELSE Statuses[w]]
  BY <1>1 DEF Statuses, Status, At
<1>4. QED
  BY <1>2, <1>3 DEF Register!Die, Statuses

LEMMA NextRefines ==
    ASSUME FileInv, FileInv', [Next]_vars
    PROVE  [Register!Next]_Register!vars
<1> USE DEF dir
<1>1. ASSUME NEW w \in Writers,
             \/ CreateTemp(w) \/ Chmod(w) \/ Write(w) \/ SyncFile(w) \/ Close(w) \/ Cleanup(w)
      PROVE  [Register!Next]_Register!vars
  <2>1. UNCHANGED <<entry, lost>> /\ OnlyFinishedFilesShow'
    BY <1>1 DEF CreateTemp, Chmod, Write, SyncFile, Close, Cleanup, FileInv
  <2>2. pc[w] \in {"create", "chmod", "write", "sync", "close", "cleanup"}
    BY <1>1 DEF CreateTemp, Chmod, Write, SyncFile, Close, Cleanup, At
  <2>3. pc[w] \in Steps \ {"syncdir", "done", "dead"}
    BY <2>2 DEF Steps, Running
  <2>4. \/ Return(w, "error")
        \/ \E step \in {"chmod", "write", "sync", "close", "rename", "cleanup"} : GoTo(w, step)
    BY <1>1 DEF CreateTemp, Chmod, Write, SyncFile, Close, Cleanup
  <2>5. CASE Return(w, "error")
    BY <2>1, <2>3, <2>5, FailRefines DEF Register!Next
  <2>6. CASE \E step \in {"chmod", "write", "sync", "close", "rename", "cleanup"} : GoTo(w, step)
    <3>1. PICK step \in {"chmod", "write", "sync", "close", "rename", "cleanup"} : GoTo(w, step)
      BY <2>6
    <3>2. step \in Steps \ {"syncdir", "done", "dead"}
      BY DEF Steps, Running
    <3>3. UNCHANGED <<Content(entry), {Content(f) : f \in lost}, Statuses>>
      BY <2>1, <2>3, <3>1, <3>2, QuietStep
    <3>4. QED
      BY <3>3 DEF Register!vars, Statuses
  <2>7. QED
    BY <2>4, <2>5, <2>6
<1>2. ASSUME NEW w \in Writers, Rename(w) PROVE [Register!Next]_Register!vars
  <2>1. CASE UNCHANGED dir /\ GoTo(w, "cleanup")
    <3>1. pc[w] \in Steps \ {"syncdir", "done", "dead"} /\ "cleanup" \in Steps \ {"syncdir", "done", "dead"}
      BY <1>2 DEF Rename, At, Steps, Running
    <3>2. UNCHANGED <<Content(entry), {Content(f) : f \in lost}, Statuses>>
      BY <2>1, <3>1, QuietStep DEF FileInv
    <3>3. QED
      BY <3>2 DEF Register!vars, Statuses
  <2>2. CASE entry' = w /\ lost' = lost \cup {entry} /\ GoTo(w, "syncdir")
    BY <1>2, <2>2, RenameRefines DEF Rename, At, Register!Next
  <2>3. QED
    BY <1>2, <2>1, <2>2 DEF Rename
<1>3. ASSUME NEW w \in Writers, SyncDir(w) PROVE [Register!Next]_Register!vars
  BY <1>3, SyncDirRefines DEF Register!Next
<1>4. ASSUME NEW w \in Writers, Killed(w) PROVE [Register!Next]_Register!vars
  <2>1. Register!Die({w})
    BY <1>4, DieRefines DEF Killed
  <2>2. UNCHANGED <<Content(entry), {Content(f) : f \in lost}>>
    BY <1>4 DEF Killed, Content
  <2>3. QED
    BY <2>1, <2>2 DEF Register!Next, Register!Killed
<1>5. CASE PowerCut
  <2> DEFINE S == {w \in Writers : pc[w] \in Running}
  <2>1. Register!Die(S)
    BY <1>5, DieRefines DEF PowerCut
  <2>2. /\ Content(entry) = entry /\ {Content(f) : f \in lost} = lost
        /\ Content(entry)' = entry' /\ {Content(f) : f \in lost}' = {}
    BY <1>5, WholeContents DEF PowerCut, FileInv, OnlyFinishedFilesShow, Possible, Content
  <2>3. Register!PowerCut(S)
    BY <1>5, <2>1, <2>2 DEF PowerCut, Register!PowerCut
  <2>4. QED
    BY <2>3 DEF Register!Next
<1>6. CASE UNCHANGED vars
  BY <1>6 DEF vars, Register!vars, Content, Status, At
<1>7. QED
  BY <1>1, <1>2, <1>3, <1>4, <1>5, <1>6 DEF Next

\* WriteFile is the atomic replacement its doc comment promises, for any number of
\* concurrent callers, through failures, kills and power cuts.
THEOREM WriteFileIsAtomic == Spec => ImplementsRegister
<1>1. FileInv /\ FileInv' /\ [Next]_vars => [Register!Next]_Register!vars
  BY NextRefines
<1>2. QED
  BY <1>1, InitInv, NextInv, InitRefines, PTL DEF Spec, ImplementsRegister, Register!Spec

=============================================================================
