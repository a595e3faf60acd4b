----------------------------- MODULE AtomicFile -----------------------------
(***************************************************************************)
(* fsutil.WriteFile (internal/fsutil/atomic.go), the file replacement      *)
(* every writer of the node goes through, one system call at a time, with  *)
(* several calls for the same path at once.  Any call may fail, a process  *)
(* may be killed between two of them, and the power may be cut: what was   *)
(* not fsynced may then be lost.                                           *)
(*                                                                         *)
(* An operator whose name ends in _<slip> is the definition after it with  *)
(* a plausible slip.                                                       *)
(***************************************************************************)

CONSTANTS
    Writers,    \* calls of WriteFile for the path; also the file each creates
    Old,        \* the file that is there before
    Torn        \* what a reader makes of a file that is not whole

ASSUME OldAssumption == Old \notin Writers /\ Torn \notin Writers

VARIABLES
    entry,      \* the file the path names
    lost,       \* files it names again if the power is cut
    temps,      \* calls whose .cfvpn-tmp-* name is in the directory
    data,       \* per call: what its file holds
    synced,     \* calls whose file's data is on the disk
    mode,       \* calls whose file has the permissions asked for
    pc,         \* per call: the system call to come
    result      \* per call: what it returned

dir == <<entry, lost, temps>>
vars == <<entry, lost, temps, data, synced, mode, pc, result>>

Contents == {"empty", "part", "whole"}
Running == {"chmod", "write", "sync", "close", "rename", "syncdir", "cleanup"}
Steps == Running \cup {"create", "done", "dead"}
Results == {"none", "ok", "error", "undurable"}

Init ==
    /\ entry = Old
    /\ lost = {}
    /\ temps = {}
    /\ data = [w \in Writers |-> "empty"]
    /\ synced = {}
    /\ mode = {}
    /\ pc = [w \in Writers |-> "create"]
    /\ result = [w \in Writers |-> "none"]

At(w, step) == pc[w] = step
GoTo(w, step) == pc' = [pc EXCEPT ![w] = step] /\ UNCHANGED result
Return(w, answer) ==
    /\ pc' = [pc EXCEPT ![w] = "done"]
    /\ result' = [result EXCEPT ![w] = answer]

\* MkdirAll and os.CreateTemp: a name of its own for every call.
CreateTemp(w) ==
    /\ At(w, "create")
    /\ \/ temps' = temps \cup {w} /\ GoTo(w, "chmod")
       \/ UNCHANGED temps /\ Return(w, "error")
    /\ UNCHANGED <<entry, lost, data, synced, mode>>

Chmod(w) ==
    /\ At(w, "chmod")
    /\ \/ mode' = mode \cup {w} /\ GoTo(w, "write")
       \/ UNCHANGED mode /\ GoTo(w, "cleanup")
    /\ UNCHANGED <<dir, data, synced>>

\* A short write goes on to the rename.
Write_short(w) ==
    /\ At(w, "write")
    /\ data' \in {[data EXCEPT ![w] = c] : c \in {"part", "whole"}}
    /\ GoTo(w, "sync")
    /\ UNCHANGED <<dir, synced, mode>>

Write(w) ==
    /\ At(w, "write")
    /\ \/ data' = [data EXCEPT ![w] = "whole"] /\ GoTo(w, "sync")
       \/ data' \in {[data EXCEPT ![w] = c] : c \in {"empty", "part"}} /\ GoTo(w, "cleanup")
    /\ UNCHANGED <<dir, synced, mode>>

\* The error of the fsync is ignored.
SyncFile_ignored(w) ==
    /\ At(w, "sync")
    /\ synced' \in {synced, synced \cup {w}} /\ GoTo(w, "close")
    /\ UNCHANGED <<dir, data, mode>>

SyncFile(w) ==
    /\ At(w, "sync")
    /\ \/ synced' = synced \cup {w} /\ GoTo(w, "close")
       \/ UNCHANGED synced /\ GoTo(w, "cleanup")
    /\ UNCHANGED <<dir, data, mode>>

Close(w) ==
    /\ At(w, "close")
    /\ GoTo(w, "rename") \/ GoTo(w, "cleanup")
    /\ UNCHANGED <<dir, data, synced, mode>>

\* An error is returned for a rename that was made.
Rename_misreported(w) ==
    /\ At(w, "rename")
    /\ entry' = w /\ lost' = lost \cup {entry} /\ temps' = temps \ {w}
    /\ GoTo(w, "syncdir") \/ Return(w, "error")
    /\ UNCHANGED <<data, synced, mode>>

Rename(w) ==
    /\ At(w, "rename")
    /\ \/ entry' = w /\ lost' = lost \cup {entry} /\ temps' = temps \ {w} /\ GoTo(w, "syncdir")
       \/ UNCHANGED dir /\ GoTo(w, "cleanup")
    /\ UNCHANGED <<data, synced, mode>>

\* SyncDir's error is swallowed, as it once was.
SyncDir_swallowed(w) ==
    /\ At(w, "syncdir")
    /\ lost' \in {lost, {}} /\ Return(w, "ok")
    /\ UNCHANGED <<entry, temps, data, synced, mode>>

\* The fsync of the directory, whoever asks for it, keeps what the path names now.
SyncDir(w) ==
    /\ At(w, "syncdir")
    /\ \/ lost' = {} /\ Return(w, "ok")
       \/ UNCHANGED lost /\ Return(w, "undurable")
    /\ UNCHANGED <<entry, temps, data, synced, mode>>

\* The path is removed instead of the temporary file.
Cleanup_target(w) ==
    /\ At(w, "cleanup")
    /\ entry' = Torn
    /\ Return(w, "error")
    /\ UNCHANGED <<lost, temps, data, synced, mode>>

\* The deferred os.Remove of the temporary file; its error is ignored.
Cleanup(w) ==
    /\ At(w, "cleanup")
    /\ temps' \in {temps, temps \ {w}}
    /\ Return(w, "error")
    /\ UNCHANGED <<entry, lost, data, synced, mode>>

Die(S) == pc' = [w \in Writers |-> IF w \in S THEN "dead" ELSE pc[w]] /\ UNCHANGED result

Killed(w) ==
    /\ pc[w] \in Running
    /\ Die({w})
    /\ UNCHANGED <<dir, data, synced, mode>>

PowerCut ==
    /\ Die({w \in Writers : pc[w] \in Running})
    /\ entry' \in {entry} \cup lost
    /\ lost' = {}
    /\ data' \in [Writers -> Contents]
    /\ \A w \in synced : data'[w] = data[w]
    /\ UNCHANGED <<temps, synced, mode>>

Next ==
    \/ \E w \in Writers :
        \/ CreateTemp(w) \/ Chmod(w) \/ Write(w) \/ SyncFile(w) \/ Close(w)
        \/ Rename(w) \/ SyncDir(w) \/ Cleanup(w) \/ Killed(w)
    \/ PowerCut

Spec == Init /\ [][Next]_vars

-----------------------------------------------------------------------------
(* Properties.                                                             *)

\* The variables hold values of their types.
TypeOK ==
    /\ entry \in Writers \cup {Old}
    /\ lost \subseteq Writers \cup {Old}
    /\ temps \subseteq Writers
    /\ data \in [Writers -> Contents]
    /\ synced \subseteq Writers
    /\ mode \subseteq Writers
    /\ pc \in [Writers -> Steps]
    /\ result \in [Writers -> Results]

\* The files the path may name if the power is cut now.
Possible == {entry} \cup lost

\* Whatever the path names, and whatever it names after a power cut, was written
\* to its end, is on the disk and has the permissions asked for ("an existing
\* target's permissions must never be inherited").
OnlyFinishedFilesShow ==
    \A w \in Writers \cap Possible : data[w] = "whole" /\ w \in synced \cap mode

\* "On any failure ... the previous contents of path are left untouched": a call
\* that returned an error other than DurabilityError never shows at the path, not
\* even after a power cut.
ErrorMeansUntouched == \A w \in Writers : result[w] = "error" => w \notin Possible

\* "a rename is only durable once the directory entry is flushed": once any call
\* has returned nil, the content from before all of them never comes back.
OkMeansDurable == (\E w \in Writers : result[w] = "ok") => Old \notin Possible

\* What a reader may ever find at the path is a whole content.
Content(f) == IF f \in Writers /\ data[f] # "whole" THEN Torn ELSE f
Status(w) ==
    IF At(w, "syncdir") THEN "published"
    ELSE IF At(w, "done") THEN result[w]
    ELSE IF At(w, "dead") THEN "dead"
    ELSE "pending"

Register == INSTANCE FileRegister WITH
    value <- Content(entry),
    fallback <- {Content(f) : f \in lost},
    status <- [w \in Writers |-> Status(w)]

\* WriteFile is the atomic replacement its doc comment promises, for concurrent
\* callers, through failures, kills and power cuts.
ImplementsRegister == Register!Spec
=============================================================================
