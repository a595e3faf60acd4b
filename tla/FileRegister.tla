---------------------------- MODULE FileRegister ----------------------------
(***************************************************************************)
(* What fsutil.WriteFile promises of the file at one path                  *)
(* (internal/fsutil/atomic.go): it always holds one whole content, each    *)
(* call replaces it in one step or not at all, and the answer says which.  *)
(***************************************************************************)

CONSTANTS
    Writers,    \* calls of WriteFile for the path; also the content each writes
    Old         \* the content before

VARIABLES
    value,      \* the content a reader finds
    fallback,   \* contents a power cut may bring back instead
    status      \* per call: how far it got, as its caller can tell

vars == <<value, fallback, status>>

\* "pending" has replaced nothing yet, "published" has, and neither has answered.
Statuses == {"pending", "published", "ok", "error", "undurable", "dead"}

Init ==
    /\ value = Old
    /\ fallback = {}
    /\ status = [w \in Writers |-> "pending"]

Becomes(w, from, to) == status[w] = from /\ status' = [status EXCEPT ![w] = to]

Publish(w) ==
    /\ Becomes(w, "pending", "published")
    /\ value' = w
    /\ fallback' = fallback \cup {value}

\* A nil error: what the file holds now is there to stay.
Acknowledge(w) == Becomes(w, "published", "ok") /\ fallback' = {} /\ UNCHANGED value

\* A DurabilityError: the new content is live, a power cut could undo it.
Undurable(w) == Becomes(w, "published", "undurable") /\ UNCHANGED <<value, fallback>>

\* Any other error: nothing has changed.
Fail(w) == Becomes(w, "pending", "error") /\ UNCHANGED <<value, fallback>>

Die(S) ==
    /\ \A w \in S : status[w] \in {"pending", "published"}
    /\ status' = [w \in Writers |-> IF w \in S THEN "dead" ELSE status[w]]

Killed(S) == Die(S) /\ UNCHANGED <<value, fallback>>

PowerCut(S) ==
    /\ Die(S)
    /\ value' \in {value} \cup fallback
    /\ fallback' = {}

Next ==
    \/ \E w \in Writers : Publish(w) \/ Acknowledge(w) \/ Undurable(w) \/ Fail(w)
    \/ \E S \in SUBSET Writers : Killed(S) \/ PowerCut(S)

Spec == Init /\ [][Next]_vars
=============================================================================
