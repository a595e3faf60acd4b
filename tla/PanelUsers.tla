---------------------------- MODULE PanelUsers ----------------------------
(***************************************************************************)
(* The panel's user routes (panel/worker/src/routes/users.ts: create,      *)
(* delete, upgrade-nodes; the bot's /sync, lib/telegram-commands.ts and    *)
(* routes/nodes.ts) and the agents they call (cmd/cfvpn-agent/main.go).    *)
(*                                                                         *)
(* Nothing is a transaction here: every await of a Worker, every answer of *)
(* an agent and every statement of D1 is a step, and the steps of several  *)
(* Workers interleave.  A handler of an agent is one step under the node's *)
(* config lock: its inside is module NodeUsers, what it leaves behind when *)
(* it fails is Leaves.  Two lists stand for a node's user configuration,   *)
(* xray's and hysteria's.                                                  *)
(*                                                                         *)
(* Left out: the user limit (an error before any change), nodes that are   *)
(* created or deleted meanwhile, and the runtime columns a sync refreshes. *)
(***************************************************************************)
EXTENDS Naturals, FiniteSets

CONSTANTS
    Nodes,      \* rows of the nodes table
    Names,      \* user ids
    Requests,   \* create, delete and upgrade requests; also the credentials
                \* an agent mints while it serves one of them
    NoCred,     \* "no entry for this user"
    None,       \* no request, no job
    Sync,       \* a sync, as the holder of a node's config lock
    MaxFaults   \* bound on the failures of the environment

ASSUME BoundAssumption == MaxFaults \in Nat
ASSUME NoneAssumption  == None \notin Requests \cup {Sync} /\ NoCred \notin Requests
ASSUME SyncAssumption  == Sync \notin Requests

VARIABLES
    users,      \* D1: ids in the table users
    rows,       \* D1: user_nodes, user -> node -> credentials
    active,     \* D1: the nodes whose status is 'active'
    xray,       \* node -> user -> vless uuid
    hy2,        \* node -> user -> hysteria password
    job,        \* node -> the call it still serves though the panel has given up
    pc,         \* request -> its next step
    req,        \* request -> what was asked
    call,       \* request -> node -> its part of Promise.allSettled
    got,        \* request -> node -> the credentials the agent answered
    answer,     \* request -> the HTTP answer
    sync,       \* node -> the sync under way there
    reported,   \* user and node pairs that some answer said to be in doubt
    raced,      \* pairs two requests have worked on at once (see Rivals)
    faults      \* failures of the environment so far

d1 == <<users, rows, active>>
agents == <<xray, hy2, job>>
workers == <<pc, req, call, got, answer>>
ghosts == <<reported, raced>>
vars == <<d1, agents, workers, sync, ghosts, faults>>

Cred == Requests \cup {NoCred}
Pair == [x : Cred, h : Cred]
Nothing == [x |-> NoCred, h |-> NoCred]
List == [Names -> Pair]
Kinds == {"create", "delete", "upgrade"}

Init ==
    /\ users = {}
    /\ rows = [u \in Names |-> [n \in Nodes |-> Nothing]]
    /\ active = Nodes
    /\ xray = [n \in Nodes |-> [u \in Names |-> NoCred]]
    /\ hy2 = [n \in Nodes |-> [u \in Names |-> NoCred]]
    /\ job = [n \in Nodes |-> [by |-> None]]
    /\ pc = [r \in Requests |-> "idle"]
    /\ req = [r \in Requests |-> None]
    /\ call = [r \in Requests |-> [n \in Nodes |-> "none"]]
    /\ got = [r \in Requests |-> [n \in Nodes |-> Nothing]]
    /\ answer = [r \in Requests |-> "none"]
    /\ sync = [n \in Nodes |-> [at |-> "idle"]]
    /\ reported = {}
    /\ raced = {}
    /\ faults = 0

Fault == faults < MaxFaults /\ faults' = faults + 1
NoFault == faults' = faults

At(r, step) == pc[r] = step
GoTo(r, step) == pc' = [pc EXCEPT ![r] = step]
User(r) == req[r].user
InFlight(r) == pc[r] \notin {"idle", "done"}
Called(r) == {n \in Nodes : call[r][n] # "none"}

\* Requests on one user that nothing keeps apart: one deletes, one provisions.
Rivals(u, kind) == {q \in Requests : /\ InFlight(q)
                                     /\ User(q) = u
                                     /\ (req[q].kind = "delete") # (kind = "delete")}

-----------------------------------------------------------------------------
(* The routes.                                                             *)

Answer(r, what) ==
    /\ GoTo(r, "done")
    /\ answer' = [answer EXCEPT ![r] = what]
    /\ call' = [call EXCEPT ![r] = [n \in Nodes |-> "none"]]
    /\ got' = [got EXCEPT ![r] = [n \in Nodes |-> Nothing]]

\* The routes' first statement looks the user up.
Begin(r) ==
    /\ At(r, "idle")
    /\ \E kind \in Kinds, u \in Names :
        /\ req' = [req EXCEPT ![r] = [kind |-> kind, user |-> u]]
        /\ raced' = raced \cup (IF Rivals(u, kind) = {} THEN {} ELSE {u} \X Nodes)
                          \cup {<<u, n>> : n \in {m \in Nodes : sync[m].at # "idle"}}
        /\ sync' = [n \in Nodes |-> IF sync[n].at = "idle" THEN sync[n]
                                    ELSE [sync[n] EXCEPT !.with = @ \cup {u}]]
        /\ \/ /\ kind = "create" /\ u \in users
              /\ Answer(r, "user_exists")
           \/ /\ kind # "create" /\ u \notin users
              /\ Answer(r, "user_not_found")
           \/ /\ (kind = "create") # (u \in users)
              /\ GoTo(r, IF kind = "create" THEN "insert" ELSE "select")
              /\ UNCHANGED <<call, got, answer>>
    /\ NoFault
    /\ UNCHANGED <<d1, agents, reported>>

\* The second of two creations of one user breaks the primary key.
Insert(r) ==
    /\ At(r, "insert")
    /\ IF User(r) \in users
       THEN Answer(r, "failed") /\ UNCHANGED users
       ELSE /\ users' = users \cup {User(r)}
            /\ GoTo(r, "select")
            /\ UNCHANGED <<call, got, answer>>
    /\ NoFault
    /\ UNCHANGED <<rows, active, agents, req, sync, ghosts>>

\* The nodes the request is for, and the calls to all of them; upgrade-nodes
\* reads the user's rows with one statement more before it calls.
Targets(r) ==
    IF req[r].kind = "delete"
    THEN active \cup {n \in Nodes : rows[User(r)][n] # Nothing}
    ELSE active

Select(r) ==
    /\ At(r, "select")
    /\ LET sent == IF req[r].kind = "upgrade" THEN "picked" ELSE "sent"
       IN  call' = [call EXCEPT ![r] = [n \in Nodes |-> IF n \in Targets(r) THEN sent ELSE "none"]]
    /\ GoTo(r, IF req[r].kind = "upgrade" THEN "missing" ELSE "calls")
    /\ NoFault
    /\ UNCHANGED <<d1, agents, req, got, answer, sync, ghosts>>

Missing(r) ==
    /\ At(r, "missing")
    /\ call' = [call EXCEPT ![r] = [n \in Nodes |->
                  IF @[n] = "picked" /\ rows[User(r)][n] = Nothing THEN "sent" ELSE "none"]]
    /\ GoTo(r, "calls")
    /\ NoFault
    /\ UNCHANGED <<d1, agents, req, got, answer, sync, ghosts>>

\* recordNodeCredentials: the foreign key wants the user to be there still.
Record(r, n) ==
    /\ call[r][n] = "creds"
    /\ \/ /\ User(r) \in users
          /\ rows' = [rows EXCEPT ![User(r)][n] = got[r][n]]
          /\ call' = [call EXCEPT ![r][n] = "ok"]
          /\ NoFault
       \/ /\ IF User(r) \in users THEN Fault ELSE NoFault
          /\ call' = [call EXCEPT ![r][n] = "failed"]
          /\ UNCHANGED rows
    /\ UNCHANGED <<users, active, agents, pc, req, got, answer, sync, ghosts>>

Settled(r) == \A n \in Nodes : call[r][n] \in {"none", "ok", "failed"}

\* The answer lists every node that failed.
Summary(r) ==
    LET failed == {n \in Nodes : call[r][n] = "failed"}
    IN  /\ reported' = reported \cup {<<User(r), n>> : n \in failed}
        /\ Answer(r, IF failed = {} THEN "ok" ELSE "failed")

\* createUserByName and userUpgradeNodes, after Promise.allSettled.
Report(r) ==
    /\ At(r, "calls") /\ Settled(r)
    /\ req[r].kind # "delete"
    /\ Summary(r)
    /\ NoFault
    /\ UNCHANGED <<d1, agents, req, sync, raced>>

\* deleteUser: the user goes whatever the nodes said, its rows with it.
Drop(r) ==
    /\ At(r, "calls") /\ Settled(r)
    /\ req[r].kind = "delete"
    /\ users' = users \ {User(r)}
    /\ rows' = [rows EXCEPT ![User(r)] = [n \in Nodes |-> Nothing]]
    /\ Summary(r)
    /\ NoFault
    /\ UNCHANGED <<active, agents, req, sync, raced>>

\* A statement of D1 throws, or the Worker is cut off: the caller sees a 5xx
\* that names no node.
Cut(r) ==
    /\ InFlight(r)
    /\ Fault
    /\ reported' = reported \cup {<<User(r), n>> : n \in Called(r)}
    /\ Answer(r, "failed")
    /\ UNCHANGED <<d1, agents, req, sync, raced>>

\* callAgent fails before the agent has its lock (acquireLockOrFail waits no
\* longer than its client does), or is given up on while the agent goes on under
\* the lock (MAX_TIMEOUT_MS, a lost connection).
Abandoned(n, work) ==
    \/ UNCHANGED job
    \/ job[n].by = None /\ job' = [job EXCEPT ![n] = work]

CallFails(r, n) ==
    /\ call[r][n] = "sent"
    /\ Fault
    /\ call' = [call EXCEPT ![r][n] = "failed"]
    /\ Abandoned(n, [by |-> r])
    /\ UNCHANGED <<d1, xray, hy2, pc, req, got, answer, sync, ghosts>>

-----------------------------------------------------------------------------
(* The agents.                                                             *)

Here(n) == {u \in Names : xray[n][u] # NoCred}

\* currentSyncUsers: xray's users, and a new password for one hysteria lacks.
Passwords(n, r) ==
    [u \in Names |-> IF u \notin Here(n) THEN NoCred
                     ELSE IF hy2[n][u] = NoCred THEN r ELSE hy2[n][u]]

\* A user that is there already is given new credentials.
AfterPost_minted(n, r) ==
    [x |-> [xray[n] EXCEPT ![User(r)] = r], h |-> [Passwords(n, r) EXCEPT ![User(r)] = r]]

\* handleUsers: a user that is there already keeps what it has.
AfterPost(n, r) ==
    IF User(r) \in Here(n) THEN [x |-> xray[n], h |-> Passwords(n, r)]
    ELSE [x |-> [xray[n] EXCEPT ![User(r)] = r], h |-> [Passwords(n, r) EXCEPT ![User(r)] = r]]

\* The entry of a removed user stays, without a value.
AfterDelete_hole(n, r) ==
    [x |-> [xray[n] EXCEPT ![User(r)] = NoCred], h |-> [Passwords(n, r) EXCEPT ![User(r)] = None]]

\* handleUser: everybody else.
AfterDelete(n, r) ==
    [x |-> [xray[n] EXCEPT ![User(r)] = NoCred],
     h |-> [Passwords(n, r) EXCEPT ![User(r)] = NoCred]]

\* What applyUsers leaves: both lists and an ok; or an error with nothing, xray
\* alone, or everything changed.
Leaves(n, to, ok) ==
    \/ ok /\ NoFault /\ xray' = [xray EXCEPT ![n] = to.x] /\ hy2' = [hy2 EXCEPT ![n] = to.h]
    \/ /\ ~ok /\ Fault
       /\ \/ UNCHANGED <<xray, hy2>>
          \/ xray' = [xray EXCEPT ![n] = to.x] /\ UNCHANGED hy2
          \/ xray' = [xray EXCEPT ![n] = to.x] /\ hy2' = [hy2 EXCEPT ![n] = to.h]

\* The node's config lock goes to a call that waits for it, and stays with one
\* the panel has given up on.
Holds(n, r) == job[n].by = r \/ (job[n].by = None /\ call[r][n] = "sent")
Release(n) == job' = [job EXCEPT ![n] = [by |-> None]]

\* The panel hears of it if it has waited.
Hears(r, n, what) ==
    IF job[n].by = r THEN UNCHANGED <<call, got>>
    ELSE /\ call' = [call EXCEPT ![r][n] = what]
         /\ got' = IF what # "creds" THEN got
                   ELSE [got EXCEPT ![r][n] = [x |-> xray'[n][User(r)], h |-> hy2'[n][User(r)]]]

\* POST /admin/v1/users.
ServePost(r, n) ==
    /\ Holds(n, r) /\ req[r].kind # "delete"
    /\ \E ok \in BOOLEAN :
        /\ Leaves(n, AfterPost(n, r), ok)
        /\ Hears(r, n, IF ok THEN "creds" ELSE "failed")
    /\ Release(n)
    /\ UNCHANGED <<d1, pc, req, answer, sync, ghosts>>

\* DELETE /admin/v1/users/<name>; the panel takes the 404 for an ok.
ServeDelete(r, n) ==
    /\ Holds(n, r) /\ req[r].kind = "delete"
    /\ \/ /\ User(r) \notin Here(n)
          /\ NoFault
          /\ Hears(r, n, "ok")
          /\ UNCHANGED <<xray, hy2>>
       \/ /\ User(r) \in Here(n)
          /\ \E ok \in BOOLEAN :
              /\ Leaves(n, AfterDelete(n, r), ok)
              /\ Hears(r, n, IF ok THEN "ok" ELSE "failed")
    /\ Release(n)
    /\ UNCHANGED <<d1, pc, req, answer, sync, ghosts>>

-----------------------------------------------------------------------------
(* The bot's /sync, one at a time for a node.                              *)

\* Requests the sync may cross: their user's row may be on its way.
Crossed(n) == {User(r) : r \in {q \in Requests : InFlight(q) \/ job[n].by = q}}

\* buildNodeSyncUsers reads the rows of the node.
BeginSync(n) ==
    /\ sync[n].at = "idle"
    /\ sync' = [sync EXCEPT ![n] = [at |-> "sent", list |-> [u \in Names |-> rows[u][n]],
                                    with |-> Crossed(n)]]
    /\ raced' = raced \cup (Crossed(n) \X {n})
    /\ NoFault
    /\ UNCHANGED <<d1, agents, workers, reported>>

SyncFails(n) ==
    /\ sync[n].at = "sent"
    /\ Fault
    /\ sync' = [sync EXCEPT ![n] = [at |-> "idle"]]
    /\ reported' = reported \cup (Names \X {n})
    /\ Abandoned(n, [by |-> Sync, list |-> sync[n].list])
    /\ UNCHANGED <<d1, xray, hy2, workers, raced>>

\* A sync adds and changes users and removes none.
AfterSync_merged(n, list) ==
    [x |-> [u \in Names |-> IF list[u] = Nothing THEN xray[n][u] ELSE list[u].x],
     h |-> [u \in Names |-> IF list[u] = Nothing THEN hy2[n][u] ELSE list[u].h]]

\* handleSync: exactly the list, whatever node n had.
AfterSync(n, list) == [x |-> [u \in Names |-> list[u].x], h |-> [u \in Names |-> list[u].h]]

\* A list the panel has given up on.
ServeOldSync(n) ==
    /\ job[n].by = Sync
    /\ \E ok \in BOOLEAN : Leaves(n, AfterSync(n, job[n].list), ok)
    /\ Release(n)
    /\ UNCHANGED <<d1, workers, sync, ghosts>>

\* An ok settles what was in doubt, except for a request the sync crossed.
ServeSync(n) ==
    /\ sync[n].at = "sent" /\ job[n].by = None
    /\ LET alone == (Names \ sync[n].with) \X {n}
       IN  \/ /\ Leaves(n, AfterSync(n, sync[n].list), TRUE)
              /\ reported' = reported \ alone /\ raced' = raced \ alone
           \/ /\ Leaves(n, AfterSync(n, sync[n].list), FALSE)
              /\ reported' = reported \cup (Names \X {n}) /\ UNCHANGED raced
    /\ sync' = [sync EXCEPT ![n] = [at |-> "idle"]]
    /\ UNCHANGED <<d1, job, workers>>

\* The sweep and the status routes: a node that fails to answer, and one that
\* answers again.
SetStatus(n) ==
    /\ \/ n \in active /\ Fault /\ active' = active \ {n}
       \/ n \notin active /\ NoFault /\ active' = active \cup {n}
    /\ UNCHANGED <<users, rows, agents, workers, sync, ghosts>>

RequestStep(r) ==
    \/ Insert(r) \/ Select(r) \/ Missing(r) \/ Report(r) \/ Drop(r)
    \/ \E n \in Nodes : Record(r, n)
AgentStep(n) == ServeOldSync(n) \/ \E r \in Requests : ServePost(r, n) \/ ServeDelete(r, n)

Next ==
    \/ \E r \in Requests : Begin(r) \/ RequestStep(r) \/ Cut(r)
    \/ \E r \in Requests, n \in Nodes : CallFails(r, n)
    \/ \E n \in Nodes : AgentStep(n) \/ BeginSync(n) \/ ServeSync(n) \/ SyncFails(n) \/ SetStatus(n)

Spec == Init /\ [][Next]_vars

\* Workers and agents go on, and the operator syncs every node again and again.
Fairness ==
    /\ \A r \in Requests : WF_vars(RequestStep(r))
    /\ \A n \in Nodes : WF_vars(AgentStep(n)) /\ WF_vars(BeginSync(n)) /\ WF_vars(ServeSync(n))

FairSpec == Spec /\ Fairness

-----------------------------------------------------------------------------
(* Properties.                                                             *)

\* The variables hold values of their types.
TypeOK ==
    /\ users \subseteq Names /\ active \subseteq Nodes
    /\ rows \in [Names -> [Nodes -> Pair]]
    /\ xray \in [Nodes -> [Names -> Cred]] /\ hy2 \in [Nodes -> [Names -> Cred]]
    /\ job \in [Nodes -> [by : Requests \cup {None}] \cup [by : {Sync}, list : List]]
    /\ pc \in [Requests -> {"idle", "insert", "select", "missing", "calls", "done"}]
    /\ req \in [Requests -> [kind : Kinds, user : Names] \cup {None}]
    /\ call \in [Requests -> [Nodes -> {"none", "picked", "sent", "creds", "ok", "failed"}]]
    /\ got \in [Requests -> [Nodes -> Pair]]
    /\ answer \in [Requests -> {"none", "ok", "failed", "user_exists", "user_not_found"}]
    /\ sync \in [Nodes -> [at : {"idle"}] \cup [at : {"sent"}, list : List, with : SUBSET Names]]
    /\ reported \subseteq Names \X Nodes /\ raced \subseteq Names \X Nodes
    /\ faults \in 0..MaxFaults

\* The credentials in the panel's subscription are the ones the node accepts.
Agree(u, n) == rows[u][n] = [x |-> xray[n][u], h |-> hy2[n][u]]

Quiet(u, n) ==
    /\ \A r \in Requests : ~(InFlight(r) /\ User(r) = u)
    /\ sync[n].at = "idle" /\ job[n].by = None

\* When the last request about a user has been answered, the panel and each node
\* agree on it, unless an answer since the last good sync named the pair as
\* failed, or a deletion crossed a creation or upgrade of the same user, or a
\* sync of the node crossed a request about it: nothing goes wrong in silence
\* (users.ts: failureEntry, results, 207).
DisagreementIsReported ==
    \A u \in Names, n \in Nodes : Quiet(u, n) => Agree(u, n) \/ <<u, n>> \in reported \cup raced

\* Whatever crossed, failed or timed out, syncs heal: the panel and every node
\* agree for good once requests stop ("orphaned until those nodes are
\* re-synced", users.ts:214).
SyncsHeal == <>[](\A u \in Names, n \in Nodes : Agree(u, n))
=============================================================================
