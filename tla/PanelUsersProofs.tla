-------------------------- MODULE PanelUsersProofs --------------------------
(***************************************************************************)
(* Theorems about PanelUsers, for any number of users, nodes, requests and *)
(* failures: the variables keep their types, and the panel and a node do   *)
(* not disagree about a user in silence.                                   *)
(***************************************************************************)
EXTENDS PanelUsers, TLAPS

Asked == [kind : Kinds, user : Names]
Jobs == [by : Requests \cup {None}] \cup [by : {Sync}, list : List]
Syncs == [at : {"idle"}] \cup [at : {"sent"}, list : List, with : SUBSET Names]

\* A request that has begun knows what it was asked, and it has calls out only
\* while it waits for them; credentials are answered to a request that provisions.
CallInv ==
    \A r \in Requests :
        /\ pc[r] # "idle" => req[r] \in Asked
        /\ \A n \in Nodes :
            /\ call[r][n] # "none" => pc[r] \in {"missing", "calls"}
            /\ call[r][n] \notin {"none", "picked"} => pc[r] = "calls"
            /\ call[r][n] = "creds" => req[r].kind # "delete"

\* Whoever an agent works for has begun.
BegunInv == \A r \in Requests, n \in Nodes : job[n].by = r => pc[r] # "idle"

TypeInv == TypeOK /\ CallInv /\ BegunInv

-----------------------------------------------------------------------------
(* Disagreement.                                                           *)

Doubtful(u, n) == <<u, n>> \in reported \cup raced
OnNode(u, n) == [x |-> xray[n][u], h |-> hy2[n][u]]
About(r, u) == InFlight(r) /\ User(r) = u

\* Both credentials or neither.
IsWhole(p) == p.x = NoCred <=> p.h = NoCred

WholeInv ==
    /\ \A u \in Names, n \in Nodes : IsWhole(rows[u][n])
    /\ \A r \in Requests, n \in Nodes :
        call[r][n] = "creds" => got[r][n].x # NoCred /\ got[r][n].h # NoCred

\* What an agent still does for a panel that has given up will be, or has been,
\* answered as a failure.
JobInv ==
    \A n \in Nodes :
        /\ job[n].by = Sync => \A u \in Names : <<u, n>> \in reported
        /\ \A r \in Requests : job[n].by = r =>
            (InFlight(r) /\ call[r][n] = "failed") \/ <<User(r), n>> \in reported

\* The users a sync has not crossed are the ones whose rows it carries.
SyncInv ==
    \A n \in Nodes, u \in Names : sync[n].at = "sent" =>
        \/ u \in sync[n].with /\ <<u, n>> \in raced
        \/ /\ u \notin sync[n].with
           /\ sync[n].list[u] = rows[u][n]
           /\ \A r \in Requests : ~About(r, u)

\* Requests at once about one user, on a pair that is not in doubt, are all of
\* one side.
RivalInv ==
    \A u \in Names, n \in Nodes : <<u, n>> \notin raced =>
        \A q, r \in Requests : About(q, u) /\ About(r, u) =>
            (req[q].kind = "delete" <=> req[r].kind = "delete")

\* Somebody will say that node n failed.
WillFail(u, n) == \E r \in Requests : About(r, u) /\ call[r][n] = "failed"
Provides(u, n) == \E r \in Requests : About(r, u) /\ call[r][n] = "creds"
Removes(u, n) ==
    \E r \in Requests : About(r, u) /\ req[r].kind = "delete" /\ call[r][n] = "ok"

\* A pair that is not in doubt agrees, or a request is at work that will make it
\* agree or say that it may not.
PairAt(u, n) ==
    ~Doubtful(u, n) =>
        /\ \/ Agree(u, n)
           \/ WillFail(u, n)
           \/ Provides(u, n)
           \/ Removes(u, n) /\ OnNode(u, n) = Nothing
        /\ \A r \in Requests : About(r, u) =>
            /\ call[r][n] = "creds" => got[r][n] = OnNode(u, n)
            /\ req[r].kind = "delete" /\ pc[r] = "calls" =>
                /\ call[r][n] = "ok" => OnNode(u, n) = Nothing \/ WillFail(u, n)
                /\ call[r][n] = "none" => rows[u][n] = Nothing

PairInv == \A u \in Names, n \in Nodes : PairAt(u, n)

\* Only upgrade-nodes asks which rows are missing.
MissingInv == \A r \in Requests : pc[r] = "missing" => req[r].kind = "upgrade"

IInv == TypeInv /\ MissingInv /\ WholeInv /\ JobInv /\ SyncInv /\ RivalInv /\ PairInv

-----------------------------------------------------------------------------
(* Types.                                                                  *)

Calls == {"none", "picked", "sent", "creds", "ok", "failed"}
Replies == {"none", "ok", "failed", "user_exists", "user_not_found"}

LEMMA SetEntry ==
    ASSUME NEW A, NEW B, NEW C, NEW f \in [A -> [B -> C]], NEW a \in A, NEW b \in B,
           NEW c \in C, NEW g, g = [f EXCEPT ![a][b] = c]
    PROVE  /\ g \in [A -> [B -> C]] /\ g[a][b] = c
           /\ \A x \in A, y \in B : x # a \/ y # b => g[x][y] = f[x][y]
OBVIOUS

LEMMA SetRow ==
    ASSUME NEW A, NEW B, NEW C, NEW f \in [A -> [B -> C]], NEW a \in A,
           NEW c \in [B -> C], NEW g, g = [f EXCEPT ![a] = c]
    PROVE  /\ g \in [A -> [B -> C]] /\ g[a] = c
           /\ \A x \in A : x # a => g[x] = f[x]
OBVIOUS

\* A request and its calls; the other requests.
OthersStay(r) ==
    \A q \in Requests \ {r} :
        /\ pc'[q] = pc[q] /\ req'[q] = req[q]
        /\ \A n \in Nodes : call'[q][n] = call[q][n] /\ got'[q][n] = got[q][n]

WorkerTypes ==
    /\ pc \in [Requests -> {"idle", "insert", "select", "missing", "calls", "done"}]
    /\ req \in [Requests -> Asked \cup {None}]
    /\ call \in [Requests -> [Nodes -> Calls]]
    /\ got \in [Requests -> [Nodes -> Pair]]
    /\ answer \in [Requests -> Replies]

RowTypes ==
    /\ users \subseteq Names /\ active \subseteq Nodes
    /\ rows \in [Names -> [Nodes -> Pair]]

AgentTypes ==
    /\ xray \in [Nodes -> [Names -> Cred]] /\ hy2 \in [Nodes -> [Names -> Cred]]
    /\ job \in [Nodes -> Jobs]

RestTypes ==
    /\ sync \in [Nodes -> Syncs]
    /\ reported \subseteq Names \X Nodes /\ raced \subseteq Names \X Nodes
    /\ faults \in 0..MaxFaults

LEMMA TypeParts == TypeOK <=> RowTypes /\ AgentTypes /\ WorkerTypes /\ RestTypes
BY DEF TypeOK, RowTypes, AgentTypes, WorkerTypes, RestTypes, Calls, Replies, Asked, Jobs, Syncs

LEMMA TypePartsPrime == TypeOK' <=> RowTypes' /\ AgentTypes' /\ WorkerTypes' /\ RestTypes'
BY DEF TypeOK, RowTypes, AgentTypes, WorkerTypes, RestTypes, Calls, Replies, Asked, Jobs, Syncs

LEMMA NothingType == Nothing \in Pair
BY DEF Nothing, Pair, Cred

LEMMA FaultType ==
    ASSUME TypeOK, Fault \/ NoFault
    PROVE  faults' \in 0..MaxFaults
BY BoundAssumption DEF TypeOK, Fault, NoFault

\* Answering ends a request, and its calls with it.
LEMMA AnswerParts ==
    ASSUME WorkerTypes, NEW r \in Requests, NEW what \in Replies, Answer(r, what)
    PROVE  /\ pc' \in [Requests -> {"idle", "insert", "select", "missing", "calls", "done"}]
           /\ call' \in [Requests -> [Nodes -> Calls]]
           /\ got' \in [Requests -> [Nodes -> Pair]]
           /\ answer' \in [Requests -> Replies]
           /\ pc'[r] = "done" /\ \A n \in Nodes : call'[r][n] = "none"
           /\ \A q \in Requests \ {r} : pc'[q] = pc[q] /\ call'[q] = call[q] /\ got'[q] = got[q]
<1>1. [n \in Nodes |-> "none"] \in [Nodes -> Calls] /\ [n \in Nodes |-> Nothing] \in [Nodes -> Pair]
  BY NothingType DEF Calls
<1>2. QED
  BY <1>1 DEF WorkerTypes, Answer, GoTo

LEMMA AnswerEffect ==
    ASSUME WorkerTypes, NEW r \in Requests, NEW what \in Replies, Answer(r, what),
           UNCHANGED req
    PROVE  /\ WorkerTypes' /\ OthersStay(r)
           /\ pc'[r] = "done" /\ \A n \in Nodes : call'[r][n] = "none"
BY AnswerParts DEF WorkerTypes, OthersStay

LEMMA OtherCalls ==
    ASSUME CallInv, NEW r \in Requests, OthersStay(r),
           pc'[r] # "idle" => req'[r] \in Asked,
           \A n \in Nodes :
               /\ call'[r][n] # "none" => pc'[r] \in {"missing", "calls"}
               /\ call'[r][n] \notin {"none", "picked"} => pc'[r] = "calls"
               /\ call'[r][n] = "creds" => req'[r].kind # "delete"
    PROVE  CallInv'
BY DEF CallInv, OthersStay

LEMMA StillBegun ==
    ASSUME BegunInv, NEW r \in Requests, OthersStay(r), pc'[r] # "idle",
           \A n \in Nodes : job'[n].by \in Requests \ {r} => job'[n].by = job[n].by
    PROVE  BegunInv'
BY DEF BegunInv, OthersStay

LEMMA UserType ==
    ASSUME TypeInv, NEW r \in Requests, pc[r] # "idle"
    PROVE  req[r] \in Asked /\ User(r) \in Names /\ req[r].kind \in Kinds
BY DEF TypeInv, CallInv, Asked, User

LEMMA BeginTypeInv ==
    ASSUME TypeInv, NEW r \in Requests, Begin(r)
    PROVE  TypeInv' /\ OthersStay(r)
<1>0. WorkerTypes /\ RowTypes /\ AgentTypes /\ RestTypes
  BY TypeParts DEF TypeInv
<1>1. PICK kind \in Kinds, u \in Names :
        /\ req' = [req EXCEPT ![r] = [kind |-> kind, user |-> u]]
        /\ raced' = raced \cup (IF Rivals(u, kind) = {} THEN {} ELSE {u} \X Nodes)
                          \cup {<<u, n>> : n \in {m \in Nodes : sync[m].at # "idle"}}
        /\ sync' = [n \in Nodes |-> IF sync[n].at = "idle" THEN sync[n]
                                    ELSE [sync[n] EXCEPT !.with = @ \cup {u}]]
        /\ \/ /\ kind = "create" /\ u \in users
              /\ Answer(r, "user_exists")
           \/ /\ kind # "create" /\ u \notin users
              /\ Answer(r, "user_not_found")
           \/ /\ (kind = "create") # (u \in users)
              /\ GoTo(r, IF kind = "create" THEN "insert" ELSE "select")
              /\ UNCHANGED <<call, got, answer>>
  BY DEF Begin
<1>2. \A n \in Nodes : call[r][n] = "none"
  BY DEF Begin, At, TypeInv, CallInv
<1>3. req' \in [Requests -> Asked \cup {None}] /\ req'[r] \in Asked
      /\ \A q \in Requests \ {r} : req'[q] = req[q]
  BY <1>0, <1>1 DEF WorkerTypes, Asked
<1>4. /\ pc' \in [Requests -> {"idle", "insert", "select", "missing", "calls", "done"}]
      /\ call' \in [Requests -> [Nodes -> Calls]]
      /\ got' \in [Requests -> [Nodes -> Pair]]
      /\ answer' \in [Requests -> Replies]
      /\ \A n \in Nodes : call'[r][n] = "none"
      /\ \A q \in Requests \ {r} : pc'[q] = pc[q] /\ call'[q] = call[q] /\ got'[q] = got[q]
  <2>1. {"user_exists", "user_not_found"} \subseteq Replies
    BY DEF Replies
  <2>2. CASE Answer(r, "user_exists")
    BY <1>0, <2>1, <2>2, AnswerParts
  <2>3. CASE Answer(r, "user_not_found")
    BY <1>0, <2>1, <2>3, AnswerParts
  <2>4. CASE GoTo(r, IF kind = "create" THEN "insert" ELSE "select")
             /\ UNCHANGED <<call, got, answer>>
    BY <1>0, <1>2, <2>4 DEF WorkerTypes, GoTo
  <2>5. QED
    BY <1>1, <2>2, <2>3, <2>4
<1>5. WorkerTypes' /\ OthersStay(r)
  BY <1>3, <1>4 DEF WorkerTypes, OthersStay
<1>6. sync' \in [Nodes -> Syncs]
  BY <1>0, <1>1 DEF RestTypes, Syncs
<1>7. raced' \subseteq Names \X Nodes
  BY <1>0, <1>1 DEF RestTypes
<1>8. RowTypes' /\ AgentTypes' /\ RestTypes'
  BY <1>0, <1>6, <1>7 DEF Begin, RowTypes, AgentTypes, RestTypes, d1, agents, NoFault
<1>9. CallInv'
  BY <1>3, <1>4, <1>5, OtherCalls DEF TypeInv
<1>10. BegunInv'
  <2>1. pc'[r] # "idle"
    BY <1>0, <1>1 DEF Answer, GoTo, WorkerTypes
  <2>2. UNCHANGED job
    BY DEF Begin, agents
  <2>3. QED
    BY <1>5, <2>1, <2>2, StillBegun DEF TypeInv
<1>11. QED
  BY <1>5, <1>8, <1>9, <1>10, TypePartsPrime DEF TypeInv

\* A step of a request, under way, that leaves the agents alone.
LEMMA InsertTypeInv ==
    ASSUME TypeInv, NEW r \in Requests, Insert(r)
    PROVE  TypeInv' /\ OthersStay(r)
<1>0. WorkerTypes /\ RowTypes /\ AgentTypes /\ RestTypes
  BY TypeParts DEF TypeInv
<1>1. pc[r] = "insert" /\ User(r) \in Names /\ UNCHANGED req
  BY UserType DEF Insert, At
<1>2. \A n \in Nodes : call[r][n] = "none"
  BY <1>1 DEF TypeInv, CallInv
<1>3. /\ WorkerTypes' /\ OthersStay(r) /\ pc'[r] # "idle"
      /\ \A n \in Nodes : call'[r][n] = "none"
  <2>1. CASE Answer(r, "failed")
    BY <1>0, <1>1, <2>1, AnswerEffect DEF Replies
  <2>2. CASE GoTo(r, "select") /\ UNCHANGED <<call, got, answer>>
    BY <1>0, <1>1, <1>2, <2>2 DEF WorkerTypes, OthersStay, GoTo
  <2>3. QED
    BY <2>1, <2>2 DEF Insert
<1>4. RowTypes' /\ AgentTypes' /\ RestTypes'
  BY <1>0, <1>1 DEF Insert, RowTypes, AgentTypes, RestTypes, agents, ghosts, NoFault
<1>5. CallInv'
  <2>1. req'[r] \in Asked
    BY <1>1, UserType
  <2>2. QED
    BY <1>3, <2>1, OtherCalls DEF TypeInv
<1>6. BegunInv'
  <2>1. UNCHANGED job
    BY DEF Insert, agents
  <2>2. QED
    BY <1>3, <2>1, StillBegun DEF TypeInv
<1>7. QED
  BY <1>3, <1>4, <1>5, <1>6, TypePartsPrime DEF TypeInv

LEMMA SelectTypeInv ==
    ASSUME TypeInv, NEW r \in Requests, Select(r) \/ Missing(r)
    PROVE  TypeInv' /\ OthersStay(r)
<1>0. WorkerTypes /\ RowTypes /\ AgentTypes /\ RestTypes
  BY TypeParts DEF TypeInv
<1>1. pc[r] \in {"select", "missing"} /\ UNCHANGED <<req, got, answer>>
  BY DEF Select, Missing, At
<1>2. /\ call' \in [Requests -> [Nodes -> Calls]]
      /\ pc' \in [Requests -> {"idle", "insert", "select", "missing", "calls", "done"}]
      /\ \A q \in Requests \ {r} : pc'[q] = pc[q] /\ call'[q] = call[q]
      /\ pc'[r] \in {"missing", "calls"}
      /\ \A n \in Nodes : /\ call'[r][n] \in {"none", "picked", "sent"}
                          /\ call'[r][n] = "sent" => pc'[r] = "calls"
  <2>1. CASE Select(r)
    <3>1. call' = [call EXCEPT ![r] = call'[r]] /\ call'[r] \in [Nodes -> Calls]
          /\ \A n \in Nodes : /\ call'[r][n] \in {"none", "picked", "sent"}
                              /\ call'[r][n] = "sent" => req[r].kind # "upgrade"
      BY <1>0, <2>1 DEF Select, WorkerTypes, Calls
    <3>2. pc' = [pc EXCEPT ![r] = IF req[r].kind = "upgrade" THEN "missing" ELSE "calls"]
      BY <2>1 DEF Select, GoTo
    <3>3. QED
      BY <1>0, <3>1, <3>2 DEF WorkerTypes
  <2>2. CASE Missing(r)
    <3>1. call' = [call EXCEPT ![r] = call'[r]] /\ call'[r] \in [Nodes -> Calls]
          /\ \A n \in Nodes : call'[r][n] \in {"none", "picked", "sent"}
      BY <1>0, <2>2 DEF Missing, WorkerTypes, Calls
    <3>2. pc' = [pc EXCEPT ![r] = "calls"]
      BY <2>2 DEF Missing, GoTo
    <3>3. QED
      BY <1>0, <3>1, <3>2 DEF WorkerTypes
  <2>3. QED
    BY <2>1, <2>2
<1>3. WorkerTypes' /\ OthersStay(r)
  BY <1>0, <1>1, <1>2 DEF WorkerTypes, OthersStay
<1>4. RowTypes' /\ AgentTypes' /\ RestTypes'
  BY <1>0 DEF Select, Missing, RowTypes, AgentTypes, RestTypes, d1, agents, ghosts, NoFault
<1>5. CallInv'
  <2>1. req'[r] \in Asked
    BY <1>1, UserType
  <2>2. QED
    BY <1>2, <1>3, <2>1, OtherCalls DEF TypeInv
<1>6. BegunInv'
  <2>1. UNCHANGED job
    BY DEF Select, Missing, agents
  <2>2. QED
    BY <1>2, <1>3, <2>1, StillBegun DEF TypeInv
<1>7. QED
  BY <1>3, <1>4, <1>5, <1>6, TypePartsPrime DEF TypeInv

\* One call of r changes.
OneCall(r, n) ==
    /\ OthersStay(r)
    /\ pc'[r] = pc[r] /\ req'[r] = req[r]
    /\ \A m \in Nodes \ {n} : call'[r][m] = call[r][m] /\ got'[r][m] = got[r][m]

LEMMA SetCall ==
    ASSUME WorkerTypes, NEW r \in Requests, NEW n \in Nodes, NEW what \in Calls,
           call' = [call EXCEPT ![r][n] = what], UNCHANGED <<pc, req, got, answer>>
    PROVE  WorkerTypes' /\ OneCall(r, n) /\ call'[r][n] = what
<1>1. /\ call' \in [Requests -> [Nodes -> Calls]] /\ call'[r][n] = what
      /\ \A q \in Requests, m \in Nodes : q # r \/ m # n => call'[q][m] = call[q][m]
  BY SetEntry DEF WorkerTypes
<1>2. QED
  BY <1>1 DEF WorkerTypes, OneCall, OthersStay

LEMMA OneCallInv ==
    ASSUME TypeInv, NEW r \in Requests, NEW n \in Nodes, OneCall(r, n), pc[r] # "idle",
           call'[r][n] \notin {"none", "picked"} => pc[r] = "calls",
           call'[r][n] = "creds" => req[r].kind # "delete",
           call'[r][n] = "picked" => call[r][n] = "picked"
    PROVE  CallInv'
<1>1. /\ call'[r][n] # "none" => pc'[r] \in {"missing", "calls"}
      /\ call'[r][n] \notin {"none", "picked"} => pc'[r] = "calls"
      /\ call'[r][n] = "creds" => req'[r].kind # "delete"
  BY DEF TypeInv, CallInv, OneCall
<1>2. \A m \in Nodes \ {n} :
        /\ call'[r][m] # "none" => pc'[r] \in {"missing", "calls"}
        /\ call'[r][m] \notin {"none", "picked"} => pc'[r] = "calls"
        /\ call'[r][m] = "creds" => req'[r].kind # "delete"
  BY DEF TypeInv, CallInv, OneCall
<1>3. pc'[r] # "idle" => req'[r] \in Asked
  BY UserType DEF OneCall
<1>4. \A m \in Nodes :
        /\ call'[r][m] # "none" => pc'[r] \in {"missing", "calls"}
        /\ call'[r][m] \notin {"none", "picked"} => pc'[r] = "calls"
        /\ call'[r][m] = "creds" => req'[r].kind # "delete"
  BY <1>1, <1>2
<1>5. OthersStay(r)
  BY DEF OneCall
<1>6. QED
  BY <1>3, <1>4, <1>5, OtherCalls DEF TypeInv

LEMMA RecordTypeInv ==
    ASSUME TypeInv, NEW r \in Requests, NEW n \in Nodes, Record(r, n)
    PROVE  TypeInv' /\ OneCall(r, n)
<1>0. WorkerTypes /\ RowTypes /\ AgentTypes /\ RestTypes
  BY TypeParts DEF TypeInv
<1>1. call[r][n] = "creds" /\ pc[r] = "calls" /\ User(r) \in Names
  <2>1. pc[r] = "calls"
    BY DEF Record, TypeInv, CallInv
  <2>2. QED
    BY <2>1, UserType DEF Record
<1>2. WorkerTypes' /\ OneCall(r, n) /\ call'[r][n] \in {"ok", "failed"}
  BY <1>0, SetCall DEF Record, Calls
<1>3. RowTypes'
  <2>1. got[r][n] \in Pair
    BY <1>0 DEF WorkerTypes
  <2>2. CASE rows' = [rows EXCEPT ![User(r)][n] = got[r][n]]
    BY <1>0, <1>1, <2>1, <2>2, SetEntry DEF Record, RowTypes
  <2>3. CASE UNCHANGED rows
    BY <1>0, <2>3 DEF Record, RowTypes
  <2>4. QED
    BY <2>2, <2>3 DEF Record
<1>4. AgentTypes' /\ RestTypes'
  BY <1>0, FaultType DEF Record, AgentTypes, RestTypes, agents, ghosts, TypeInv
<1>5. CallInv'
  BY <1>1, <1>2, OneCallInv
<1>6. BegunInv'
  BY <1>1, <1>2, StillBegun DEF Record, agents, OneCall, TypeInv
<1>7. QED
  BY <1>2, <1>3, <1>4, <1>5, <1>6, TypePartsPrime DEF TypeInv

\* The requests that end here.
LEMMA EndTypeInv ==
    ASSUME TypeInv, NEW r \in Requests, Report(r) \/ Drop(r) \/ Cut(r)
    PROVE  /\ TypeInv' /\ OthersStay(r)
           /\ InFlight(r) /\ User(r) \in Names
           /\ pc'[r] = "done" /\ \A n \in Nodes : call'[r][n] = "none"
<1>0. WorkerTypes /\ RowTypes /\ AgentTypes /\ RestTypes
  BY TypeParts DEF TypeInv
<1>1. /\ InFlight(r) /\ User(r) \in Names /\ req[r] \in Asked
      /\ UNCHANGED <<req, agents, active, sync>>
  BY UserType DEF Report, Drop, Cut, At, InFlight, d1
<1>2. PICK what \in Replies : Answer(r, what)
  BY DEF Report, Drop, Cut, Summary, Replies
<1>3. /\ WorkerTypes' /\ OthersStay(r)
      /\ pc'[r] = "done" /\ \A n \in Nodes : call'[r][n] = "none"
  BY <1>0, <1>1, <1>2, AnswerEffect
<1>4. RowTypes'
  <2>1. [n \in Nodes |-> Nothing] \in [Nodes -> Pair]
    BY NothingType
  <2>2. CASE Drop(r)
    BY <1>0, <1>1, <2>1, <2>2, SetRow DEF Drop, RowTypes
  <2>3. CASE Report(r) \/ Cut(r)
    BY <1>0, <2>3 DEF Report, Cut, RowTypes, d1
  <2>4. QED
    BY <2>2, <2>3
<1>5. reported' \subseteq Names \X Nodes /\ UNCHANGED raced
  BY <1>0, <1>1 DEF Report, Drop, Cut, Summary, Called, RestTypes
<1>6. AgentTypes' /\ RestTypes'
  BY <1>0, <1>1, <1>5, FaultType DEF Report, Drop, Cut, AgentTypes, RestTypes, agents, TypeInv
<1>7. CallInv' /\ BegunInv'
  BY <1>1, <1>3, OtherCalls, StillBegun DEF TypeInv, agents
<1>8. QED
  BY <1>1, <1>3, <1>4, <1>6, <1>7, TypePartsPrime DEF TypeInv

\* A call that has failed, and the work the agent may go on with.
LEMMA AbandonedType ==
    ASSUME AgentTypes, NEW n \in Nodes, NEW work \in Jobs, Abandoned(n, work)
    PROVE  /\ job' \in [Nodes -> Jobs]
           /\ \A m \in Nodes \ {n} : job'[m] = job[m]
           /\ job'[n] = job[n] \/ (job[n].by = None /\ job'[n] = work)
BY DEF AgentTypes, Abandoned

LEMMA CallFailsTypeInv ==
    ASSUME TypeInv, NEW r \in Requests, NEW n \in Nodes, CallFails(r, n)
    PROVE  TypeInv' /\ OneCall(r, n) /\ pc[r] = "calls" /\ User(r) \in Names
<1>0. WorkerTypes /\ RowTypes /\ AgentTypes /\ RestTypes
  BY TypeParts DEF TypeInv
<1>1. call[r][n] = "sent" /\ pc[r] = "calls" /\ User(r) \in Names
  <2>1. pc[r] = "calls"
    BY DEF CallFails, TypeInv, CallInv
  <2>2. QED
    BY <2>1, UserType DEF CallFails
<1>2. WorkerTypes' /\ OneCall(r, n) /\ call'[r][n] = "failed"
  BY <1>0, SetCall DEF CallFails, Calls
<1>3. [by |-> r] \in Jobs
  BY DEF Jobs
<1>4. /\ job' \in [Nodes -> Jobs]
      /\ \A m \in Nodes \ {n} : job'[m] = job[m]
      /\ job'[n] = job[n] \/ job'[n] = [by |-> r]
  BY <1>0, <1>3, AbandonedType DEF CallFails
<1>5. RowTypes' /\ AgentTypes' /\ RestTypes'
  BY <1>0, <1>4, FaultType DEF CallFails, RowTypes, AgentTypes, RestTypes, d1, ghosts, TypeInv
<1>6. CallInv'
  BY <1>1, <1>2, OneCallInv
<1>7. \A m \in Nodes : job'[m].by \in Requests \ {r} => job'[m].by = job[m].by
  BY <1>4
<1>8. BegunInv'
  BY <1>1, <1>2, <1>7, StillBegun DEF OneCall, TypeInv
<1>9. QED
  BY <1>1, <1>2, <1>5, <1>6, <1>8, TypePartsPrime DEF TypeInv

-----------------------------------------------------------------------------
(* What a handler of an agent does to the lists of its node.               *)

Lists == [x : [Names -> Cred], h : [Names -> Cred]]

LEMMA AfterType ==
    ASSUME TypeInv, NEW n \in Nodes, NEW r \in Requests, pc[r] # "idle"
    PROVE  AfterPost(n, r) \in Lists /\ AfterDelete(n, r) \in Lists
<1>1. User(r) \in Names /\ r \in Cred /\ NoCred \in Cred
  BY UserType DEF Cred
<1>2. xray[n] \in [Names -> Cred] /\ hy2[n] \in [Names -> Cred]
  BY DEF TypeInv, TypeOK
<1>3. Passwords(n, r) \in [Names -> Cred]
  BY <1>1, <1>2 DEF Passwords
<1>4. QED
  BY <1>1, <1>2, <1>3 DEF AfterPost, AfterDelete, Lists

LEMMA AfterSyncType ==
    ASSUME NEW n, NEW list \in List
    PROVE  AfterSync(n, list) \in Lists
BY DEF AfterSync, Lists, List, Pair

LEMMA LeavesEffect ==
    ASSUME AgentTypes, NEW n \in Nodes, NEW to \in Lists, NEW ok \in BOOLEAN, Leaves(n, to, ok)
    PROVE  /\ xray' \in [Nodes -> [Names -> Cred]] /\ hy2' \in [Nodes -> [Names -> Cred]]
           /\ \A m \in Nodes \ {n} : xray'[m] = xray[m] /\ hy2'[m] = hy2[m]
           /\ xray'[n] = xray[n] \/ xray'[n] = to.x
           /\ hy2'[n] = hy2[n] \/ hy2'[n] = to.h
           /\ ok => xray'[n] = to.x /\ hy2'[n] = to.h
           /\ Fault \/ NoFault
<1>1. to.x \in [Names -> Cred] /\ to.h \in [Names -> Cred]
  BY DEF Lists
<1>2. QED
  BY <1>1 DEF Leaves, AgentTypes

LEMMA ReleaseType ==
    ASSUME AgentTypes, NEW n \in Nodes, Release(n)
    PROVE  /\ job' \in [Nodes -> Jobs] /\ job'[n].by = None
           /\ \A m \in Nodes \ {n} : job'[m] = job[m]
BY DEF AgentTypes, Release, Jobs

LEMMA HearsEffect ==
    ASSUME WorkerTypes, NEW r \in Requests, NEW n \in Nodes,
           NEW what \in {"creds", "ok", "failed"}, Hears(r, n, what),
           xray' \in [Nodes -> [Names -> Cred]], hy2' \in [Nodes -> [Names -> Cred]],
           User(r) \in Names, UNCHANGED <<pc, req, answer>>
    PROVE  /\ WorkerTypes' /\ OneCall(r, n)
           /\ job[n].by = r => UNCHANGED <<call, got>>
           /\ job[n].by # r =>
                /\ call'[r][n] = what
                /\ what = "creds" =>
                     got'[r][n] = [x |-> xray'[n][User(r)], h |-> hy2'[n][User(r)]]
<1>1. CASE job[n].by = r
  BY <1>1 DEF Hears, WorkerTypes, OneCall, OthersStay
<1>2. CASE job[n].by # r
  <2>1. what \in Calls
    BY DEF Calls
  <2>2. call' = [call EXCEPT ![r][n] = what]
    BY <1>2 DEF Hears
  <2>3. /\ call' \in [Requests -> [Nodes -> Calls]] /\ call'[r][n] = what
        /\ \A q \in Requests, m \in Nodes : q # r \/ m # n => call'[q][m] = call[q][m]
    BY <2>1, <2>2, SetEntry DEF WorkerTypes
  <2> DEFINE new == [x |-> xray'[n][User(r)], h |-> hy2'[n][User(r)]]
  <2>4. new \in Pair
    BY DEF Pair
  <2>5. got' = got \/ got' = [got EXCEPT ![r][n] = new]
    BY <1>2 DEF Hears
  <2> HIDE DEF new
  <2>6. /\ got' \in [Requests -> [Nodes -> Pair]]
        /\ \A q \in Requests, m \in Nodes : q # r \/ m # n => got'[q][m] = got[q][m]
    <3>1. CASE got' = got
      BY <3>1 DEF WorkerTypes
    <3>2. CASE got' = [got EXCEPT ![r][n] = new]
      BY <2>4, <3>2, SetEntry DEF WorkerTypes
    <3>3. QED
      BY <2>5, <3>1, <3>2
  <2>7. what = "creds" => got'[r][n] = new
    <3>1. SUFFICES ASSUME what = "creds" PROVE got'[r][n] = new
      OBVIOUS
    <3>2. got' = [got EXCEPT ![r][n] = new]
      BY <1>2, <3>1 DEF Hears, new
    <3>3. QED
      BY <2>4, <3>2, SetEntry DEF WorkerTypes
  <2>8. WorkerTypes' /\ OneCall(r, n)
    BY <2>3, <2>6 DEF WorkerTypes, OneCall, OthersStay
  <2>9. QED
    BY <1>2, <2>3, <2>7, <2>8 DEF new
<1>3. QED
  BY <1>1, <1>2

LEMMA HolderKnown ==
    ASSUME TypeInv, NEW r \in Requests, NEW n \in Nodes, Holds(n, r)
    PROVE  /\ pc[r] # "idle" /\ User(r) \in Names
           /\ job[n].by # r => job[n].by = None /\ call[r][n] = "sent" /\ pc[r] = "calls"
<1>1. job[n].by # r => job[n].by = None /\ call[r][n] = "sent" /\ pc[r] = "calls"
  BY DEF Holds, TypeInv, CallInv
<1>2. pc[r] # "idle"
  BY <1>1 DEF TypeInv, BegunInv
<1>3. QED
  BY <1>1, <1>2, UserType

\* What the invariants need to know of a request's handler at an agent.
Handled(r, n, to) ==
    /\ pc[r] # "idle" /\ User(r) \in Names
    /\ OneCall(r, n) /\ UNCHANGED <<d1, sync, ghosts>>
    /\ \A m \in Nodes \ {n} :
        /\ xray'[m] = xray[m] /\ hy2'[m] = hy2[m] /\ job'[m] = job[m]
    /\ xray'[n] = xray[n] \/ xray'[n] = to.x
    /\ hy2'[n] = hy2[n] \/ hy2'[n] = to.h
    /\ job[n].by \in {r, None} /\ job'[n].by = None
    /\ IF job[n].by = r THEN UNCHANGED <<call, got>>
       ELSE /\ call[r][n] = "sent" /\ pc[r] = "calls"
            /\ call'[r][n] \in {"creds", "ok", "failed"}

LEMMA HandledTypeInv ==
    ASSUME TypeInv, NEW r \in Requests, NEW n \in Nodes, NEW to \in Lists, Handled(r, n, to),
           call'[r][n] = "creds" => req[r].kind # "delete",
           WorkerTypes', Fault \/ NoFault,
           xray' \in [Nodes -> [Names -> Cred]], hy2' \in [Nodes -> [Names -> Cred]],
           job' \in [Nodes -> Jobs]
    PROVE  TypeInv'
<1>0. WorkerTypes /\ RowTypes /\ AgentTypes /\ RestTypes
  BY TypeParts DEF TypeInv
<1>1. RowTypes' /\ AgentTypes' /\ RestTypes'
  BY <1>0, FaultType DEF Handled, RowTypes, AgentTypes, RestTypes, d1, ghosts, TypeInv
<1>2. CallInv'
  <2>1. call'[r][n] \notin {"none", "picked"} => pc[r] = "calls"
    BY DEF Handled, TypeInv, CallInv
  <2>2. call'[r][n] = "picked" => call[r][n] = "picked"
    BY DEF Handled
  <2>3. QED
    BY <2>1, <2>2, OneCallInv DEF Handled
<1>3. BegunInv'
  <2>1. None \notin Requests
    BY NoneAssumption
  <2>2. \A m \in Nodes : job'[m].by \in Requests \ {r} => job'[m].by = job[m].by
    BY <2>1 DEF Handled
  <2>3. QED
    BY <2>2, StillBegun DEF Handled, OneCall, TypeInv
<1>4. QED
  BY <1>1, <1>2, <1>3, TypePartsPrime DEF TypeInv

LEMMA ServePostEffect ==
    ASSUME TypeInv, NEW r \in Requests, NEW n \in Nodes, ServePost(r, n)
    PROVE  /\ TypeInv' /\ Handled(r, n, AfterPost(n, r)) /\ AfterPost(n, r) \in Lists
           /\ req[r].kind # "delete"
           /\ job[n].by # r =>
                \/ /\ call'[r][n] = "creds" /\ got'[r][n] = OnNode(User(r), n)'
                   /\ xray'[n] = AfterPost(n, r).x /\ hy2'[n] = AfterPost(n, r).h
                \/ call'[r][n] = "failed"
<1>0. WorkerTypes /\ RowTypes /\ AgentTypes /\ RestTypes
  BY TypeParts DEF TypeInv
<1>1. /\ pc[r] # "idle" /\ User(r) \in Names /\ AfterPost(n, r) \in Lists
      /\ job[n].by # r => job[n].by = None /\ call[r][n] = "sent" /\ pc[r] = "calls"
  BY HolderKnown, AfterType DEF ServePost
<1>2. PICK ok \in BOOLEAN :
        /\ Leaves(n, AfterPost(n, r), ok)
        /\ Hears(r, n, IF ok THEN "creds" ELSE "failed")
  BY DEF ServePost
<1> DEFINE what == IF ok THEN "creds" ELSE "failed"
<1>3. /\ xray' \in [Nodes -> [Names -> Cred]] /\ hy2' \in [Nodes -> [Names -> Cred]]
      /\ \A m \in Nodes \ {n} : xray'[m] = xray[m] /\ hy2'[m] = hy2[m]
      /\ xray'[n] = xray[n] \/ xray'[n] = AfterPost(n, r).x
      /\ hy2'[n] = hy2[n] \/ hy2'[n] = AfterPost(n, r).h
      /\ ok => xray'[n] = AfterPost(n, r).x /\ hy2'[n] = AfterPost(n, r).h
      /\ Fault \/ NoFault
  BY <1>0, <1>1, <1>2, LeavesEffect
<1>4. UNCHANGED <<pc, req, answer, d1, sync, ghosts>>
  BY DEF ServePost
<1>5. /\ job' \in [Nodes -> Jobs] /\ job'[n].by = None
      /\ \A m \in Nodes \ {n} : job'[m] = job[m]
  BY <1>0, ReleaseType DEF ServePost
<1>6. /\ WorkerTypes' /\ OneCall(r, n)
      /\ job[n].by = r => UNCHANGED <<call, got>>
      /\ job[n].by # r =>
           /\ call'[r][n] = what
           /\ what = "creds" =>
                got'[r][n] = [x |-> xray'[n][User(r)], h |-> hy2'[n][User(r)]]
  BY <1>0, <1>1, <1>2, <1>3, <1>4, HearsEffect
<1>7. Handled(r, n, AfterPost(n, r))
  BY <1>1, <1>3, <1>4, <1>5, <1>6 DEF Handled
<1>8. /\ req[r].kind # "delete"
      /\ job[n].by # r =>
           \/ /\ call'[r][n] = "creds" /\ got'[r][n] = OnNode(User(r), n)'
              /\ xray'[n] = AfterPost(n, r).x /\ hy2'[n] = AfterPost(n, r).h
           \/ call'[r][n] = "failed"
  BY <1>3, <1>4, <1>6 DEF ServePost, OnNode, User
<1>9. TypeInv'
  BY <1>1, <1>3, <1>5, <1>6, <1>7, <1>8, HandledTypeInv
<1>10. QED
  BY <1>1, <1>7, <1>8, <1>9

LEMMA ServeDeleteEffect ==
    ASSUME TypeInv, NEW r \in Requests, NEW n \in Nodes, ServeDelete(r, n)
    PROVE  /\ TypeInv' /\ Handled(r, n, AfterDelete(n, r)) /\ AfterDelete(n, r) \in Lists
           /\ req[r].kind = "delete"
           /\ job[n].by # r =>
                \/ /\ call'[r][n] = "ok" /\ xray[n][User(r)] = NoCred
                   /\ UNCHANGED <<xray, hy2>>
                \/ /\ call'[r][n] = "ok"
                   /\ xray'[n] = AfterDelete(n, r).x /\ hy2'[n] = AfterDelete(n, r).h
                \/ call'[r][n] = "failed"
<1>0. WorkerTypes /\ RowTypes /\ AgentTypes /\ RestTypes
  BY TypeParts DEF TypeInv
<1>1. /\ pc[r] # "idle" /\ User(r) \in Names /\ AfterDelete(n, r) \in Lists
      /\ job[n].by # r => job[n].by = None /\ call[r][n] = "sent" /\ pc[r] = "calls"
  BY HolderKnown, AfterType DEF ServeDelete
<1>2. UNCHANGED <<pc, req, answer, d1, sync, ghosts>> /\ req[r].kind = "delete"
  BY DEF ServeDelete
<1>3. /\ job' \in [Nodes -> Jobs] /\ job'[n].by = None
      /\ \A m \in Nodes \ {n} : job'[m] = job[m]
  BY <1>0, ReleaseType DEF ServeDelete
<1>4. PICK what \in {"ok", "failed"} :
        /\ xray' \in [Nodes -> [Names -> Cred]] /\ hy2' \in [Nodes -> [Names -> Cred]]
        /\ \A m \in Nodes \ {n} : xray'[m] = xray[m] /\ hy2'[m] = hy2[m]
        /\ xray'[n] = xray[n] \/ xray'[n] = AfterDelete(n, r).x
        /\ hy2'[n] = hy2[n] \/ hy2'[n] = AfterDelete(n, r).h
        /\ Fault \/ NoFault
        /\ Hears(r, n, what)
        /\ what = "ok" =>
            \/ xray[n][User(r)] = NoCred /\ UNCHANGED <<xray, hy2>>
            \/ xray'[n] = AfterDelete(n, r).x /\ hy2'[n] = AfterDelete(n, r).h
  <2>1. CASE User(r) \notin Here(n) /\ NoFault /\ Hears(r, n, "ok") /\ UNCHANGED <<xray, hy2>>
    BY <1>0, <1>1, <2>1 DEF AgentTypes, Here
  <2>2. CASE \E ok \in BOOLEAN :
              /\ Leaves(n, AfterDelete(n, r), ok)
              /\ Hears(r, n, IF ok THEN "ok" ELSE "failed")
    <3>1. PICK ok \in BOOLEAN :
              /\ Leaves(n, AfterDelete(n, r), ok)
              /\ Hears(r, n, IF ok THEN "ok" ELSE "failed")
      BY <2>2
    <3>2. /\ xray' \in [Nodes -> [Names -> Cred]] /\ hy2' \in [Nodes -> [Names -> Cred]]
          /\ \A m \in Nodes \ {n} : xray'[m] = xray[m] /\ hy2'[m] = hy2[m]
          /\ xray'[n] = xray[n] \/ xray'[n] = AfterDelete(n, r).x
          /\ hy2'[n] = hy2[n] \/ hy2'[n] = AfterDelete(n, r).h
          /\ ok => xray'[n] = AfterDelete(n, r).x /\ hy2'[n] = AfterDelete(n, r).h
          /\ Fault \/ NoFault
      BY <1>0, <1>1, <3>1, LeavesEffect
    <3>3. QED
      BY <3>1, <3>2
  <2>3. QED
    BY <2>1, <2>2 DEF ServeDelete
<1>5. /\ WorkerTypes' /\ OneCall(r, n)
      /\ job[n].by = r => UNCHANGED <<call, got>>
      /\ job[n].by # r => call'[r][n] = what
  BY <1>0, <1>1, <1>2, <1>4, HearsEffect
<1>6. Handled(r, n, AfterDelete(n, r))
  BY <1>1, <1>2, <1>3, <1>4, <1>5 DEF Handled
<1>7. call'[r][n] = "creds" => req[r].kind # "delete"
  BY <1>1, <1>5, <1>6 DEF TypeInv, CallInv, Handled
<1>8. TypeInv'
  BY <1>1, <1>3, <1>4, <1>5, <1>6, <1>7, HandledTypeInv
<1>9. QED
  BY <1>1, <1>2, <1>4, <1>5, <1>6, <1>8

-----------------------------------------------------------------------------
(* Syncs.                                                                  *)

LEMMA CrossedType ==
    ASSUME TypeInv, NEW n \in Nodes
    PROVE  Crossed(n) \subseteq Names
<1>1. \A q \in Requests : InFlight(q) \/ job[n].by = q => pc[q] # "idle"
  BY DEF InFlight, TypeInv, BegunInv
<1>2. QED
  BY <1>1, UserType DEF Crossed

LEMMA SyncListType ==
    ASSUME TypeInv, NEW n \in Nodes
    PROVE  /\ sync[n].at = "sent" => sync[n].list \in List
           /\ sync[n].at = "sent" => sync[n] = [at |-> "sent", list |-> sync[n].list,
                                                with |-> sync[n].with]
           /\ job[n].by = Sync => job[n].list \in List
<1>1. sync[n] \in Syncs /\ job[n] \in Jobs
  BY TypeParts DEF TypeInv, AgentTypes, RestTypes
<1>2. Sync \notin Requests \cup {None}
  BY NoneAssumption, SyncAssumption
<1>3. QED
  BY <1>1, <1>2 DEF Syncs, Jobs

\* What the invariants need to know of a step of a sync.
SyncStays(n) ==
    /\ UNCHANGED <<d1, workers>>
    /\ \A m \in Nodes \ {n} :
        /\ xray'[m] = xray[m] /\ hy2'[m] = hy2[m] /\ job'[m] = job[m] /\ sync'[m] = sync[m]

LEMMA SyncTypeInv ==
    ASSUME TypeInv, NEW n \in Nodes,
           BeginSync(n) \/ SyncFails(n) \/ ServeOldSync(n) \/ ServeSync(n)
    PROVE  TypeInv' /\ SyncStays(n)
<1>0. WorkerTypes /\ RowTypes /\ AgentTypes /\ RestTypes
  BY TypeParts DEF TypeInv
<1>1. UNCHANGED <<d1, workers>>
  BY DEF BeginSync, SyncFails, ServeOldSync, ServeSync
<1>2. [at |-> "idle"] \in Syncs /\ None \notin Requests
  BY NoneAssumption DEF Syncs
<1>3. /\ AgentTypes' /\ RestTypes' /\ SyncStays(n)
      /\ \A m \in Nodes : job'[m].by \in Requests => job'[m] = job[m]
  <2>1. CASE BeginSync(n)
    <3>1. [at |-> "sent", list |-> [u \in Names |-> rows[u][n]], with |-> Crossed(n)] \in Syncs
      BY <1>0, CrossedType DEF Syncs, List, RowTypes
    <3>2. sync' \in [Nodes -> Syncs] /\ \A m \in Nodes \ {n} : sync'[m] = sync[m]
      BY <1>0, <2>1, <3>1 DEF BeginSync, RestTypes
    <3>3. raced' \subseteq Names \X Nodes
      BY <1>0, <2>1, CrossedType DEF BeginSync, RestTypes
    <3>4. QED
      BY <1>0, <1>1, <2>1, <3>2, <3>3
         DEF BeginSync, RestTypes, AgentTypes, SyncStays, agents, NoFault
  <2>2. CASE SyncFails(n)
    <3>1. [by |-> Sync, list |-> sync[n].list] \in Jobs
      BY <2>2, SyncListType DEF SyncFails, Jobs
    <3>2. /\ job' \in [Nodes -> Jobs]
          /\ \A m \in Nodes \ {n} : job'[m] = job[m]
          /\ job'[n] = job[n] \/ job'[n] = [by |-> Sync, list |-> sync[n].list]
      BY <1>0, <2>2, <3>1, AbandonedType DEF SyncFails
    <3>3. sync' \in [Nodes -> Syncs] /\ \A m \in Nodes \ {n} : sync'[m] = sync[m]
      BY <1>0, <1>2, <2>2 DEF SyncFails, RestTypes
    <3>4. reported' \subseteq Names \X Nodes /\ UNCHANGED <<raced, xray, hy2>>
      BY <1>0, <2>2 DEF SyncFails, RestTypes
    <3>5. faults' \in 0..MaxFaults
      BY <2>2, FaultType DEF SyncFails, TypeInv
    <3>6. \A m \in Nodes : job'[m].by \in Requests => job'[m] = job[m]
      BY <3>2, SyncAssumption
    <3>7. QED
      BY <1>0, <1>1, <3>2, <3>3, <3>4, <3>5, <3>6 DEF RestTypes, AgentTypes, SyncStays
  <2>3. CASE ServeOldSync(n)
    <3>1. PICK ok \in BOOLEAN : Leaves(n, AfterSync(n, job[n].list), ok)
      BY <2>3 DEF ServeOldSync
    <3>2. AfterSync(n, job[n].list) \in Lists
      BY <2>3, SyncListType, AfterSyncType DEF ServeOldSync
    <3>3. /\ xray' \in [Nodes -> [Names -> Cred]] /\ hy2' \in [Nodes -> [Names -> Cred]]
          /\ \A m \in Nodes \ {n} : xray'[m] = xray[m] /\ hy2'[m] = hy2[m]
          /\ Fault \/ NoFault
      BY <1>0, <3>1, <3>2, LeavesEffect
    <3>4. /\ job' \in [Nodes -> Jobs] /\ job'[n].by = None
          /\ \A m \in Nodes \ {n} : job'[m] = job[m]
      BY <1>0, <2>3, ReleaseType DEF ServeOldSync
    <3>5. QED
      BY <1>0, <1>1, <1>2, <2>3, <3>3, <3>4, FaultType
         DEF ServeOldSync, RestTypes, AgentTypes, SyncStays, ghosts, TypeInv
  <2>4. CASE ServeSync(n)
    <3>1. PICK ok \in BOOLEAN : Leaves(n, AfterSync(n, sync[n].list), ok)
      BY <2>4 DEF ServeSync
    <3>2. AfterSync(n, sync[n].list) \in Lists
      BY <2>4, SyncListType, AfterSyncType DEF ServeSync
    <3>3. /\ xray' \in [Nodes -> [Names -> Cred]] /\ hy2' \in [Nodes -> [Names -> Cred]]
          /\ \A m \in Nodes \ {n} : xray'[m] = xray[m] /\ hy2'[m] = hy2[m]
          /\ Fault \/ NoFault
      BY <1>0, <3>1, <3>2, LeavesEffect
    <3>4. sync' \in [Nodes -> Syncs] /\ \A m \in Nodes \ {n} : sync'[m] = sync[m]
      BY <1>0, <1>2, <2>4 DEF ServeSync, RestTypes
    <3>5. reported' \subseteq Names \X Nodes /\ raced' \subseteq Names \X Nodes
      BY <1>0, <2>4 DEF ServeSync, RestTypes
    <3>6. QED
      BY <1>0, <1>1, <2>4, <3>3, <3>4, <3>5, FaultType
         DEF ServeSync, RestTypes, AgentTypes, SyncStays, TypeInv
  <2>5. QED
    BY <2>1, <2>2, <2>3, <2>4
<1>4. RowTypes' /\ WorkerTypes'
  BY <1>0, <1>1 DEF RowTypes, WorkerTypes, d1, workers
<1>5. CallInv' /\ BegunInv'
  BY <1>1, <1>3 DEF TypeInv, CallInv, BegunInv, workers
<1>6. QED
  BY <1>3, <1>4, <1>5, TypePartsPrime DEF TypeInv

LEMMA NextCases ==
    ASSUME Next
    PROVE  \/ \E r \in Requests :
                \/ Begin(r) \/ Insert(r) \/ Select(r) \/ Missing(r)
                \/ Report(r) \/ Drop(r) \/ Cut(r)
           \/ \E r \in Requests, n \in Nodes :
                Record(r, n) \/ CallFails(r, n) \/ ServePost(r, n) \/ ServeDelete(r, n)
           \/ \E n \in Nodes :
                BeginSync(n) \/ SyncFails(n) \/ ServeOldSync(n) \/ ServeSync(n)
           \/ \E n \in Nodes : SetStatus(n)
BY DEF Next, RequestStep, AgentStep

LEMMA NextTypeInv == TypeInv /\ [Next]_vars => TypeInv'
<1>1. SUFFICES ASSUME TypeInv, [Next]_vars PROVE TypeInv'
  OBVIOUS
<1>2. CASE UNCHANGED vars
  BY <1>1, <1>2
     DEF vars, d1, agents, workers, ghosts, TypeInv, TypeOK, CallInv, BegunInv
<1>3. ASSUME NEW r \in Requests,
             \/ Begin(r) \/ Insert(r) \/ Select(r) \/ Missing(r)
             \/ Report(r) \/ Drop(r) \/ Cut(r)
      PROVE  TypeInv'
  BY <1>1, <1>3, BeginTypeInv, InsertTypeInv, SelectTypeInv, EndTypeInv
<1>4. ASSUME NEW r \in Requests, NEW n \in Nodes,
             Record(r, n) \/ CallFails(r, n) \/ ServePost(r, n) \/ ServeDelete(r, n)
      PROVE  TypeInv'
  BY <1>1, <1>4, RecordTypeInv, CallFailsTypeInv, ServePostEffect, ServeDeleteEffect
<1>5. ASSUME NEW n \in Nodes,
             BeginSync(n) \/ SyncFails(n) \/ ServeOldSync(n) \/ ServeSync(n)
      PROVE  TypeInv'
  BY <1>1, <1>5, SyncTypeInv
<1>6. ASSUME NEW n \in Nodes, SetStatus(n) PROVE TypeInv'
  <2>1. active' \subseteq Nodes /\ faults' \in 0..MaxFaults
    BY <1>1, <1>6, FaultType DEF SetStatus, TypeInv, TypeOK
  <2>2. QED
    BY <1>1, <1>6, <2>1
       DEF SetStatus, agents, workers, ghosts, TypeInv, TypeOK, CallInv, BegunInv
<1>7. QED
  BY <1>1, <1>2, <1>3, <1>4, <1>5, <1>6, NextCases

LEMMA InitTypeInv == Init => TypeInv
<1>1. SUFFICES ASSUME Init PROVE TypeInv
  OBVIOUS
<1>2. NoCred \in Cred /\ Nothing \in Pair
  BY NothingType DEF Cred
<1>3. TypeOK
  BY <1>1, <1>2, BoundAssumption DEF Init, TypeOK
<1>4. CallInv
  BY <1>1 DEF Init, CallInv
<1>5. BegunInv
  BY <1>1, NoneAssumption DEF Init, BegunInv
<1>6. QED
  BY <1>3, <1>4, <1>5 DEF TypeInv

\* The variables keep their types, whatever crosses, fails or is given up on; a
\* request knows what it was asked before it calls, and an agent only ever works
\* for one that has begun (panel/worker/src/routes/users.ts).
THEOREM UsersTypeCorrect == Spec => []TypeOK
<1>1. Spec => []TypeInv
  BY InitTypeInv, NextTypeInv, PTL DEF Spec
<1>2. TypeInv => TypeOK
  BY DEF TypeInv
<1>3. QED
  BY <1>1, <1>2, PTL

-----------------------------------------------------------------------------
(* Disagreement: what a step leaves alone.                                 *)

\* Nothing that bears on user u and node n is touched.
SameAt(u, n) ==
    /\ rows'[u][n] = rows[u][n] /\ OnNode(u, n)' = OnNode(u, n)
    /\ Doubtful(u, n) => Doubtful(u, n)'
    /\ \A q \in Requests :
        /\ About(q, u)' <=> About(q, u)
        /\ About(q, u) => /\ call'[q][n] = call[q][n] /\ got'[q][n] = got[q][n]
                          /\ req'[q].kind = req[q].kind /\ pc'[q] = pc[q]

LEMMA PairStays ==
    ASSUME NEW u \in Names, NEW n \in Nodes, PairAt(u, n), SameAt(u, n)
    PROVE  PairAt(u, n)'
<1>1. Agree(u, n)' <=> Agree(u, n)
  BY DEF SameAt, Agree, OnNode
<1>2. /\ WillFail(u, n) => WillFail(u, n)'
      /\ Provides(u, n) => Provides(u, n)'
      /\ Removes(u, n) => Removes(u, n)'
  BY DEF SameAt, WillFail, Provides, Removes
<1>3. QED
  BY <1>1, <1>2 DEF SameAt, PairAt

\* What is said of requests that stay as they are.
LEMMA OthersAbout ==
    ASSUME NEW r \in Requests, OthersStay(r), NEW u
    PROVE  \A q \in Requests \ {r} :
             /\ About(q, u)' <=> About(q, u)
             /\ \A n \in Nodes : call'[q][n] = call[q][n] /\ got'[q][n] = got[q][n]
             /\ req'[q] = req[q] /\ pc'[q] = pc[q]
BY DEF OthersStay, About, InFlight, User

LEMMA OneCallAbout ==
    ASSUME NEW r \in Requests, NEW n \in Nodes, OneCall(r, n), NEW u
    PROVE  \A q \in Requests :
             /\ About(q, u)' <=> About(q, u)
             /\ \A m \in Nodes : q # r \/ m # n =>
                    call'[q][m] = call[q][m] /\ got'[q][m] = got[q][m]
             /\ req'[q] = req[q] /\ pc'[q] = pc[q]
<1>1. \A q \in Requests : req'[q] = req[q] /\ pc'[q] = pc[q]
  BY DEF OneCall, OthersStay
<1>2. \A q \in Requests : About(q, u)' <=> About(q, u)
  BY <1>1 DEF About, InFlight, User
<1>3. QED
  BY <1>1, <1>2 DEF OneCall, OthersStay

\* The sides that two requests at once take.
LEMMA OneSide ==
    ASSUME RivalInv, NEW u \in Names, NEW n \in Nodes, ~Doubtful(u, n),
           NEW q \in Requests, NEW r \in Requests, About(q, u), About(r, u)
    PROVE  req[q].kind = "delete" <=> req[r].kind = "delete"
BY DEF RivalInv, Doubtful

LEMMA NoneIsNobody == None \notin Requests /\ None # Sync /\ Sync \notin Requests
BY NoneAssumption, SyncAssumption

-----------------------------------------------------------------------------
(* A request begins.                                                       *)

LEMMA BeginIInv ==
    ASSUME IInv, NEW r \in Requests, Begin(r)
    PROVE  IInv'
<1>1. PICK kind \in Kinds, v \in Names :
        /\ req' = [req EXCEPT ![r] = [kind |-> kind, user |-> v]]
        /\ raced' = raced \cup (IF Rivals(v, kind) = {} THEN {} ELSE {v} \X Nodes)
                          \cup {<<v, n>> : n \in {m \in Nodes : sync[m].at # "idle"}}
        /\ sync' = [n \in Nodes |-> IF sync[n].at = "idle" THEN sync[n]
                                    ELSE [sync[n] EXCEPT !.with = @ \cup {v}]]
        /\ \/ /\ kind = "create" /\ v \in users
              /\ Answer(r, "user_exists")
           \/ /\ kind # "create" /\ v \notin users
              /\ Answer(r, "user_not_found")
           \/ /\ (kind = "create") # (v \in users)
              /\ GoTo(r, IF kind = "create" THEN "insert" ELSE "select")
              /\ UNCHANGED <<call, got, answer>>
  BY DEF Begin
<1>2. TypeInv' /\ OthersStay(r) /\ TypeInv
  BY BeginTypeInv DEF IInv
<1>3. /\ pc[r] = "idle" /\ ~InFlight(r) /\ UNCHANGED <<d1, agents, reported>>
      /\ \A n \in Nodes : call[r][n] = "none"
  BY <1>2 DEF Begin, At, InFlight, TypeInv, CallInv
<1>4. /\ pc'[r] \in {"insert", "select", "done"} /\ req'[r] = [kind |-> kind, user |-> v]
      /\ \A n \in Nodes : call'[r][n] = "none"
  <2>1. pc'[r] \in {"insert", "select", "done"} /\ req'[r] = [kind |-> kind, user |-> v]
    BY <1>1, <1>2 DEF Answer, GoTo, TypeInv, TypeOK
  <2>2. QED
    BY <1>2, <2>1 DEF TypeInv, CallInv
<1>5. raced \subseteq raced' /\ \A u \in Names, n \in Nodes : Doubtful(u, n) => Doubtful(u, n)'
  BY <1>1, <1>3 DEF Doubtful
<1>6. \A u \in Names, q \in Requests \ {r} :
        /\ About(q, u)' <=> About(q, u)
        /\ \A n \in Nodes : call'[q][n] = call[q][n] /\ got'[q][n] = got[q][n]
        /\ req'[q] = req[q] /\ pc'[q] = pc[q]
  BY <1>2, OthersAbout
<1>7. \A u \in Names : ~About(r, u) /\ (About(r, u)' => u = v)
  BY <1>3, <1>4 DEF About, User
<1>8. MissingInv' /\ WholeInv'
  BY <1>3, <1>4, <1>6 DEF IInv, MissingInv, WholeInv, d1
<1>9. JobInv'
  <2>1. \A n \in Nodes : job[n].by # r
    BY <1>2, <1>3 DEF TypeInv, BegunInv
  <2>2. \A q \in Requests \ {r} : InFlight(q)' = InFlight(q) /\ User(q)' = User(q)
    BY <1>6 DEF InFlight, User, OthersStay
  <2>3. QED
    BY <1>3, <1>6, <2>1, <2>2 DEF IInv, JobInv, agents
<1>10. SyncInv'
  <2>1. SUFFICES ASSUME NEW n \in Nodes, NEW u \in Names, sync'[n].at = "sent"
                 PROVE  \/ u \in sync'[n].with /\ <<u, n>> \in raced'
                        \/ /\ u \notin sync'[n].with
                           /\ sync'[n].list[u] = rows'[u][n]
                           /\ \A q \in Requests : ~About(q, u)'
    BY DEF SyncInv
  <2>2. sync[n] \in Syncs
    BY <1>2, TypeParts DEF TypeInv, RestTypes
  <2>3. /\ sync[n].at = "sent" /\ sync'[n].list = sync[n].list
        /\ sync'[n].with = sync[n].with \cup {v} /\ <<v, n>> \in raced'
    BY <1>1, <2>1, <2>2 DEF Syncs
  <2>4. \/ u \in sync[n].with /\ <<u, n>> \in raced
        \/ /\ u \notin sync[n].with
           /\ sync[n].list[u] = rows[u][n]
           /\ \A q \in Requests : ~About(q, u)
    BY <2>3 DEF IInv, SyncInv
  <2>5. CASE u = v
    BY <2>3, <2>5
  <2>6. CASE u # v
    BY <1>3, <1>5, <1>6, <1>7, <2>3, <2>4, <2>6 DEF d1
  <2>7. QED
    BY <2>5, <2>6
<1>11. RivalInv'
  <2>1. SUFFICES ASSUME NEW u \in Names, NEW n \in Nodes, <<u, n>> \notin raced',
                        NEW p \in Requests, NEW q \in Requests, About(p, u)', About(q, u)'
                 PROVE  req'[p].kind = "delete" <=> req'[q].kind = "delete"
    BY DEF RivalInv
  <2>2. <<u, n>> \notin raced
    BY <1>5, <2>1
  <2>3. ASSUME NEW s \in Requests \ {r}, About(s, u), About(r, u)'
        PROVE  req'[s].kind = "delete" <=> req'[r].kind = "delete"
    <3>1. u = v
      BY <1>7, <2>3
    <3>2. Rivals(v, kind) = {}
      BY <1>1, <2>1, <3>1
    <3>3. (req[s].kind = "delete") = (kind = "delete")
      BY <2>3, <3>1, <3>2 DEF Rivals, About
    <3>4. QED
      BY <1>4, <1>6, <3>3
  <2>4. QED
    BY <1>6, <1>7, <2>1, <2>2, <2>3 DEF IInv, RivalInv
<1>12. PairInv'
  <2>1. SUFFICES ASSUME NEW u \in Names, NEW n \in Nodes PROVE PairAt(u, n)'
    BY DEF PairInv
  <2>2. PairAt(u, n)
    BY DEF IInv, PairInv
  <2>3. OnNode(u, n)' = OnNode(u, n) /\ rows'[u][n] = rows[u][n]
    BY <1>3 DEF OnNode, agents, d1
  <2>4. Agree(u, n)' <=> Agree(u, n)
    BY <2>3 DEF Agree, OnNode
  <2>5. /\ WillFail(u, n) => WillFail(u, n)'
        /\ Provides(u, n) => Provides(u, n)'
        /\ Removes(u, n) => Removes(u, n)'
    BY <1>3, <1>6 DEF WillFail, Provides, Removes
  <2>6. QED
    BY <1>4, <1>5, <1>6, <2>2, <2>3, <2>4, <2>5 DEF PairAt
<1>13. QED
  BY <1>2, <1>8, <1>9, <1>10, <1>11, <1>12 DEF IInv

-----------------------------------------------------------------------------
(* Steps of a request that leave the agents and the rows alone.            *)

LEMMA QuietIInv ==
    ASSUME IInv, NEW r \in Requests, Insert(r) \/ Select(r) \/ Missing(r)
    PROVE  IInv'
<1>1. TypeInv' /\ OthersStay(r) /\ TypeInv
  BY InsertTypeInv, SelectTypeInv DEF IInv
<1>2. /\ UNCHANGED <<rows, agents, req, sync, ghosts>>
      /\ pc[r] \in {"insert", "select", "missing"}
  BY DEF Insert, Select, Missing, At, d1
<1>3. \A n \in Nodes : /\ call[r][n] \in {"none", "picked"}
                       /\ call'[r][n] \in {"none", "picked", "sent"}
  <2>1. \A n \in Nodes : call[r][n] \in {"none", "picked"}
    BY <1>1, <1>2 DEF TypeInv, CallInv
  <2>2. CASE Insert(r)
    <3>1. pc'[r] \in {"done", "select"}
      BY <1>1, <2>2 DEF Insert, Answer, GoTo, TypeInv, TypeOK
    <3>2. QED
      BY <1>1, <2>1, <3>1 DEF TypeInv, CallInv
  <2>3. CASE Select(r) \/ Missing(r)
    BY <1>1, <2>1, <2>3 DEF Select, Missing, TypeInv, TypeOK
  <2>4. QED
    BY <2>1, <2>2, <2>3
<1>4. /\ pc'[r] \in {"done", "select", "missing", "calls"}
      /\ pc'[r] = "missing" => req[r].kind = "upgrade"
      /\ req[r].kind = "delete" /\ pc'[r] = "calls" =>
           \A n \in Nodes : call'[r][n] = "none" => rows[User(r)][n] = Nothing
  <2>1. CASE Insert(r)
    BY <1>1, <2>1 DEF Insert, Answer, GoTo, TypeInv, TypeOK
  <2>2. CASE Select(r)
    <3>1. pc' = [pc EXCEPT ![r] = IF req[r].kind = "upgrade" THEN "missing" ELSE "calls"]
      BY <2>2 DEF Select, GoTo
    <3>2. req[r].kind = "delete" => \A n \in Nodes : call'[r][n] = "none" => n \notin Targets(r)
      BY <1>1, <2>2 DEF Select, TypeInv, TypeOK
    <3>3. QED
      BY <1>1, <3>1, <3>2 DEF TypeInv, TypeOK, Targets
  <2>3. CASE Missing(r)
    BY <1>1, <2>3 DEF Missing, At, GoTo, IInv, MissingInv, TypeInv, TypeOK
  <2>4. QED
    BY <2>1, <2>2, <2>3
<1>5. \A u \in Names, q \in Requests \ {r} :
        /\ About(q, u)' <=> About(q, u)
        /\ \A n \in Nodes : call'[q][n] = call[q][n] /\ got'[q][n] = got[q][n]
        /\ req'[q] = req[q] /\ pc'[q] = pc[q]
  BY <1>1, OthersAbout
<1>6. \A u \in Names : About(r, u)' => About(r, u)
  BY <1>2 DEF About, InFlight, User
<1>7. MissingInv' /\ WholeInv'
  BY <1>1, <1>2, <1>3, <1>4 DEF IInv, MissingInv, WholeInv, OthersStay
<1>8. JobInv'
  <2>1. \A q \in Requests \ {r} : InFlight(q)' = InFlight(q)
    BY <1>1 DEF InFlight, OthersStay
  <2>2. \A q \in Requests : User(q)' = User(q)
    BY <1>2 DEF User
  <2>3. QED
    BY <1>1, <1>2, <1>3, <2>1, <2>2 DEF IInv, JobInv, agents, ghosts, OthersStay
<1>9. SyncInv' /\ RivalInv'
  BY <1>2, <1>5, <1>6 DEF IInv, SyncInv, RivalInv, ghosts
<1>10. PairInv'
  <2>1. SUFFICES ASSUME NEW u \in Names, NEW n \in Nodes PROVE PairAt(u, n)'
    BY DEF PairInv
  <2>2. PairAt(u, n)
    BY DEF IInv, PairInv
  <2>3. OnNode(u, n)' = OnNode(u, n) /\ rows'[u][n] = rows[u][n]
    BY <1>2 DEF OnNode, agents
  <2>4. (Agree(u, n)' <=> Agree(u, n)) /\ (Doubtful(u, n)' <=> Doubtful(u, n))
    BY <1>2, <2>3 DEF Agree, OnNode, Doubtful, ghosts
  <2>5. /\ WillFail(u, n) => WillFail(u, n)'
        /\ Provides(u, n) => Provides(u, n)'
        /\ Removes(u, n) => Removes(u, n)'
    BY <1>3, <1>5 DEF WillFail, Provides, Removes
  <2>6. About(r, u)' => User(r) = u
    BY <1>6 DEF About
  <2>7. QED
    BY <1>2, <1>3, <1>4, <1>5, <2>2, <2>3, <2>4, <2>5, <2>6 DEF PairAt
<1>11. QED
  BY <1>1, <1>7, <1>8, <1>9, <1>10 DEF IInv

-----------------------------------------------------------------------------
(* A node's credentials are recorded, a call fails, a request ends.        *)

LEMMA RecordIInv ==
    ASSUME IInv, NEW r \in Requests, NEW n \in Nodes, Record(r, n)
    PROVE  IInv'
<1>1. TypeInv' /\ OneCall(r, n) /\ TypeInv
  BY RecordTypeInv DEF IInv
<1>2. /\ call[r][n] = "creds" /\ pc[r] = "calls" /\ InFlight(r) /\ About(r, User(r))
      /\ User(r) \in Names /\ UNCHANGED <<agents, sync, ghosts, got>>
      /\ got[r][n] \in Pair /\ req[r].kind # "delete"
  <2>1. call[r][n] = "creds" /\ pc[r] = "calls"
    BY <1>1 DEF Record, TypeInv, CallInv
  <2>2. got[r][n] \in Pair /\ req[r].kind # "delete"
    BY <1>1, <2>1 DEF TypeInv, TypeOK, CallInv
  <2>3. QED
    BY <1>1, <2>1, <2>2, UserType DEF Record, InFlight, About
<1>3. /\ \A u \in Names, m \in Nodes : u # User(r) \/ m # n => rows'[u][m] = rows[u][m]
      /\ \/ call'[r][n] = "failed" /\ UNCHANGED rows
         \/ call'[r][n] = "ok" /\ rows'[User(r)][n] = got[r][n]
  <2>1. rows \in [Names -> [Nodes -> Pair]] /\ call \in [Requests -> [Nodes -> Calls]]
    BY <1>1, TypeParts DEF TypeInv, RowTypes, WorkerTypes
  <2>2. "ok" \in Calls /\ "failed" \in Calls
    BY DEF Calls
  <2>3. CASE /\ rows' = [rows EXCEPT ![User(r)][n] = got[r][n]]
             /\ call' = [call EXCEPT ![r][n] = "ok"]
    BY <1>2, <2>1, <2>2, <2>3, SetEntry
  <2>4. CASE call' = [call EXCEPT ![r][n] = "failed"] /\ UNCHANGED rows
    BY <1>2, <2>1, <2>2, <2>4, SetEntry
  <2>5. QED
    BY <2>3, <2>4 DEF Record
<1>4. \A u \in Names, q \in Requests :
        /\ About(q, u)' <=> About(q, u)
        /\ \A m \in Nodes : q # r \/ m # n =>
             call'[q][m] = call[q][m] /\ got'[q][m] = got[q][m]
        /\ req'[q] = req[q] /\ pc'[q] = pc[q]
  BY <1>1, OneCallAbout
<1>5. MissingInv' /\ WholeInv'
  <2>1. IsWhole(got[r][n])
    BY <1>2 DEF IInv, WholeInv, IsWhole
  <2>2. \A u \in Names, m \in Nodes : IsWhole(rows'[u][m])
    BY <1>2, <1>3, <2>1 DEF IInv, WholeInv
  <2>3. QED
    BY <1>2, <1>3, <1>4, <2>2 DEF IInv, MissingInv, WholeInv
<1>6. JobInv'
  <2>1. \A q \in Requests : User(q)' = User(q) /\ InFlight(q)' = InFlight(q)
    BY <1>2, <1>4 DEF User, InFlight
  <2>2. UNCHANGED <<job, reported>>
    BY <1>2 DEF agents, ghosts
  <2>3. QED
    BY <1>2, <1>4, <2>1, <2>2 DEF IInv, JobInv
<1>7. SyncInv'
  BY <1>2, <1>3, <1>4 DEF IInv, SyncInv, ghosts
<1>8. RivalInv'
  BY <1>2, <1>4 DEF IInv, RivalInv, ghosts
<1>9. PairInv'
  <2>1. SUFFICES ASSUME NEW u \in Names, NEW m \in Nodes PROVE PairAt(u, m)'
    BY DEF PairInv
  <2>2. PairAt(u, m)
    BY DEF IInv, PairInv
  <2>3. OnNode(u, m)' = OnNode(u, m) /\ (Doubtful(u, m)' <=> Doubtful(u, m))
    BY <1>2 DEF OnNode, agents, Doubtful, ghosts
  <2>4. CASE u # User(r) \/ m # n
    <3>1. SameAt(u, m)
      BY <1>2, <1>3, <1>4, <2>3, <2>4 DEF SameAt, About
    <3>2. QED
      BY <2>2, <3>1, PairStays
  <2>5. CASE u = User(r) /\ m = n
    <3>1. SUFFICES ASSUME ~Doubtful(u, n) PROVE PairAt(u, n)'
      BY <2>3, <2>5 DEF PairAt
    <3>2. got[r][n] = OnNode(u, n)
      BY <1>2, <2>2, <2>5, <3>1 DEF PairAt
    <3>3. Agree(u, n)' \/ WillFail(u, n)'
      <4>1. CASE call'[r][n] = "failed"
        BY <1>2, <1>4, <2>5, <4>1 DEF WillFail
      <4>2. CASE rows'[User(r)][n] = got[r][n]
        BY <2>3, <2>5, <3>2, <4>2 DEF Agree, OnNode
      <4>3. QED
        BY <1>3, <4>1, <4>2
    <3>4. \A q \in Requests : About(q, u)' => About(q, u) /\ req'[q].kind # "delete"
      BY <1>2, <1>4, <2>5, <3>1, OneSide DEF IInv
    <3>5. \A q \in Requests : About(q, u)' /\ call'[q][n] = "creds" =>
            got'[q][n] = OnNode(u, n)'
      BY <1>2, <1>3, <1>4, <2>2, <2>3, <2>5, <3>1, <3>2 DEF PairAt
    <3>6. QED
      BY <3>3, <3>4, <3>5 DEF PairAt
  <2>6. QED
    BY <2>4, <2>5
<1>10. QED
  BY <1>1, <1>5, <1>6, <1>7, <1>8, <1>9 DEF IInv

LEMMA CallFailsIInv ==
    ASSUME IInv, NEW r \in Requests, NEW n \in Nodes, CallFails(r, n)
    PROVE  IInv'
<1>1. TypeInv' /\ OneCall(r, n) /\ TypeInv /\ pc[r] = "calls" /\ User(r) \in Names
  BY CallFailsTypeInv DEF IInv
<1>2. /\ InFlight(r) /\ About(r, User(r))
      /\ UNCHANGED <<d1, xray, hy2, sync, ghosts, got, req, pc>>
      /\ call[r][n] = "sent" /\ call'[r][n] = "failed"
  BY <1>1 DEF CallFails, InFlight, About, TypeInv, TypeOK
<1>3. \A u \in Names, q \in Requests :
        /\ About(q, u)' <=> About(q, u)
        /\ \A m \in Nodes : q # r \/ m # n =>
             call'[q][m] = call[q][m] /\ got'[q][m] = got[q][m]
        /\ req'[q] = req[q] /\ pc'[q] = pc[q]
  BY <1>1, OneCallAbout
<1>4. MissingInv' /\ WholeInv'
  <2>1. \A q \in Requests, m \in Nodes : call'[q][m] = "creds" => call[q][m] = "creds"
    BY <1>1, <1>2 DEF OneCall, OthersStay
  <2>2. QED
    BY <1>2, <2>1 DEF IInv, MissingInv, WholeInv, d1
<1>5. JobInv'
  <2>1. /\ \A m \in Nodes \ {n} : job'[m] = job[m]
        /\ job'[n] = job[n] \/ job'[n] = [by |-> r]
    BY <1>1 DEF CallFails, Abandoned, TypeInv, TypeOK
  <2>2. \A q \in Requests : User(q)' = User(q) /\ InFlight(q)' = InFlight(q)
    BY <1>2 DEF User, InFlight
  <2>3. \A q \in Requests, m \in Nodes : call[q][m] = "failed" => call'[q][m] = "failed"
    BY <1>1, <1>2 DEF OneCall, OthersStay
  <2>4. \A m \in Nodes : \/ job'[m].by = job[m].by
                         \/ m = n /\ job'[m].by = r
    BY <2>1
  <2>5. \A q \in Requests, m \in Nodes : job'[m].by = q =>
          (InFlight(q) /\ call'[q][m] = "failed") \/ <<User(q), m>> \in reported
    BY <1>2, <2>3, <2>4 DEF IInv, JobInv
  <2>6. \A m \in Nodes : job'[m].by = Sync => \A u \in Names : <<u, m>> \in reported
    BY <2>4, SyncAssumption DEF IInv, JobInv
  <2>7. QED
    BY <1>2, <2>2, <2>5, <2>6 DEF JobInv, ghosts
<1>6. SyncInv' /\ RivalInv'
  BY <1>2, <1>3 DEF IInv, SyncInv, RivalInv, d1, ghosts
<1>7. PairInv'
  <2>1. SUFFICES ASSUME NEW u \in Names, NEW m \in Nodes PROVE PairAt(u, m)'
    BY DEF PairInv
  <2>2. PairAt(u, m)
    BY DEF IInv, PairInv
  <2>3. /\ OnNode(u, m)' = OnNode(u, m) /\ rows'[u][m] = rows[u][m]
        /\ Doubtful(u, m)' <=> Doubtful(u, m)
    BY <1>2 DEF OnNode, d1, Doubtful, ghosts
  <2>4. CASE u # User(r) \/ m # n
    <3>1. SameAt(u, m)
      BY <1>2, <1>3, <2>3, <2>4 DEF SameAt, About
    <3>2. QED
      BY <2>2, <3>1, PairStays
  <2>5. CASE u = User(r) /\ m = n
    <3>1. WillFail(u, m)'
      BY <1>2, <1>3, <2>5 DEF WillFail
    <3>2. \A q \in Requests :
            /\ call'[q][m] = "creds" => call[q][m] = "creds" /\ got'[q][m] = got[q][m]
            /\ call'[q][m] = "none" => call[q][m] = "none"
      BY <1>1, <1>2 DEF OneCall, OthersStay
    <3>3. QED
      BY <1>2, <1>3, <2>2, <2>3, <3>1, <3>2 DEF PairAt
  <2>6. QED
    BY <2>4, <2>5
<1>8. QED
  BY <1>1, <1>4, <1>5, <1>6, <1>7 DEF IInv

\* A request ends: what it leaves unsettled is named in its answer.
LEMMA EndIInv ==
    ASSUME IInv, NEW r \in Requests, Report(r) \/ Drop(r) \/ Cut(r)
    PROVE  IInv'
<1>1. /\ TypeInv' /\ OthersStay(r) /\ TypeInv
      /\ InFlight(r) /\ User(r) \in Names
      /\ pc'[r] = "done" /\ \A n \in Nodes : call'[r][n] = "none"
  BY EndTypeInv DEF IInv
<1>2. /\ UNCHANGED <<agents, req, sync, raced>> /\ reported \subseteq reported'
      /\ \A n \in Nodes : call[r][n] = "failed" => <<User(r), n>> \in reported'
      /\ Cut(r) => \A n \in Nodes : call[r][n] # "none" => <<User(r), n>> \in reported'
      /\ ~Cut(r) => \A n \in Nodes : call[r][n] \in {"none", "ok", "failed"}
      /\ ~Cut(r) => pc[r] = "calls"
  BY DEF Report, Drop, Cut, Summary, Settled, Called, At
<1>3. /\ \A u \in Names \ {User(r)} : rows'[u] = rows[u]
      /\ Drop(r) => req[r].kind = "delete" /\ \A n \in Nodes : rows'[User(r)][n] = Nothing
      /\ ~Drop(r) => UNCHANGED rows
      /\ Report(r) => req[r].kind # "delete"
  BY <1>1 DEF Report, Drop, Cut, d1, TypeInv, TypeOK
<1>4. \A u \in Names, q \in Requests \ {r} :
        /\ About(q, u)' <=> About(q, u)
        /\ \A n \in Nodes : call'[q][n] = call[q][n] /\ got'[q][n] = got[q][n]
        /\ req'[q] = req[q] /\ pc'[q] = pc[q]
  BY <1>1, OthersAbout
<1>5. /\ About(r, User(r)) /\ \A u \in Names : About(r, u) => u = User(r)
      /\ \A u \in Names : ~About(r, u)'
  BY <1>1 DEF About, InFlight
<1>6. MissingInv' /\ WholeInv'
  <2>1. \A u \in Names, n \in Nodes : IsWhole(rows'[u][n])
    BY <1>3 DEF IInv, WholeInv, IsWhole, Nothing
  <2>2. QED
    BY <1>1, <2>1 DEF IInv, MissingInv, WholeInv, OthersStay
<1>7. JobInv'
  <2>1. \A q \in Requests : User(q)' = User(q)
    BY <1>2 DEF User
  <2>2. \A q \in Requests \ {r} : InFlight(q)' = InFlight(q) /\ call'[q] = call[q]
    BY <1>1 DEF OthersStay, InFlight, TypeInv, TypeOK
  <2>3. QED
    BY <1>1, <1>2, <2>1, <2>2 DEF IInv, JobInv, agents
<1>8. SyncInv'
  <2>1. \A n \in Nodes, u \in Names : (\A q \in Requests : ~About(q, u)) => rows'[u] = rows[u]
    BY <1>3, <1>5
  <2>2. QED
    BY <1>2, <1>4, <1>5, <2>1 DEF IInv, SyncInv
<1>9. RivalInv'
  BY <1>2, <1>4, <1>5 DEF IInv, RivalInv
<1>10. PairInv'
  <2>1. SUFFICES ASSUME NEW u \in Names, NEW n \in Nodes, ~Doubtful(u, n)' PROVE PairAt(u, n)'
    BY DEF PairInv, PairAt
  <2>2. PairAt(u, n) /\ ~Doubtful(u, n)
    BY <1>2, <2>1 DEF IInv, PairInv, Doubtful
  <2>3. OnNode(u, n)' = OnNode(u, n)
    BY <1>2 DEF OnNode, agents
  <2>4. CASE u # User(r)
    <3>1. SameAt(u, n)
      BY <1>3, <1>4, <1>5, <2>2, <2>3, <2>4 DEF SameAt
    <3>2. QED
      BY <2>2, <3>1, PairStays
  <2>5. CASE u = User(r)
    <3>1. /\ call[r][n] # "failed" /\ call[r][n] # "creds"
          /\ Cut(r) => call[r][n] = "none"
          /\ Drop(r) => call[r][n] \in {"none", "ok"}
      BY <1>2, <2>1, <2>5 DEF Doubtful
    <3>2. /\ WillFail(u, n) => WillFail(u, n)'
          /\ Provides(u, n) => Provides(u, n)'
      BY <1>4, <3>1 DEF WillFail, Provides
    <3>3. CASE ~Drop(r)
      <4>1. Removes(u, n) => Removes(u, n)'
        <5>1. ~(req[r].kind = "delete" /\ call[r][n] = "ok")
          BY <1>3, <3>1, <3>3
        <5>2. QED
          BY <1>4, <5>1 DEF Removes
      <4>2. Agree(u, n)' <=> Agree(u, n)
        BY <1>3, <2>3, <3>3 DEF Agree, OnNode
      <4>3. \A q \in Requests : About(q, u)' => q # r /\ About(q, u)
        BY <1>4, <1>5
      <4>4. QED
        BY <1>3, <1>4, <2>2, <2>3, <3>2, <3>3, <4>1, <4>2, <4>3 DEF PairAt
    <3>4. CASE Drop(r)
      <4>1. req[r].kind = "delete" /\ pc[r] = "calls" /\ About(r, u) /\ rows'[u][n] = Nothing
        BY <1>2, <1>3, <1>5, <2>5, <3>4 DEF Drop, At
      <4>2. OnNode(u, n) = Nothing => Agree(u, n)'
        BY <2>3, <4>1 DEF Agree, OnNode
      <4>3. ~Provides(u, n)
        BY <1>1, <2>2, <4>1, OneSide DEF Provides, IInv, TypeInv, CallInv
      <4>4. Agree(u, n)' \/ WillFail(u, n)'
        <5>1. CASE call[r][n] = "ok"
          BY <2>2, <3>2, <4>1, <4>2, <5>1 DEF PairAt
        <5>2. CASE call[r][n] = "none"
          <6>1. rows[u][n] = Nothing
            BY <2>2, <4>1, <5>2 DEF PairAt
          <6>2. Agree(u, n) => OnNode(u, n) = Nothing
            BY <6>1 DEF Agree, OnNode
          <6>3. QED
            BY <2>2, <3>2, <4>2, <4>3, <6>2 DEF PairAt
        <5>3. QED
          BY <3>1, <3>4, <5>1, <5>2
      <4>5. \A q \in Requests : About(q, u)' => q # r /\ About(q, u)
        BY <1>4, <1>5
      <4>6. QED
        BY <1>4, <2>2, <2>3, <3>2, <4>1, <4>4, <4>5 DEF PairAt
    <3>5. QED
      BY <3>3, <3>4
  <2>6. QED
    BY <2>4, <2>5
<1>11. QED
  BY <1>1, <1>6, <1>7, <1>8, <1>9, <1>10 DEF IInv

-----------------------------------------------------------------------------
(* An agent serves a request.                                              *)

\* Adding a user leaves the others as they are, if they have both credentials or
\* neither, and the user, if it has both.
LEMMA AfterPostAt ==
    ASSUME NEW n \in Nodes, NEW r \in Requests, User(r) \in Names,
           AfterPost(n, r) \in Lists,
           xray[n] \in [Names -> Cred], hy2[n] \in [Names -> Cred]
    PROVE  /\ AfterPost(n, r).x[User(r)] # NoCred /\ AfterPost(n, r).h[User(r)] # NoCred
           /\ \A u \in Names : xray[n][u] # NoCred /\ hy2[n][u] # NoCred =>
                AfterPost(n, r).x[u] = xray[n][u] /\ AfterPost(n, r).h[u] = hy2[n][u]
           /\ \A u \in Names : IsWhole(OnNode(u, n)) /\ u # User(r) =>
                AfterPost(n, r).x[u] = xray[n][u] /\ AfterPost(n, r).h[u] = hy2[n][u]
<1>1. r # NoCred
  BY NoneAssumption
<1>2. /\ Passwords(n, r) \in [Names -> Cred]
      /\ \A u \in Names : xray[n][u] # NoCred /\ hy2[n][u] # NoCred =>
           Passwords(n, r)[u] = hy2[n][u]
      /\ \A u \in Names : IsWhole(OnNode(u, n)) => Passwords(n, r)[u] = hy2[n][u]
      /\ \A u \in Names : xray[n][u] # NoCred => Passwords(n, r)[u] # NoCred
  BY <1>1 DEF Passwords, Here, IsWhole, OnNode, Cred
<1>3. CASE User(r) \in Here(n)
  BY <1>2, <1>3 DEF AfterPost, Here
<1>4. CASE User(r) \notin Here(n)
  BY <1>1, <1>2, <1>4 DEF AfterPost, Here
<1>5. QED
  BY <1>3, <1>4

LEMMA AfterDeleteAt ==
    ASSUME NEW n \in Nodes, NEW r \in Requests, User(r) \in Names,
           xray[n] \in [Names -> Cred], hy2[n] \in [Names -> Cred]
    PROVE  /\ AfterDelete(n, r).x[User(r)] = NoCred /\ AfterDelete(n, r).h[User(r)] = NoCred
           /\ \A u \in Names : IsWhole(OnNode(u, n)) /\ u # User(r) =>
                AfterDelete(n, r).x[u] = xray[n][u] /\ AfterDelete(n, r).h[u] = hy2[n][u]
<1>1. /\ Passwords(n, r) \in [Names -> Cred \cup {r}]
      /\ \A u \in Names : IsWhole(OnNode(u, n)) => Passwords(n, r)[u] = hy2[n][u]
  BY DEF Passwords, Here, IsWhole, OnNode
<1>2. QED
  BY <1>1 DEF AfterDelete

\* A pair that is not in doubt has both credentials on the node or neither, or
\* somebody will say that the node failed.
LEMMA NodeIsWhole ==
    ASSUME IInv, NEW u \in Names, NEW n \in Nodes, ~Doubtful(u, n)
    PROVE  /\ WillFail(u, n) \/ IsWhole(OnNode(u, n))
           /\ \A q \in Requests : About(q, u) /\ call[q][n] = "creds" =>
                /\ got[q][n] = OnNode(u, n)
                /\ xray[n][u] # NoCred /\ hy2[n][u] # NoCred
<1>1. PairAt(u, n) /\ IsWhole(rows[u][n])
  BY DEF IInv, PairInv, WholeInv
<1>2. \A q \in Requests : About(q, u) /\ call[q][n] = "creds" =>
        got[q][n] = OnNode(u, n) /\ xray[n][u] # NoCred /\ hy2[n][u] # NoCred
  BY <1>1 DEF PairAt, IInv, WholeInv, OnNode
<1>3. CASE Agree(u, n)
  BY <1>1, <1>2, <1>3 DEF Agree, OnNode
<1>4. CASE Provides(u, n)
  BY <1>2, <1>4 DEF Provides, IsWhole, OnNode
<1>5. CASE OnNode(u, n) = Nothing
  BY <1>2, <1>5 DEF IsWhole, Nothing
<1>6. QED
  BY <1>1, <1>2, <1>3, <1>4, <1>5 DEF PairAt

\* A pair that a handler leaves as it is, or whose failure is still to be said.
LEMMA OthersAtNode ==
    ASSUME IInv, NEW r \in Requests, NEW n \in Nodes, NEW to \in Lists, Handled(r, n, to),
           \A v \in Names : IsWhole(OnNode(v, n)) /\ v # User(r) =>
                to.x[v] = xray[n][v] /\ to.h[v] = hy2[n][v],
           NEW u \in Names, NEW m \in Nodes, u # User(r) \/ m # n
    PROVE  PairAt(u, m)'
<1>1. PairAt(u, m)
  BY DEF IInv, PairInv
<1>2. \A q \in Requests :
        /\ About(q, u)' <=> About(q, u)
        /\ About(q, u) => call'[q][m] = call[q][m] /\ got'[q][m] = got[q][m]
        /\ req'[q] = req[q] /\ pc'[q] = pc[q]
  <2>1. About(r, u) => u = User(r)
    BY DEF About
  <2>2. QED
    BY <2>1, OneCallAbout DEF Handled
<1>3. rows'[u][m] = rows[u][m] /\ (Doubtful(u, m)' <=> Doubtful(u, m))
  BY DEF Handled, d1, ghosts, Doubtful
<1>4. CASE OnNode(u, m)' = OnNode(u, m)
  <2>1. SameAt(u, m)
    BY <1>2, <1>3, <1>4 DEF SameAt
  <2>2. QED
    BY <1>1, <2>1, PairStays
<1>5. CASE OnNode(u, m)' # OnNode(u, m) /\ ~Doubtful(u, m)
  <2>1. m = n /\ ~IsWhole(OnNode(u, n))
    BY <1>5 DEF Handled, OnNode
  <2>2. WillFail(u, m)
    BY <1>5, <2>1, NodeIsWhole
  <2>3. WillFail(u, m)'
    BY <1>2, <2>2 DEF WillFail
  <2>4. \A q \in Requests : ~(About(q, u) /\ call[q][m] = "creds")
    BY <1>5, <2>1, NodeIsWhole DEF IsWhole, OnNode
  <2>5. QED
    BY <1>1, <1>2, <1>3, <1>5, <2>3, <2>4 DEF PairAt
<1>6. CASE Doubtful(u, m)
  BY <1>3, <1>6 DEF PairAt
<1>7. QED
  BY <1>4, <1>5, <1>6

\* What a handler of a request does to the rest of the invariant.
LEMMA HandledInv ==
    ASSUME IInv, NEW r \in Requests, NEW n \in Nodes, NEW to, Handled(r, n, to),
           job[n].by # r /\ call'[r][n] = "creds" =>
                got'[r][n].x # NoCred /\ got'[r][n].h # NoCred
    PROVE  MissingInv' /\ WholeInv' /\ JobInv' /\ SyncInv' /\ RivalInv'
<1>1. \A u \in Names, q \in Requests :
        /\ About(q, u)' <=> About(q, u)
        /\ \A m \in Nodes : q # r \/ m # n =>
             call'[q][m] = call[q][m] /\ got'[q][m] = got[q][m]
        /\ req'[q] = req[q] /\ pc'[q] = pc[q]
  BY OneCallAbout DEF Handled
<1>2. UNCHANGED <<d1, sync, ghosts>>
  BY DEF Handled
<1>3. \A q \in Requests : pc'[q] = pc[q] /\ req'[q] = req[q]
  BY DEF Handled, OneCall, OthersStay
<1>4. MissingInv'
  BY <1>3 DEF IInv, MissingInv
<1>5. WholeInv'
  <2>1. ASSUME NEW q \in Requests, NEW m \in Nodes, call'[q][m] = "creds"
        PROVE  got'[q][m].x # NoCred /\ got'[q][m].h # NoCred
    <3>1. CASE q # r \/ m # n
      BY <2>1, <3>1 DEF Handled, OneCall, OthersStay, IInv, WholeInv
    <3>2. CASE q = r /\ m = n
      BY <2>1, <3>2 DEF Handled, IInv, WholeInv
    <3>3. QED
      BY <3>1, <3>2
  <2>2. QED
    BY <1>2, <2>1 DEF IInv, WholeInv, d1
<1>6. JobInv'
  <2>1. \A q \in Requests : User(q)' = User(q) /\ InFlight(q)' = InFlight(q)
    BY <1>3 DEF User, InFlight
  <2>2. /\ job'[n].by = None
        /\ \A m \in Nodes \ {n} : /\ job'[m] = job[m]
                                  /\ \A q \in Requests : call'[q][m] = call[q][m]
    BY DEF Handled, OneCall, OthersStay
  <2>3. QED
    BY <1>2, <2>1, <2>2, NoneIsNobody DEF IInv, JobInv, ghosts
<1>7. SyncInv' /\ RivalInv'
  BY <1>1, <1>2 DEF IInv, SyncInv, RivalInv, d1, ghosts
<1>8. QED
  BY <1>4, <1>5, <1>6, <1>7

LEMMA ServePostIInv ==
    ASSUME IInv, NEW r \in Requests, NEW n \in Nodes, ServePost(r, n)
    PROVE  IInv'
<1>0. PICK u \in Names : u = User(r)
  BY ServePostEffect DEF IInv, Handled
<1> DEFINE to == AfterPost(n, r)
<1>1. /\ TypeInv /\ TypeInv' /\ Handled(r, n, to) /\ to \in Lists
      /\ req[r].kind # "delete"
      /\ job[n].by # r =>
           \/ /\ call'[r][n] = "creds" /\ got'[r][n] = OnNode(u, n)'
              /\ xray'[n] = to.x /\ hy2'[n] = to.h
           \/ call'[r][n] = "failed"
  <2>1. TypeInv /\ Handled(r, n, to) /\ TypeInv' /\ to \in Lists /\ req[r].kind # "delete"
    BY ServePostEffect DEF IInv
  <2>2. User(r)' = u
    BY <1>0, <2>1 DEF Handled, OneCall, User
  <2>3. OnNode(User(r), n)' = OnNode(u, n)'
    BY <2>2 DEF OnNode
  <2>4. QED
    BY <1>0, <2>1, <2>3, ServePostEffect
<1>2. xray[n] \in [Names -> Cred] /\ hy2[n] \in [Names -> Cred]
  BY <1>1 DEF TypeInv, TypeOK
<1>3. /\ to.x[u] # NoCred /\ to.h[u] # NoCred
      /\ \A v \in Names : xray[n][v] # NoCred /\ hy2[n][v] # NoCred =>
           to.x[v] = xray[n][v] /\ to.h[v] = hy2[n][v]
      /\ \A v \in Names : IsWhole(OnNode(v, n)) /\ v # u =>
           to.x[v] = xray[n][v] /\ to.h[v] = hy2[n][v]
  BY <1>0, <1>1, <1>2, AfterPostAt
<1> HIDE DEF to
<1>4. job[n].by # r /\ call'[r][n] = "creds" => got'[r][n].x # NoCred /\ got'[r][n].h # NoCred
  BY <1>1, <1>3 DEF OnNode
<1>5. MissingInv' /\ WholeInv' /\ JobInv' /\ SyncInv' /\ RivalInv'
  BY <1>1, <1>4, HandledInv
<1>6. PairAt(u, n)'
  <2>1. SUFFICES ASSUME ~Doubtful(u, n) PROVE PairAt(u, n)'
    BY <1>1 DEF Handled, ghosts, Doubtful, PairAt
  <2>2. \A q \in Requests :
          /\ About(q, u)' <=> About(q, u)
          /\ q # r => call'[q][n] = call[q][n] /\ got'[q][n] = got[q][n]
          /\ req'[q] = req[q] /\ pc'[q] = pc[q]
    BY <1>1, OneCallAbout DEF Handled
  <2>3. job[n].by = r => UNCHANGED <<call, got>> /\ call[r][n] = "failed" /\ About(r, u)
    BY <1>0, <1>1, <2>1 DEF Handled, IInv, JobInv, Doubtful, About
  <2>4. About(r, u)
    BY <1>0, <1>1, <2>3 DEF Handled, About, InFlight
  <2>5. WillFail(u, n)' \/ Provides(u, n)'
    BY <1>1, <2>2, <2>3, <2>4 DEF WillFail, Provides
  <2>6. \A q \in Requests : About(q, u)' => req'[q].kind # "delete"
    BY <1>1, <2>1, <2>2, <2>4, OneSide DEF IInv
  <2>7. \A q \in Requests : About(q, u)' /\ call'[q][n] = "creds" =>
          got'[q][n] = OnNode(u, n)'
    <3>1. SUFFICES ASSUME NEW q \in Requests, About(q, u)', call'[q][n] = "creds"
                   PROVE  got'[q][n] = OnNode(u, n)'
      OBVIOUS
    <3>2. CASE q # r \/ job[n].by = r
      <4>1. /\ got'[q][n] = OnNode(u, n)
            /\ xray[n][u] # NoCred /\ hy2[n][u] # NoCred
        BY <1>1, <2>1, <2>2, <2>3, <3>1, <3>2, NodeIsWhole
      <4>2. xray'[n][u] = xray[n][u] /\ hy2'[n][u] = hy2[n][u]
        BY <1>1, <1>3, <4>1 DEF Handled
      <4>3. QED
        BY <4>1, <4>2 DEF OnNode
    <3>3. CASE q = r /\ job[n].by # r
      BY <1>1, <3>1, <3>3
    <3>4. QED
      BY <3>2, <3>3
  <2>8. QED
    BY <2>5, <2>6, <2>7 DEF PairAt
<1>7. PairInv'
  <2>1. SUFFICES ASSUME NEW v \in Names, NEW m \in Nodes PROVE PairAt(v, m)'
    BY DEF PairInv
  <2>2. CASE v # u \/ m # n
    BY <1>0, <1>1, <1>3, <2>2, OthersAtNode
  <2>3. QED
    BY <1>6, <2>2
<1>8. QED
  BY <1>1, <1>5, <1>7 DEF IInv

LEMMA ServeDeleteIInv ==
    ASSUME IInv, NEW r \in Requests, NEW n \in Nodes, ServeDelete(r, n)
    PROVE  IInv'
<1>0. PICK u \in Names : u = User(r)
  BY ServeDeleteEffect DEF IInv, Handled
<1> DEFINE to == AfterDelete(n, r)
<1>1. /\ TypeInv /\ TypeInv' /\ Handled(r, n, to) /\ to \in Lists
      /\ req[r].kind = "delete"
      /\ job[n].by # r =>
           \/ /\ call'[r][n] = "ok" /\ xray[n][u] = NoCred
              /\ UNCHANGED <<xray, hy2>>
           \/ /\ call'[r][n] = "ok"
              /\ xray'[n] = to.x /\ hy2'[n] = to.h
           \/ call'[r][n] = "failed"
  BY <1>0, ServeDeleteEffect DEF IInv
<1>2. xray[n] \in [Names -> Cred] /\ hy2[n] \in [Names -> Cred]
  BY <1>1 DEF TypeInv, TypeOK
<1>3. /\ to.x[u] = NoCred /\ to.h[u] = NoCred
      /\ \A v \in Names : IsWhole(OnNode(v, n)) /\ v # u =>
           to.x[v] = xray[n][v] /\ to.h[v] = hy2[n][v]
  BY <1>0, <1>1, <1>2, AfterDeleteAt
<1> HIDE DEF to
<1>4. MissingInv' /\ WholeInv' /\ JobInv' /\ SyncInv' /\ RivalInv'
  <2>1. job[n].by # r => call'[r][n] # "creds"
    BY <1>1
  <2>2. QED
    BY <1>1, <2>1, HandledInv
<1>5. PairAt(u, n)'
  <2>1. SUFFICES ASSUME ~Doubtful(u, n) PROVE PairAt(u, n)'
    BY <1>1 DEF Handled, ghosts, Doubtful, PairAt
  <2>2. \A q \in Requests :
          /\ About(q, u)' <=> About(q, u)
          /\ q # r => call'[q][n] = call[q][n] /\ got'[q][n] = got[q][n]
          /\ req'[q] = req[q] /\ pc'[q] = pc[q]
    BY <1>1, OneCallAbout DEF Handled
  <2>3. job[n].by = r => UNCHANGED <<call, got>> /\ call[r][n] = "failed" /\ About(r, u)
    BY <1>0, <1>1, <2>1 DEF Handled, IInv, JobInv, Doubtful, About
  <2>4. About(r, u) /\ (job[n].by # r => call[r][n] = "sent")
    BY <1>0, <1>1, <2>3 DEF Handled, About, InFlight
  <2>5. \A q \in Requests : About(q, u) =>
          req[q].kind = "delete" /\ call[q][n] # "creds" /\ call'[q][n] # "creds"
    <3>1. \A q \in Requests : About(q, u) => req[q].kind = "delete"
      BY <1>1, <2>1, <2>4, OneSide DEF IInv
    <3>2. \A q \in Requests : About(q, u) => req'[q].kind = "delete"
      BY <2>2, <3>1
    <3>3. QED
      BY <1>1, <3>1, <3>2 DEF TypeInv, CallInv
  <2>6. PairAt(u, n) /\ IsWhole(rows[u][n])
    BY <1>1 DEF IInv, PairInv, WholeInv
  <2>7. WillFail(u, n)' \/ (Removes(u, n)' /\ OnNode(u, n)' = Nothing)
    <3>1. CASE job[n].by = r \/ call'[r][n] = "failed"
      BY <2>2, <2>3, <2>4, <3>1 DEF WillFail
    <3>2. CASE call'[r][n] = "ok" /\ xray'[n] = to.x /\ hy2'[n] = to.h
      BY <1>1, <1>3, <2>2, <2>4, <3>2 DEF Removes, OnNode, Nothing
    <3>3. CASE /\ job[n].by # r /\ call'[r][n] = "ok" /\ xray[n][u] = NoCred
               /\ UNCHANGED <<xray, hy2>>
      <4>1. Removes(u, n)' /\ OnNode(u, n)' = OnNode(u, n)
        BY <1>1, <2>2, <2>4, <3>3 DEF Removes, OnNode
      <4>2. WillFail(u, n) => WillFail(u, n)'
        BY <2>2, <2>4, <3>3 DEF WillFail
      <4>3. ~Provides(u, n)
        BY <2>5 DEF Provides
      <4>4. Agree(u, n) => OnNode(u, n) = Nothing
        BY <2>6, <3>3 DEF Agree, OnNode, IsWhole, Nothing
      <4>5. QED
        BY <2>1, <2>6, <4>1, <4>2, <4>3, <4>4 DEF PairAt
    <3>4. QED
      BY <1>1, <3>1, <3>2, <3>3
  <2>8. \A q \in Requests : About(q, u)' /\ call'[q][n] = "none" /\ pc'[q] = "calls" =>
          rows'[u][n] = Nothing
    <3>1. UNCHANGED rows
      BY <1>1 DEF Handled, d1
    <3>2. \A q \in Requests : call'[q][n] = "none" => call[q][n] = "none"
      BY <1>1, <2>2 DEF Handled
    <3>3. QED
      BY <2>1, <2>2, <2>5, <2>6, <3>1, <3>2 DEF PairAt
  <2>9. QED
    BY <2>2, <2>5, <2>7, <2>8 DEF PairAt
<1>6. PairInv'
  <2>1. SUFFICES ASSUME NEW v \in Names, NEW m \in Nodes PROVE PairAt(v, m)'
    BY DEF PairInv
  <2>2. CASE v # u \/ m # n
    BY <1>0, <1>1, <1>3, <2>2, OthersAtNode
  <2>3. QED
    BY <1>5, <2>2
<1>7. QED
  BY <1>1, <1>4, <1>6 DEF IInv

-----------------------------------------------------------------------------
(* A sync, the status of a node, and every step.                           *)

\* A sync leaves the requests alone, and the other nodes.
LEMMA SyncAbout ==
    ASSUME NEW n \in Nodes, SyncStays(n)
    PROVE  /\ \A u \in Names, q \in Requests : About(q, u)' <=> About(q, u)
           /\ \A q \in Requests : InFlight(q)' = InFlight(q) /\ User(q)' = User(q)
           /\ UNCHANGED <<rows, pc, req, call, got>>
           /\ \A u \in Names, m \in Nodes \ {n} :
                OnNode(u, m)' = OnNode(u, m) /\ (Agree(u, m)' <=> Agree(u, m))
BY DEF SyncStays, d1, workers, About, InFlight, User, OnNode, Agree

\* What a step of a sync does at the other nodes, as far as the doubt there stays.
LEMMA SyncElsewhere ==
    ASSUME IInv, NEW n \in Nodes, SyncStays(n),
           NEW u \in Names, NEW m \in Nodes \ {n}, Doubtful(u, m) => Doubtful(u, m)'
    PROVE  PairAt(u, m)'
<1>1. PairAt(u, m)
  BY DEF IInv, PairInv
<1>2. SameAt(u, m)
  BY SyncAbout DEF SameAt
<1>3. QED
  BY <1>1, <1>2, PairStays

LEMMA BeginSyncIInv ==
    ASSUME IInv, NEW n \in Nodes, BeginSync(n)
    PROVE  IInv'
<1>1. TypeInv' /\ SyncStays(n) /\ TypeInv
  BY SyncTypeInv DEF IInv
<1>2. /\ \A u \in Names, q \in Requests : About(q, u)' <=> About(q, u)
      /\ \A q \in Requests : InFlight(q)' = InFlight(q) /\ User(q)' = User(q)
      /\ UNCHANGED <<rows, pc, req, call, got, xray, hy2, job, reported>>
  BY <1>1, SyncAbout DEF BeginSync, agents
<1>3. raced' = raced \cup (Crossed(n) \X {n})
  BY DEF BeginSync
<1>4. MissingInv' /\ WholeInv' /\ JobInv'
  BY <1>2 DEF IInv, MissingInv, WholeInv, JobInv
<1>5. RivalInv'
  BY <1>2, <1>3 DEF IInv, RivalInv
<1>6. SyncInv'
  <2>1. SUFFICES ASSUME NEW m \in Nodes, NEW u \in Names, sync'[m].at = "sent"
                 PROVE  \/ u \in sync'[m].with /\ <<u, m>> \in raced'
                        \/ /\ u \notin sync'[m].with
                           /\ sync'[m].list[u] = rows'[u][m]
                           /\ \A q \in Requests : ~About(q, u)'
    BY DEF SyncInv
  <2>2. CASE m = n
    <3>1. sync'[n] = [at |-> "sent", list |-> [v \in Names |-> rows[v][n]], with |-> Crossed(n)]
      BY <1>1 DEF BeginSync, TypeInv, TypeOK
    <3>2. u \notin Crossed(n) => \A q \in Requests : ~About(q, u)
      BY DEF Crossed, About
    <3>3. QED
      BY <1>2, <1>3, <2>2, <3>1, <3>2
  <2>3. CASE m # n
    <3>1. sync'[m] = sync[m]
      BY <1>1, <2>3 DEF SyncStays
    <3>2. QED
      BY <1>2, <1>3, <2>1, <3>1 DEF IInv, SyncInv
  <2>4. QED
    BY <2>2, <2>3
<1>7. PairInv'
  <2>1. SUFFICES ASSUME NEW u \in Names, NEW m \in Nodes PROVE PairAt(u, m)'
    BY DEF PairInv
  <2>2. SameAt(u, m)
    BY <1>2, <1>3 DEF SameAt, OnNode, Doubtful
  <2>3. QED
    BY <2>2, PairStays DEF IInv, PairInv
<1>8. QED
  BY <1>1, <1>4, <1>5, <1>6, <1>7 DEF IInv

\* A sync that fails, at once or after the panel has given up on it, leaves its
\* node in doubt.
LEMMA SyncInDoubtIInv ==
    ASSUME IInv, NEW n \in Nodes, SyncStays(n), TypeInv',
           sync'[n] = sync[n] \/ sync'[n].at = "idle",
           raced' = raced, reported \subseteq reported',
           \A u \in Names : <<u, n>> \in reported',
           job'[n].by \in Requests => job'[n] = job[n]
    PROVE  IInv'
<1>1. /\ \A u \in Names, q \in Requests : About(q, u)' <=> About(q, u)
      /\ \A q \in Requests : InFlight(q)' = InFlight(q) /\ User(q)' = User(q)
      /\ UNCHANGED <<rows, pc, req, call, got>>
  BY SyncAbout
<1>2. MissingInv' /\ WholeInv'
  BY <1>1 DEF IInv, MissingInv, WholeInv
<1>3. JobInv'
  <2>1. \A m \in Nodes \ {n} : job'[m] = job[m]
    BY DEF SyncStays
  <2>2. QED
    BY <1>1, <2>1 DEF IInv, JobInv
<1>4. RivalInv'
  BY <1>1 DEF IInv, RivalInv
<1>5. SyncInv'
  <2>1. \A m \in Nodes : sync'[m].at = "sent" => sync'[m] = sync[m]
    BY DEF SyncStays
  <2>2. QED
    BY <1>1, <2>1 DEF IInv, SyncInv
<1>6. PairInv'
  <2>1. SUFFICES ASSUME NEW u \in Names, NEW m \in Nodes PROVE PairAt(u, m)'
    BY DEF PairInv
  <2>2. CASE m = n
    BY <2>2 DEF PairAt, Doubtful
  <2>3. CASE m # n
    BY <2>3, SyncElsewhere DEF Doubtful
  <2>4. QED
    BY <2>2, <2>3
<1>7. QED
  BY <1>2, <1>3, <1>4, <1>5, <1>6 DEF IInv

LEMMA SyncFailsIInv ==
    ASSUME IInv, NEW n \in Nodes, SyncFails(n) \/ ServeOldSync(n)
    PROVE  IInv'
<1>1. TypeInv' /\ SyncStays(n) /\ TypeInv
  BY SyncTypeInv DEF IInv
<1>2. CASE SyncFails(n)
  <2>1. sync'[n].at = "idle" /\ raced' = raced /\ reported' = reported \cup (Names \X {n})
    BY <1>1, <1>2 DEF SyncFails, TypeInv, TypeOK
  <2>2. job'[n] = job[n] \/ job'[n].by = Sync
    BY <1>1, <1>2 DEF SyncFails, Abandoned, TypeInv, TypeOK
  <2>3. QED
    BY <1>1, <2>1, <2>2, SyncAssumption, SyncInDoubtIInv
<1>3. CASE ServeOldSync(n)
  <2>1. UNCHANGED <<sync, reported, raced>> /\ job[n].by = Sync
    BY <1>3 DEF ServeOldSync, ghosts
  <2>2. \A u \in Names : <<u, n>> \in reported'
    BY <2>1 DEF IInv, JobInv
  <2>3. job'[n].by = None
    BY <1>1, <1>3 DEF ServeOldSync, Release, TypeInv, TypeOK
  <2>4. QED
    BY <1>1, <2>1, <2>2, <2>3, NoneIsNobody, SyncInDoubtIInv
<1>4. QED
  BY <1>2, <1>3

\* A sync that succeeds clears the doubt about the users it has not crossed, and
\* those agree.
LEMMA ServeSyncIInv ==
    ASSUME IInv, NEW n \in Nodes, ServeSync(n)
    PROVE  IInv'
<1> DEFINE alone == (Names \ sync[n].with) \X {n}
           to == AfterSync(n, sync[n].list)
<1>1. TypeInv' /\ SyncStays(n) /\ TypeInv
  BY SyncTypeInv DEF IInv
<1>2. /\ sync[n].at = "sent" /\ job[n].by = None /\ UNCHANGED job
      /\ sync[n].list \in List /\ sync'[n].at = "idle"
  BY <1>1, SyncListType DEF ServeSync, TypeInv, TypeOK
<1>3. CASE reported' = reported \cup (Names \X {n}) /\ UNCHANGED raced
  BY <1>1, <1>2, <1>3, SyncInDoubtIInv
<1>4. CASE Leaves(n, to, TRUE) /\ reported' = reported \ alone /\ raced' = raced \ alone
  <2>1. /\ \A u \in Names, q \in Requests : About(q, u)' <=> About(q, u)
        /\ \A q \in Requests : InFlight(q)' = InFlight(q) /\ User(q)' = User(q)
        /\ UNCHANGED <<rows, pc, req, call, got>>
    BY <1>1, SyncAbout
  <2>2. \A u \in Names, m \in Nodes \ {n} :
          /\ <<u, m>> \in reported' <=> <<u, m>> \in reported
          /\ <<u, m>> \in raced' <=> <<u, m>> \in raced
    BY <1>4
  <2>3. \A u \in Names :
          \/ <<u, n>> \in raced'
          \/ /\ sync[n].list[u] = rows'[u][n]
             /\ \A q \in Requests : ~About(q, u)'
    BY <1>2, <1>4, <2>1 DEF IInv, SyncInv
  <2>4. \A u \in Names : OnNode(u, n)' = sync[n].list[u]
    <3>1. xray'[n] = to.x /\ hy2'[n] = to.h
      BY <1>1, <1>4 DEF Leaves, TypeInv, TypeOK
    <3>2. QED
      BY <1>2, <3>1 DEF OnNode, AfterSync, List, Pair
  <2>5. MissingInv' /\ WholeInv'
    BY <2>1 DEF IInv, MissingInv, WholeInv
  <2>6. JobInv'
    <3>1. \A m \in Nodes : job'[m].by = Sync => m # n /\ \A u \in Names : <<u, m>> \in reported'
      BY <1>2, <2>2, NoneIsNobody DEF IInv, JobInv
    <3>2. ASSUME NEW m \in Nodes, NEW q \in Requests, job'[m].by = q
          PROVE  (InFlight(q) /\ call[q][m] = "failed") \/ <<User(q), m>> \in reported'
      <4>1. m # n /\ job[m].by = q
        BY <1>2, <3>2, NoneIsNobody
      <4>2. User(q) \in Names
        BY <1>1, <4>1, UserType DEF TypeInv, BegunInv
      <4>3. QED
        BY <2>2, <4>1, <4>2 DEF IInv, JobInv
    <3>3. QED
      BY <2>1, <3>1, <3>2 DEF JobInv
  <2>7. RivalInv'
    <3>1. SUFFICES ASSUME NEW u \in Names, NEW m \in Nodes, <<u, m>> \notin raced',
                          NEW p \in Requests, NEW q \in Requests, About(p, u)', About(q, u)'
                   PROVE  req'[p].kind = "delete" <=> req'[q].kind = "delete"
      BY DEF RivalInv
    <3>2. m # n
      BY <2>3, <3>1
    <3>3. QED
      BY <2>1, <2>2, <3>1, <3>2 DEF IInv, RivalInv
  <2>8. SyncInv'
    <3>1. \A m \in Nodes : sync'[m].at = "sent" => m # n /\ sync'[m] = sync[m]
      BY <1>1, <1>2 DEF SyncStays
    <3>2. QED
      BY <2>1, <2>2, <3>1 DEF IInv, SyncInv
  <2>9. PairInv'
    <3>1. SUFFICES ASSUME NEW u \in Names, NEW m \in Nodes PROVE PairAt(u, m)'
      BY DEF PairInv
    <3>2. CASE m = n /\ <<u, n>> \in raced'
      BY <3>2 DEF PairAt, Doubtful
    <3>3. CASE m = n /\ <<u, n>> \notin raced'
      <4>1. Agree(u, n)' /\ \A q \in Requests : ~About(q, u)'
        BY <2>3, <2>4, <3>3 DEF Agree, OnNode
      <4>2. QED
        BY <3>3, <4>1 DEF PairAt
    <3>4. CASE m # n
      BY <1>1, <2>2, <3>4, SyncElsewhere DEF Doubtful
    <3>5. QED
      BY <3>2, <3>3, <3>4
  <2>10. QED
    BY <1>1, <2>5, <2>6, <2>7, <2>8, <2>9 DEF IInv
<1>5. QED
  BY <1>3, <1>4 DEF ServeSync

\* The status of a node is nothing that the panel and the node agree on.
LEMMA StatusIInv ==
    ASSUME IInv, TypeInv', UNCHANGED <<rows, agents, workers, sync, ghosts>>
    PROVE  IInv'
<1>1. \A q \in Requests : InFlight(q)' = InFlight(q) /\ User(q)' = User(q)
  BY DEF workers, InFlight, User
<1>2. \A u \in Names, q \in Requests : About(q, u)' <=> About(q, u)
  BY <1>1 DEF About
<1>3. MissingInv' /\ WholeInv' /\ JobInv' /\ SyncInv' /\ RivalInv'
  BY <1>1, <1>2
     DEF agents, workers, ghosts, IInv, MissingInv, WholeInv, JobInv, SyncInv, RivalInv
<1>4. PairInv'
  <2>1. SUFFICES ASSUME NEW u \in Names, NEW m \in Nodes PROVE PairAt(u, m)'
    BY DEF PairInv
  <2>2. SameAt(u, m)
    BY <1>2 DEF SameAt, OnNode, Doubtful, agents, workers, ghosts
  <2>3. QED
    BY <2>2, PairStays DEF IInv, PairInv
<1>5. QED
  BY <1>3, <1>4 DEF IInv

LEMMA NextIInv == IInv /\ [Next]_vars => IInv'
<1>1. SUFFICES ASSUME IInv, [Next]_vars PROVE IInv'
  OBVIOUS
<1>2. TypeInv'
  BY <1>1, NextTypeInv DEF IInv
<1>3. CASE UNCHANGED vars
  BY <1>1, <1>2, <1>3, StatusIInv DEF vars, d1
<1>4. ASSUME NEW r \in Requests,
             \/ Begin(r) \/ Insert(r) \/ Select(r) \/ Missing(r)
             \/ Report(r) \/ Drop(r) \/ Cut(r)
      PROVE  IInv'
  BY <1>1, <1>4, BeginIInv, QuietIInv, EndIInv
<1>5. ASSUME NEW r \in Requests, NEW n \in Nodes,
             Record(r, n) \/ CallFails(r, n) \/ ServePost(r, n) \/ ServeDelete(r, n)
      PROVE  IInv'
  BY <1>1, <1>5, RecordIInv, CallFailsIInv, ServePostIInv, ServeDeleteIInv
<1>6. ASSUME NEW n \in Nodes,
             BeginSync(n) \/ SyncFails(n) \/ ServeOldSync(n) \/ ServeSync(n)
      PROVE  IInv'
  BY <1>1, <1>6, BeginSyncIInv, SyncFailsIInv, ServeSyncIInv
<1>7. ASSUME NEW n \in Nodes, SetStatus(n) PROVE IInv'
  <2>1. UNCHANGED <<rows, agents, workers, sync, ghosts>>
    BY <1>7 DEF SetStatus
  <2>2. QED
    BY <1>1, <1>2, <2>1, StatusIInv
<1>8. QED
  BY <1>1, <1>3, <1>4, <1>5, <1>6, <1>7, NextCases

LEMMA InitIInv == Init => IInv
<1>1. SUFFICES ASSUME Init PROVE IInv
  OBVIOUS
<1>2. TypeInv
  BY <1>1, InitTypeInv
<1>3. \A q \in Requests, u \in Names : ~About(q, u)
  BY <1>1 DEF Init, About, InFlight
<1>4. MissingInv /\ WholeInv
  BY <1>1 DEF Init, MissingInv, WholeInv, IsWhole, Nothing
<1>5. JobInv /\ SyncInv /\ RivalInv
  BY <1>1, <1>3, NoneIsNobody, NoneAssumption DEF Init, JobInv, SyncInv, RivalInv
<1>6. PairInv
  BY <1>1, <1>3 DEF Init, PairInv, PairAt, Agree, Nothing
<1>7. QED
  BY <1>2, <1>4, <1>5, <1>6 DEF IInv

\* The panel and a node do not disagree about a user in silence: once the last
\* request about the user has been answered and no sync is under way, the
\* credentials in the subscription are the ones that the node accepts, unless an
\* answer since the last good sync named the pair as failed, or requests or a
\* sync have crossed there (panel/worker/src/routes/users.ts: createUserByName,
\* deleteUser and userUpgradeNodes, and routes/nodes.ts for the sync).
THEOREM NothingDisagreesInSilence == Spec => []DisagreementIsReported
<1>1. IInv => DisagreementIsReported
  <2>1. SUFFICES ASSUME IInv, NEW u \in Names, NEW n \in Nodes, Quiet(u, n), ~Doubtful(u, n)
                 PROVE  Agree(u, n)
    BY DEF DisagreementIsReported, Doubtful
  <2>2. \A q \in Requests : ~About(q, u)
    BY <2>1 DEF Quiet, About
  <2>3. PairAt(u, n)
    BY <2>1 DEF IInv, PairInv
  <2>4. QED
    BY <2>1, <2>2, <2>3 DEF PairAt, WillFail, Provides, Removes
<1>2. QED
  BY <1>1, InitIInv, NextIInv, PTL DEF Spec
=============================================================================
