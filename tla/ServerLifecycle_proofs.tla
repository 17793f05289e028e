---------------------- MODULE ServerLifecycle_proofs ----------------------
(***************************************************************************)
(* Proofs about ServerLifecycle, for every number of servers, names and    *)
(* requests: type correctness, for every fault and overlap; that a purge   *)
(* takes a data directory from under no other server, for every fault, as  *)
(* long as user requests do not overlap; and, when no requests overlap and *)
(* what fails is Docker or a server itself, that a listed server is        *)
(* controlled through its row, that a sync leaves the truth (if nothing    *)
(* exits under it), and that the servers are those of ServerCatalog.       *)
(*                                                                         *)
(* The first half sorts the actions into kinds of steps, which the         *)
(* invariants are then argued over; ScopeInv is behind the purges,         *)
(* OrderInv, with it, behind the rest.                                     *)
(***************************************************************************)
EXTENDS ServerLifecycle, TLAPS

-----------------------------------------------------------------------------
\* The inductive invariant behind PurgeScoped

\* Requests that go on to act on a row they have found in the table.
Owning == {"start", "stop", "softDelete", "purge", "restore", "rebuild", "apply"}
Owns(r) == Op(r) \in Owning \/ (Op(r) = "create" /\ ~At(r, "read"))

\* User requests do not overlap.
OneUser == \A p, q \in Requests :
  Op(p) \notin {"none", "sync"} /\ Op(q) \notin {"none", "sync"} => p = q

\* UNIQUE(agent_id, name).
NamesUnique == \A s, t \in Servers :
  InTable(s) /\ InTable(t) /\ rows[s].name = rows[t].name => s = t

\* A row somebody acts on stays in the table, under the name that was read.
Held == \A r \in Requests :
  Owns(r) => InTable(Srv(r)) /\ rows[Srv(r)].name = Seen(r).name

\* Only such a request asks for a creation or a removal.
Asked == \A r \in Requests :
  At(r, "send") /\ requests[r].asks \in {"create", "delete"} => Owns(r)

\* The id of a creation is new until its row is inserted.
Fresh == \A r \in Requests :
  Op(r) = "create" /\ At(r, "read") => rows[Srv(r)].status = "unborn"

\* Containers, and the commands that create them, carry the name of their row.
ContainersNamed == \A k \in containers :
  /\ rows[k.server].status # "unborn"
  /\ InTable(k.server) => rows[k.server].name = k.name
CreatesNamed == \A i \in 1 .. Len(queue) : queue[i].kind = "create" =>
  /\ rows[queue[i].server].status # "unborn"
  /\ InTable(queue[i].server) => rows[queue[i].server].name = queue[i].name

\* An answer goes to the request that waits for it, and only one can.
Heard == \A i \in 1 .. Len(queue) : queue[i].heard =>
  /\ At(queue[i].request, "wait")
  /\ \A j \in 1 .. Len(queue) : queue[j].heard /\ queue[j].request = queue[i].request => j = i

\* When the agent gets to a removal with its data, no other server of the table
\* has a container of that name: neither now nor by a creation ahead of it.
Wipes(c) == c.kind = "delete" /\ c.wipe
WipesScoped == \A i \in 1 .. Len(queue) : Wipes(queue[i]) =>
  /\ \A k \in containers :
       k.name = queue[i].name /\ InTable(k.server) => k.server = queue[i].server
  /\ \A j \in 1 .. i - 1 :
       queue[j].kind = "create" /\ queue[j].name = queue[i].name /\ InTable(queue[j].server)
         => queue[j].server = queue[i].server

\* A request that has ended is back where it began.
Ended == \A r \in Requests : Op(r) = "none" => At(r, "idle")

RequestsInv == OneUser /\ NamesUnique /\ Held /\ Asked /\ Fresh /\ Ended
HostInv == ContainersNamed /\ CreatesNamed /\ WipesScoped /\ Heard
ScopeInv == TypeOK /\ RequestsInv /\ HostInv

-----------------------------------------------------------------------------
\* The pieces of a step

LEMMA BlankType == Blank \in Row
<1>1. (CHOOSE n \in Names : TRUE) \in Names
  BY ServersAssumption
<1> QED
  BY <1>1 DEF Blank, Row, Statuses, NoId

LEMMA IdleType ==
  /\ Idle \in Request
  /\ Idle.op = "none" /\ Idle.at = "idle" /\ Idle.asks = "list" /\ Idle.read = Blank
<1>1. (CHOOSE s \in Servers : TRUE) \in Servers
  BY ServersAssumption
<1>2. [s \in Servers |-> Blank] \in [Servers -> Row]
  BY BlankType
<1> QED
  BY <1>1, <1>2, BlankType DEF Idle, Request, Kinds, NoId

\* What the table makes of a write: the same servers are in it, under the same
\* names, and the same ids are still unused.
RowsSame == \A s \in Servers :
  /\ InTable(s)' <=> InTable(s)
  /\ InTable(s) => rows'[s].name = rows[s].name
  /\ (rows'[s].status = "unborn") <=> (rows[s].status = "unborn")

LEMMA WriteSame ==
  ASSUME TypeOK, NEW s \in Servers, NEW row \in Row, row.name = rows[s].name,
         row.status \notin Gone \cup {"unborn"}, Write(s, row)
  PROVE  rows' \in [Servers -> Row] /\ RowsSame
<1>1. rows \in [Servers -> Row]
  BY DEF TypeOK
<1>2. CASE InTable(s)
  <2>1. rows' = [rows EXCEPT ![s] = row]
    BY <1>2 DEF Write
  <2>2. rows' \in [Servers -> Row]
    BY <1>1, <2>1
  <2>3. \A t \in Servers : rows'[t] = IF t = s THEN row ELSE rows[t]
    BY <1>1, <2>1
  <2> QED
    BY <1>2, <2>2, <2>3 DEF RowsSame, InTable
<1>3. CASE ~InTable(s)
  <2>1. rows' = rows
    BY <1>3 DEF Write
  <2> QED
    BY <1>1, <2>1 DEF RowsSame, InTable
<1> QED
  BY <1>2, <1>3

LEMMA SetStatusSame ==
  ASSUME TypeOK, NEW s \in Servers, NEW status \in Statuses \ (Gone \cup {"unborn"}),
         SetStatus(s, status)
  PROVE  rows' \in [Servers -> Row] /\ RowsSame
<1> DEFINE row == [rows[s] EXCEPT !.status = status]
<1>1. rows[s] \in Row
  BY DEF TypeOK
<1>2. row \in Row /\ row.name = rows[s].name /\ row.status = status
  BY <1>1 DEF Row
<1>3. Write(s, row)
  BY DEF SetStatus
<1> HIDE DEF row
<1> QED
  BY <1>2, <1>3, WriteSame

LEMMA SetRunningSame ==
  ASSUME TypeOK, NEW s \in Servers, NEW id \in Nat, SetRunning(s, id)
  PROVE  rows' \in [Servers -> Row] /\ RowsSame
<1> DEFINE row == [rows[s] EXCEPT !.status = "running", !.container = id]
<1>1. rows[s] \in Row
  BY DEF TypeOK
<1>2. row \in Row /\ row.name = rows[s].name /\ row.status = "running"
  BY <1>1 DEF Row, Statuses
<1>3. Write(s, row)
  BY DEF SetRunning
<1>4. "running" \notin Gone \cup {"unborn"}
  BY DEF Gone
<1> HIDE DEF row
<1> QED
  BY <1>2, <1>3, <1>4, WriteSame

LEMMA UnchangedSame ==
  ASSUME TypeOK, UNCHANGED rows
  PROVE  rows' \in [Servers -> Row] /\ RowsSame
  BY DEF TypeOK, RowsSame, InTable

LEMMA BecomeType ==
  ASSUME TypeOK, NEW r \in Requests, NEW q \in Request, Become(r, q)
  PROVE  /\ requests' \in [Requests -> Request]
         /\ \A p \in Requests : requests'[p] = IF p = r THEN q ELSE requests[p]
<1>1. requests \in [Requests -> Request]
  BY DEF TypeOK
<1> QED
  BY <1>1 DEF Become

\* What a request makes of itself: it ends, or goes on with the row it has.
Goes(r, q) ==
  /\ q.op = Op(r) /\ q.server = Srv(r) /\ q.read = Seen(r) /\ q.at # "read"
  /\ q.at = "send" /\ q.asks \in {"create", "delete"} => Owns(r) \/ Op(r) = "create"
Progress(r) == \E q \in Request : Become(r, q) /\ (q = Idle \/ Goes(r, q))

LEMMA FinishProgress ==
  ASSUME NEW r \in Requests, Finish(r)
  PROVE  Progress(r)
  BY IdleType DEF Finish, Progress

LEMMA AskProgress ==
  ASSUME TypeOK, NEW r \in Requests, NEW kind \in Kinds, Ask(r, kind),
         kind \in {"create", "delete"} => Owns(r) \/ Op(r) = "create"
  PROVE  Progress(r)
<1> DEFINE q == [requests[r] EXCEPT !.at = "send", !.asks = kind]
<1>1. requests[r] \in Request
  BY DEF TypeOK
<1>2. q \in Request /\ q.op = requests[r].op /\ q.server = requests[r].server
      /\ q.read = requests[r].read /\ q.at = "send" /\ q.asks = kind
  BY <1>1 DEF Request
<1>3. Become(r, q)
  BY DEF Ask
<1>4. Goes(r, q)
  BY <1>2 DEF Goes, Op, Srv, Seen
<1> HIDE DEF q
<1> QED
  BY <1>2, <1>3, <1>4 DEF Progress

LEMMA MovesOn ==
  ASSUME TypeOK, NEW r \in Requests, NEW at \in {"marked", "done", "rows"},
         NEW answer \in {"none", "ok", "error", "gone", "thrown", "unlisted"}, NEW todo \in SUBSET Servers,
         NEW q, q = [requests[r] EXCEPT !.at = at, !.answer = answer, !.todo = todo]
  PROVE  q \in Request /\ Goes(r, q)
<1>1. requests[r] \in Request
  BY DEF TypeOK
<1>2. q \in Request /\ q.op = requests[r].op /\ q.server = requests[r].server
      /\ q.read = requests[r].read /\ q.at = at
  BY <1>1 DEF Request
<1> QED
  BY <1>2 DEF Goes, Op, Srv, Seen

\* A step of a request that leaves the same servers in the table.
Steady(r) == rows' \in [Servers -> Row] /\ RowsSame /\ Progress(r) /\ Quiet

LEMMA SyncStatusType ==
  ASSUME NEW row \in Row, NEW found
  PROVE  SyncStatus(row, found) \in Statuses \ (Gone \cup {"unborn"})
  BY DEF SyncStatus, Statuses, Transient, Gone

LEMMA StatusesKept ==
  \A status \in {"creating", "rebuilding", "restarting", "running", "stopped", "failed", "missing"} :
    status \in Statuses \ (Gone \cup {"unborn"})
  BY DEF Statuses, Transient, Gone

LEMMA SteadySteps ==
  ASSUME TypeOK, NEW r \in Requests,
         \/ CreateDone(r) \/ StartExisting(r) \/ StartDone(r) \/ Recreate(r) \/ RecreateDone(r)
         \/ Stop(r) \/ StopDone(r) \/ ContainerDone(r)
         \/ SoftDelete(r) \/ SoftDeleteDone(r) \/ Purge(r) \/ Restore(r)
         \/ Rebuild(r) \/ RebuildDone(r) \/ ApplyDone(r)
         \/ SyncRead(r) \/ SyncListed(r) \/ \E s \in Servers : SyncNext(r, s)
  PROVE  Steady(r)
<1>1. requests[r] \in Request
  BY DEF TypeOK
<1>2. Srv(r) \in Servers /\ requests[r].made \in Nat
  BY <1>1 DEF Srv, Request
<1>3. rows[Srv(r)] \in Row
  BY <1>2 DEF TypeOK
<1>4. \A kind \in {"create", "delete", "rebuild", "start", "stop", "restart", "list"} : kind \in Kinds
  BY DEF Kinds
<1>5. CASE CreateDone(r)
  BY <1>5, <1>2, SetStatusSame, SetRunningSame, UnchangedSame, FinishProgress, StatusesKept
     DEF CreateDone, Steady
<1>6. CASE StartExisting(r)
  BY <1>6, <1>4, UnchangedSame, AskProgress DEF StartExisting, Steady
<1>7. CASE StartDone(r)
  BY <1>7, <1>2, SetStatusSame, UnchangedSame, FinishProgress, StatusesKept DEF StartDone, Steady
<1>8. CASE Recreate(r)
  <2>1. Owns(r)
    BY <1>8 DEF Recreate, Owns, Owning
  <2> QED
    BY <1>8, <2>1, <1>2, <1>4, SetStatusSame, AskProgress, StatusesKept DEF Recreate, Steady
<1>9. CASE RecreateDone(r)
  BY <1>9, <1>2, SetStatusSame, SetRunningSame, FinishProgress, StatusesKept
     DEF RecreateDone, Steady
<1>10. CASE Stop(r)
  BY <1>10, <1>4, UnchangedSame, AskProgress DEF Stop, Steady
<1>11. CASE StopDone(r)
  BY <1>11, <1>2, SetStatusSame, UnchangedSame, FinishProgress, StatusesKept DEF StopDone, Steady
<1>12. CASE ContainerDone(r)
  BY <1>12, UnchangedSame, FinishProgress DEF ContainerDone, Steady
<1>13. CASE SoftDelete(r)
  <2> DEFINE row == [rows[Srv(r)] EXCEPT !.status = "deleted", !.deletedAt = TRUE]
  <2>1. row \in Row /\ row.name = rows[Srv(r)].name /\ row.status = "deleted"
    BY <1>3 DEF Row, Statuses
  <2>2. Write(Srv(r), row)
    BY <1>13 DEF SoftDelete
  <2>3. "deleted" \notin Gone \cup {"unborn"}
    BY DEF Gone
  <2> HIDE DEF row
  <2>4. rows' \in [Servers -> Row] /\ RowsSame
    BY <1>2, <2>1, <2>2, <2>3, WriteSame
  <2>5. Owns(r)
    BY <1>13 DEF SoftDelete, Owns, Owning
  <2> QED
    BY <1>13, <1>4, <2>4, <2>5, AskProgress, FinishProgress DEF SoftDelete, Steady
<1>14. CASE SoftDeleteDone(r)
  BY <1>14, UnchangedSame, FinishProgress DEF SoftDeleteDone, Steady
<1>15. CASE Purge(r)
  <2>1. Owns(r)
    BY <1>15 DEF Purge, Owns, Owning
  <2>2. CASE Ask(r, "delete")
    BY <1>15, <1>4, <2>1, <2>2, UnchangedSame, AskProgress DEF Purge, Steady
  <2>3. CASE Become(r, Answered(r, "none"))
    <3>1. Answered(r, "none") = [requests[r] EXCEPT !.at = "done", !.answer = "none", !.todo = requests[r].todo]
      BY <1>1 DEF Answered, Request
    <3>2. requests[r].todo \in SUBSET Servers
      BY <1>1 DEF Request
    <3>3. Answered(r, "none") \in Request /\ Goes(r, Answered(r, "none"))
      BY <3>1, <3>2, MovesOn
    <3> QED
      BY <1>15, <2>3, <3>3, UnchangedSame DEF Purge, Steady, Progress
  <2> QED
    BY <1>15, <2>2, <2>3 DEF Purge
<1>16. CASE Restore(r)
  <2> DEFINE row == [rows[Srv(r)] EXCEPT !.status = "missing", !.deletedAt = FALSE]
             q == [requests[r] EXCEPT !.at = "marked"]
  <2>1. row \in Row /\ row.name = rows[Srv(r)].name /\ row.status = "missing"
    BY <1>3 DEF Row, Statuses
  <2>2. Write(Srv(r), row) /\ Become(r, q)
    BY <1>16 DEF Restore
  <2>3. "missing" \notin Gone \cup {"unborn"}
    BY DEF Gone
  <2>4. q = [requests[r] EXCEPT !.at = "marked", !.answer = requests[r].answer, !.todo = requests[r].todo]
        /\ requests[r].todo \in SUBSET Servers
        /\ requests[r].answer \in {"none", "ok", "error", "gone", "thrown", "unlisted"}
    BY <1>1 DEF Request
  <2>5. q \in Request /\ Goes(r, q)
    <3> HIDE DEF q
    <3> QED
      BY <2>4, MovesOn
  <2> HIDE DEF row, q
  <2>6. rows' \in [Servers -> Row] /\ RowsSame
    BY <1>2, <2>1, <2>2, <2>3, WriteSame
  <2> QED
    BY <1>16, <2>2, <2>5, <2>6 DEF Restore, Steady, Progress
<1>17. CASE Rebuild(r)
  BY <1>17, <1>2, <1>4, SetStatusSame, AskProgress, StatusesKept DEF Rebuild, Steady
<1>18. CASE RebuildDone(r)
  BY <1>18, <1>2, SetStatusSame, SetRunningSame, UnchangedSame, FinishProgress, StatusesKept
     DEF RebuildDone, Steady
<1>19. CASE ApplyDone(r)
  <2>1. Owns(r)
    BY <1>19 DEF ApplyDone, Resumes, Owns, Owning
  <2> QED
    BY <1>19, <2>1, <1>2, <1>4, SetStatusSame, SetRunningSame, UnchangedSame, FinishProgress,
       AskProgress, StatusesKept DEF ApplyDone, Steady
<1>20. CASE SyncRead(r)
  <2> DEFINE q == [requests[r] EXCEPT !.at = "send", !.asks = "list", !.table = rows, !.todo = Table]
  <2>1. Table \in SUBSET Servers /\ rows \in [Servers -> Row]
    BY DEF Table, TypeOK
  <2>2. q \in Request /\ q.op = requests[r].op /\ q.server = requests[r].server
        /\ q.read = requests[r].read /\ q.at = "send" /\ q.asks = "list"
    BY <1>1, <2>1 DEF Request, Kinds
  <2>3. Goes(r, q)
    BY <2>2 DEF Goes, Op, Srv, Seen
  <2>4. Finish(r) \/ Become(r, q)
    BY <1>20 DEF SyncRead
  <2> HIDE DEF q
  <2>5. Progress(r)
    BY <2>2, <2>3, <2>4, FinishProgress DEF Progress
  <2> QED
    BY <1>20, <2>5, UnchangedSame DEF SyncRead, Steady
<1>21. CASE SyncListed(r)
  <2> DEFINE q == [requests[r] EXCEPT !.at = "rows"]
  <2>1. q = [requests[r] EXCEPT !.at = "rows", !.answer = requests[r].answer, !.todo = requests[r].todo]
        /\ requests[r].todo \in SUBSET Servers
        /\ requests[r].answer \in {"none", "ok", "error", "gone", "thrown", "unlisted"}
    BY <1>1 DEF Request
  <2>2. Finish(r) \/ Become(r, q)
    BY <1>21 DEF SyncListed
  <2> HIDE DEF q
  <2>3. q \in Request /\ Goes(r, q)
    BY <2>1, MovesOn
  <2>4. Progress(r)
    BY <2>2, <2>3, FinishProgress DEF Progress
  <2> QED
    BY <1>21, <2>4, UnchangedSame DEF SyncListed, Steady
<1>22. ASSUME NEW s \in Servers, SyncNext(r, s) PROVE Steady(r)
  <2> DEFINE rest == requests[r].todo \ {s}
             q == [requests[r] EXCEPT !.todo = rest]
             status == SyncStatus(requests[r].table[s], requests[r].found)
  <2>1. rest \in SUBSET Servers /\ requests[r].at = "rows" /\ requests[r].table[s] \in Row
        /\ requests[r].answer \in {"none", "ok", "error", "gone", "thrown", "unlisted"}
    BY <1>1, <1>22 DEF SyncNext, At, Request
  <2>2. q = [requests[r] EXCEPT !.at = "rows", !.answer = requests[r].answer, !.todo = rest]
    BY <1>1, <2>1 DEF Request
  <2>3. q \in Request /\ Goes(r, q)
    <3> HIDE DEF q, rest
    <3> QED
      BY <2>1, <2>2, MovesOn
  <2>4. Finish(r) \/ Become(r, q)
    BY <1>22 DEF SyncNext
  <2>5. Progress(r)
    <3> HIDE DEF q, rest
    <3> QED
      BY <2>3, <2>4, FinishProgress DEF Progress
  <2>6. status \in Statuses \ (Gone \cup {"unborn"})
    BY <2>1, SyncStatusType
  <2>7. SetStatus(s, status) \/ UNCHANGED rows
    BY <1>22 DEF SyncNext
  <2>8. rows' \in [Servers -> Row] /\ RowsSame
    <3> HIDE DEF status
    <3> QED
      BY <2>6, <2>7, SetStatusSame, UnchangedSame
  <2> QED
    BY <1>22, <2>5, <2>8 DEF SyncNext, Steady
<1> QED
  BY <1>5, <1>6, <1>7, <1>8, <1>9, <1>10, <1>11, <1>12, <1>13, <1>14, <1>15, <1>16, <1>17, <1>18,
     <1>19, <1>20, <1>21, <1>22

\* None of them waits for an answer, and none is about to insert a row.
LEMMA NotWaiting ==
  ASSUME NEW r \in Requests,
         \/ CreateDone(r) \/ StartExisting(r) \/ StartDone(r) \/ Recreate(r) \/ RecreateDone(r)
         \/ Stop(r) \/ StopDone(r) \/ ContainerDone(r)
         \/ SoftDelete(r) \/ SoftDeleteDone(r) \/ Purge(r) \/ Restore(r)
         \/ Rebuild(r) \/ RebuildDone(r) \/ ApplyDone(r)
         \/ SyncRead(r) \/ SyncListed(r) \/ \E s \in Servers : SyncNext(r, s)
  PROVE  ~At(r, "wait") /\ ~At(r, "idle") /\ ~(Op(r) = "create" /\ At(r, "read"))
  BY DEF CreateDone, StartExisting, StartDone, Recreate, RecreateDone, Stop, StopDone, ContainerDone,
     SoftDelete, SoftDeleteDone, Purge, Restore, Rebuild, RebuildDone, ApplyDone, SyncRead,
     SyncListed, SyncNext, Resumes, At

\* A request that has just arrived.
Opening(q) ==
  /\ q.op # "none"
  /\ q.op \in Owning => InTable(q.server) /\ q.read = rows[q.server]
  /\ q.op = "create" => q.at = "read" /\ rows[q.server].status = "unborn"
  /\ q.op = "create" => q.read.container = rows[q.server].container
  /\ q.at \in {"read", "send", "rows"} /\ (q.at = "send" => q.asks \notin {"create", "delete"})
  /\ q.op \in Owning \cup {"create"} => q.at = "read" /\ q.asks = "list"
  /\ q.op = "stop" => q.read.status = "running"
  /\ q.op = "restore" => q.read.status = "deleted"
  /\ q.op = "container" => q.asks \in {"start", "stop", "restart"}
  /\ q.op = "cleanup" => q.at = "rows" /\ \A s \in q.todo : rows[s].status = "failed"
  /\ q.op = "sync" => q.at = "read"
Arrives(r) ==
  /\ \E q \in Request : Opening(q) /\ MayOverlap(q.op) /\ Become(r, q)
  /\ Op(r) = "none"
  /\ received < MaxRequests /\ received' = received + 1
  /\ online' \in BOOLEAN
  /\ UNCHANGED <<rows, queue, hostVars>>

LEMMA OpenedType ==
  ASSUME TypeOK, NEW op \in Ops, NEW s \in Servers
  PROVE  /\ Opened(op, s) \in Request
         /\ Opened(op, s).op = op /\ Opened(op, s).at = "read"
         /\ Opened(op, s).server = s /\ Opened(op, s).read = rows[s] /\ Opened(op, s).asks = "list"
<1>1. rows[s] \in Row
  BY DEF TypeOK
<1>2. Idle \in Request
  BY IdleType
<1>3. Idle.asks = "list"
  BY IdleType
<1> QED
  BY <1>1, <1>2, <1>3 DEF Opened, Request

LEMMA ReceiveArrives ==
  ASSUME TypeOK, NEW r \in Requests, NEW q \in Request, Opening(q), Receive(r, q)
  PROVE  Arrives(r)
  BY DEF Receive, Arrives, TypeOK, hostVars

LEMMA BeginArrives ==
  ASSUME TypeOK, NEW r \in Requests, Begin(r)
  PROVE  Arrives(r)
<1> USE DEF Opening
<1>o. \A op \in {"create", "start", "stop", "softDelete", "purge", "restore", "rebuild", "apply", "container"} :
        op \in Ops
  BY DEF Ops
<1>1. ASSUME NEW s \in Servers, NEW n \in Names, BeginCreate(r, s, n) PROVE Arrives(r)
  <2> DEFINE q == [Opened("create", s) EXCEPT !.read.name = n]
  <2>1. PICK o \in Request : o = Opened("create", s) /\ o.op = "create" /\ o.at = "read" /\ o.server = s
                           /\ o.asks = "list" /\ o.read = rows[s]
    BY <1>o, OpenedType
  <2>2. q = [o EXCEPT !.read.name = n]
    BY <2>1
  <2>4. /\ q \in Request /\ q.op = "create" /\ q.at = "read" /\ q.server = s
        /\ q.asks = "list" /\ q.read.container = rows[s].container
    <3> HIDE DEF q
    <3> QED
      BY <2>1, <2>2 DEF Request, Row
  <2>3. Receive(r, q) /\ rows[s].status = "unborn"
    BY <1>1 DEF BeginCreate
  <2> HIDE DEF q
  <2> QED
    BY <2>3, <2>4, ReceiveArrives DEF Owning
<1>2. ASSUME NEW s \in Servers, NEW op \in Owning \ {"purge"}, InTable(s), Receive(r, Opened(op, s)),
             op = "stop" => rows[s].status = "running", op = "restore" => rows[s].status = "deleted"
      PROVE  Arrives(r)
  BY <1>2, <1>o, OpenedType, ReceiveArrives DEF Owning
<1>3. ASSUME NEW s \in Servers, NEW removeData \in BOOLEAN, BeginPurge(r, s, removeData) PROVE Arrives(r)
  <2> DEFINE q == [Opened("purge", s) EXCEPT !.wipe = removeData]
  <2>3. PICK o \in Request : o = Opened("purge", s) /\ o.op = "purge" /\ o.at = "read" /\ o.server = s
                           /\ o.asks = "list" /\ o.read = rows[s]
    BY <1>o, OpenedType
  <2>1. /\ q \in Request /\ q.op = "purge" /\ q.at = "read" /\ q.server = s /\ q.read = rows[s]
        /\ q.asks = "list"
    BY <2>3 DEF Request
  <2>2. InTable(s) /\ Receive(r, q)
    BY <1>3 DEF BeginPurge
  <2> HIDE DEF q
  <2> QED
    BY <2>1, <2>2, ReceiveArrives DEF Owning
<1>4. ASSUME NEW s \in Servers, NEW kind \in Kinds, BeginContainer(r, s, kind) PROVE Arrives(r)
  <2> DEFINE q == [Opened("container", s) EXCEPT !.at = "send", !.asks = kind]
  <2>3. PICK o \in Request : o = Opened("container", s) /\ o.op = "container"
    BY <1>o, OpenedType
  <2>4. q = [o EXCEPT !.at = "send", !.asks = kind]
    BY <2>3
  <2>1. q \in Request /\ q.op = "container" /\ q.at = "send" /\ q.asks = kind
    <3> HIDE DEF q
    <3> QED
      BY <2>3, <2>4 DEF Request
  <2>2. kind \in {"stop", "restart"} /\ Receive(r, q)
    BY <1>4 DEF BeginContainer
  <2> HIDE DEF q
  <2> QED
    BY <2>1, <2>2, ReceiveArrives DEF Owning
<1>5. ASSUME NEW k \in containers, BeginContainerStart(r, k) PROVE Arrives(r)
  <2> DEFINE q == [Idle EXCEPT !.op = "container", !.at = "send", !.asks = "start",
                               !.read.container = k.id]
  <2>1. k.id \in Nat
    BY DEF TypeOK, Container
  <2>2. Idle \in Request
    BY IdleType
  <2>3. q \in Request /\ q.op = "container" /\ q.at = "send" /\ q.asks = "start"
    BY <2>1, <2>2, <1>o DEF Request, Row, Kinds
  <2>4. Receive(r, q)
    BY <1>5 DEF BeginContainerStart
  <2> HIDE DEF q
  <2> QED
    BY <2>3, <2>4, ReceiveArrives DEF Owning
<1>6. ASSUME BeginCleanup(r) PROVE Arrives(r)
  <2> DEFINE failed == {s \in Table : rows[s].status = "failed"}
             q == [Idle EXCEPT !.op = "cleanup", !.at = "rows", !.todo = failed]
  <2>1. failed \in SUBSET Servers
    BY DEF Table
  <2>2. q \in Request /\ q.op = "cleanup" /\ q.at = "rows" /\ q.todo = failed
    BY <2>1, IdleType DEF Request, Ops
  <2>3. Receive(r, q)
    BY <1>6 DEF BeginCleanup
  <2> HIDE DEF q
  <2> QED
    BY <2>2, <2>3, ReceiveArrives DEF Owning
<1>7. ASSUME BeginSync(r) PROVE Arrives(r)
  <2> DEFINE q == [Idle EXCEPT !.op = "sync", !.at = "read"]
  <2>1. q \in Request /\ q.op = "sync" /\ q.at = "read"
    BY IdleType DEF Request, Ops
  <2>2. Receive(r, q)
    BY <1>7 DEF BeginSync
  <2> HIDE DEF q
  <2> QED
    BY <2>1, <2>2, ReceiveArrives DEF Owning
<1>8. \A op \in {"start", "stop", "softDelete", "restore", "rebuild", "apply"} : op \in Owning \ {"purge"}
  BY DEF Owning
<1>9. ASSUME NEW s \in Servers,
             BeginStart(r, s) \/ BeginStop(r, s) \/ BeginSoftDelete(r, s)
             \/ BeginRestore(r, s) \/ BeginRebuild(r, s) \/ BeginApply(r, s)
      PROVE  Arrives(r)
  <2>1. \E op \in Owning \ {"purge"} :
          /\ InTable(s) /\ Receive(r, Opened(op, s))
          /\ op = "stop" => rows[s].status = "running"
          /\ op = "restore" => rows[s].status = "deleted"
    BY <1>9, <1>8 DEF BeginStart, BeginStop, BeginSoftDelete, BeginRestore, BeginRebuild, BeginApply
  <2> QED
    BY <2>1, <1>2
<1> QED
  BY <1>1, <1>3, <1>4, <1>5, <1>6, <1>7, <1>9 DEF Begin

LEMMA RegisterArrives ==
  ASSUME TypeOK, NEW r \in Requests, Register(r)
  PROVE  Arrives(r)
<1> DEFINE q == [Idle EXCEPT !.op = "sync", !.at = "read"]
<1>1. q \in Request /\ q.op = "sync" /\ q.at = "read"
  BY IdleType DEF Request, Ops
<1>2. Become(r, q)
  BY DEF Register
<1> HIDE DEF q
<1>3. Opening(q)
  BY <1>1 DEF Opening, Owning
<1> QED
  BY <1>1, <1>2, <1>3 DEF Register, Arrives, hostVars

\* The queue after its answers have been given up.
LEMMA UnheardType ==
  ASSUME NEW cmds \in Seq(Command), NEW R
  PROVE  /\ Unheard(cmds, R) \in Seq(Command)
         /\ Len(Unheard(cmds, R)) = Len(cmds)
         /\ \A i \in 1 .. Len(cmds) :
              LET c == cmds[i]  d == Unheard(cmds, R)[i] IN
              /\ d.kind = c.kind /\ d.server = c.server /\ d.name = c.name
              /\ d.wipe = c.wipe /\ d.request = c.request
              /\ d.heard => c.heard /\ c.request \notin R
<1> DEFINE Mute(c) == IF c.request \in R THEN [c EXCEPT !.heard = FALSE] ELSE c
<1>1. ASSUME NEW c \in Command
      PROVE  /\ Mute(c) \in Command
             /\ Mute(c).kind = c.kind /\ Mute(c).server = c.server /\ Mute(c).name = c.name
             /\ Mute(c).wipe = c.wipe /\ Mute(c).request = c.request
             /\ Mute(c).heard => c.heard /\ c.request \notin R
  BY DEF Command
<1>2. Unheard(cmds, R) = [i \in 1 .. Len(cmds) |-> Mute(cmds[i])]
  BY DEF Unheard
<1>3. \A i \in 1 .. Len(cmds) : cmds[i] \in Command
  OBVIOUS
<1> HIDE DEF Mute
<1>4. \A i \in 1 .. Len(cmds) : Unheard(cmds, R)[i] = Mute(cmds[i])
  BY <1>2
<1>5. Unheard(cmds, R) \in Seq(Command) /\ Len(Unheard(cmds, R)) = Len(cmds)
  BY <1>1, <1>2, <1>3
<1> QED
  BY <1>1, <1>3, <1>4, <1>5

\* A queue whose commands are those of another, up to some point, less heard.
Muffles(R) == \E n \in 0 .. Len(queue) :
  /\ queue' \in Seq(Command) /\ Len(queue') = n
  /\ \A i \in 1 .. n :
       /\ queue'[i].kind = queue[i].kind /\ queue'[i].server = queue[i].server
       /\ queue'[i].name = queue[i].name /\ queue'[i].wipe = queue[i].wipe
       /\ queue'[i].request = queue[i].request
       /\ queue'[i].heard => queue[i].heard /\ queue[i].request \notin R

LEMMA TimeoutMuffles ==
  ASSUME TypeOK, NEW r \in Requests, Timeout(r)
  PROVE  Muffles({r})
<1>1. queue \in Seq(Command) /\ Len(queue) \in Nat
  BY DEF TypeOK
<1>2. queue' = Unheard(queue, {r})
  BY DEF Timeout
<1> QED
  BY <1>1, <1>2, UnheardType DEF Muffles

LEMMA CutMuffles ==
  ASSUME TypeOK, Cut
  PROVE  Muffles(Requests)
<1>1. queue \in Seq(Command) /\ Len(queue) \in Nat
  BY DEF TypeOK
<1>2. PICK n \in 0 .. Len(queue) : queue' = Unheard(SubSeq(queue, 1, n), Requests)
  BY DEF Cut
<1> DEFINE head == SubSeq(queue, 1, n)
<1>3. head \in Seq(Command) /\ Len(head) = n /\ \A i \in 1 .. n : head[i] = queue[i]
  BY <1>1, <1>2
<1> HIDE DEF head
<1>4. queue' = Unheard(head, Requests)
  BY <1>2 DEF head
<1> QED
  BY <1>2, <1>3, <1>4, UnheardType DEF Muffles

LEMMA AnsweredType ==
  ASSUME TypeOK, NEW r \in Requests, NEW answer \in {"none", "ok", "error", "gone", "thrown", "unlisted"}
  PROVE  Answered(r, answer) \in Request /\ Goes(r, Answered(r, answer))
         /\ Answered(r, answer).at = "done"
<1>1. requests[r] \in Request
  BY DEF TypeOK
<1>2. Answered(r, answer) = [requests[r] EXCEPT !.at = "done", !.answer = answer, !.todo = requests[r].todo]
      /\ requests[r].todo \in SUBSET Servers
  BY <1>1 DEF Answered, Request
<1>3. Answered(r, answer).at = "done"
  BY <1>1 DEF Answered, Request
<1> QED
  BY <1>2, <1>3, MovesOn

\* The agent's answer: the first command is off the queue and the request that
\* waited for it, if any, goes on.
LEMMA ReplyType ==
  ASSUME TypeOK, queue # <<>>, NEW answer \in {"ok", "error", "gone", "unlisted"}, NEW made \in Nat,
         NEW found \in SUBSET Container, Reply(answer, made, found)
  PROVE  /\ Head(queue) = queue[1] /\ queue[1] \in Command /\ Len(queue) \in Nat \ {0}
         /\ queue' \in Seq(Command) /\ Len(queue') = Len(queue) - 1
         /\ \A i \in 1 .. Len(queue') : queue'[i] = queue[i + 1]
         /\ requests' \in [Requests -> Request]
         /\ \A p \in Requests :
              \/ requests'[p] = requests[p] /\ ~(queue[1].heard /\ queue[1].request = p)
              \/ /\ queue[1].heard /\ queue[1].request = p
                 /\ Op(p)' = Op(p) /\ Srv(p)' = Srv(p) /\ Seen(p)' = Seen(p) /\ At(p, "done")'
         /\ UNCHANGED <<rows, online, received>>
<1> DEFINE c == queue[1]
           q == [requests[c.request] EXCEPT !.at = "done", !.answer = answer, !.made = made, !.found = found]
<1>1. queue \in Seq(Command) /\ requests \in [Requests -> Request]
  BY DEF TypeOK
<1>2. Head(queue) = c /\ c \in Command /\ Len(queue) \in Nat \ {0}
  BY <1>1
<1>3. /\ queue' \in Seq(Command) /\ Len(queue') = Len(queue) - 1
      /\ \A i \in 1 .. Len(queue') : queue'[i] = queue[i + 1]
  BY <1>1 DEF Reply
<1>4. c.request \in Requests /\ requests[c.request] \in Request
  BY <1>1, <1>2 DEF Command
<1>5. /\ q \in Request /\ q.op = requests[c.request].op /\ q.server = requests[c.request].server
      /\ q.read = requests[c.request].read /\ q.at = "done"
  BY <1>4 DEF Request
<1>6. requests' = IF c.heard THEN [requests EXCEPT ![c.request] = q] ELSE requests
  BY <1>2 DEF Reply
<1>7. UNCHANGED <<rows, online, received>>
  BY DEF Reply
<1> HIDE DEF c, q
<1>8. requests' \in [Requests -> Request]
  BY <1>1, <1>4, <1>5, <1>6
<1>9. \A p \in Requests :
        \/ requests'[p] = requests[p] /\ ~(c.heard /\ c.request = p)
        \/ /\ c.heard /\ c.request = p
           /\ Op(p)' = Op(p) /\ Srv(p)' = Srv(p) /\ Seen(p)' = Seen(p) /\ At(p, "done")'
  BY <1>1, <1>4, <1>5, <1>6 DEF Op, Srv, Seen, At
<1> QED
  BY <1>2, <1>3, <1>7, <1>8, <1>9 DEF c

\* What carrying out a command does: it is answered; containers change, stop or
\* go, or one comes up in the name of a creation.
Kin(k) == \E o \in containers : o.server = k.server /\ o.name = k.name
Carried ==
  /\ queue # <<>>
  /\ \E answer \in {"ok", "error", "gone", "unlisted"}, made \in Nat, found \in SUBSET Container :
       Reply(answer, made, found)
  /\ containers' \in SUBSET Container
  /\ \A k \in containers' :
       Kin(k) \/ (Head(queue).kind = "create" /\ k.server = Head(queue).server /\ k.name = Head(queue).name)
  /\ born' \in Nat \ {NoId}
  /\ \/ UNCHANGED directories
     \/ Head(queue).kind = "create" /\ directories' = directories \cup {Head(queue).name}
     \/ Wipes(Head(queue)) /\ directories' = directories \ {Head(queue).name}

LEMMA AgentCarries ==
  ASSUME TypeOK, AgentStep
  PROVE  Carried
<1> DEFINE c == Head(queue)
<1>1. containers \in SUBSET Container /\ born \in Nat \ {NoId} /\ born + 1 \in Nat \ {NoId}
      /\ {} \in SUBSET Container /\ NoId \in Nat
  BY DEF TypeOK, NoId
<1>2. queue # <<>>
  BY DEF AgentStep, AgentCreate, AgentDelete, AgentRebuild, AgentPower, AgentList, Carries
<1>3. c \in Command
  BY <1>2 DEF TypeOK
<1>4. \A k \in containers : Kin(k)
  BY DEF Kin
<1>5. \A k \in containers : \A up \in BOOLEAN :
        LET o == [k EXCEPT !.up = up] IN o \in Container /\ Kin(o)
  BY <1>1 DEF Kin, Container
<1>6. ASSUME NEW s \in Servers, NEW n \in Names
      PROVE  LET k == NewContainer(s, n) IN k \in Container /\ k.server = s /\ k.name = n
  BY <1>1 DEF NewContainer, Container
<1>7. CASE AgentCreate
  <2>1. c.kind = "create" /\ c.server \in Servers /\ c.name \in Names
    BY <1>3, <1>7 DEF AgentCreate, Carries, Command
  <2> HIDE DEF c
  <2>2. CASE Reply("error", NoId, {}) /\ UNCHANGED hostVars
    BY <2>2, <1>1, <1>2, <1>4 DEF Carried, hostVars
  <2>3. CASE directories' = directories \cup {c.name} /\ Reply("error", NoId, {}) /\ UNCHANGED <<containers, born>>
    BY <2>1, <2>3, <1>1, <1>2, <1>4 DEF Carried, c
  <2>4. CASE /\ directories' = directories \cup {c.name}
             /\ containers' = containers \cup {NewContainer(c.server, c.name)}
             /\ born' = born + 1
             /\ Reply("ok", born, {})
    <3> DEFINE new == NewContainer(c.server, c.name)
    <3>1. new \in Container /\ new.server = c.server /\ new.name = c.name
      BY <2>1, <1>6
    <3>2. containers' = containers \cup {new}
      BY <2>4
    <3> HIDE DEF new
    <3> QED
      BY <2>1, <2>4, <3>1, <3>2, <1>1, <1>2, <1>4 DEF Carried, c
  <2> QED
    BY <1>7, <2>2, <2>3, <2>4 DEF AgentCreate, c
<1>8. CASE AgentDelete
  <2>1. c.kind = "delete" /\ c.wipe \in BOOLEAN
    BY <1>3, <1>8 DEF AgentDelete, Carries, Command
  <2> HIDE DEF c
  <2>2. containers' \in SUBSET Container /\ \A k \in containers' : Kin(k)
    <3>1. CASE containers' = containers \ WithId(c.container)
      BY <3>1, <1>1, <1>4
    <3>2. CASE UNCHANGED containers
      BY <3>2, <1>1, <1>4
    <3>3. CASE containers' = {IF k.id = c.container THEN [k EXCEPT !.up = FALSE] ELSE k : k \in containers}
      BY <3>3, <1>1, <1>4, <1>5
    <3> QED
      BY <1>8, <3>1, <3>2, <3>3 DEF AgentDelete, c
  <2>3. Reply("ok", NoId, {}) \/ Reply("error", NoId, {})
    BY <1>8 DEF AgentDelete
  <2>4. \/ UNCHANGED directories
        \/ c.wipe /\ directories' = directories \ {c.name}
    BY <1>8 DEF AgentDelete, c
  <2>5. UNCHANGED born
    BY <1>8 DEF AgentDelete
  <2> QED
    BY <2>1, <2>2, <2>3, <2>4, <2>5, <1>1, <1>2 DEF Carried, Wipes, c
<1>9. CASE AgentRebuild
  <2> DEFINE old == WithId(c.container)
             stopped == {[k EXCEPT !.up = FALSE] : k \in old}
             new == {NewContainer(k.server, k.name) : k \in old}
  <2>1. old \subseteq containers
    BY DEF WithId
  <2>2. \A k \in stopped : k \in Container /\ Kin(k)
    BY <2>1, <1>5
  <2>3. \A k \in new : k \in Container /\ Kin(k)
    <3> SUFFICES ASSUME NEW o \in old
                 PROVE  LET k == NewContainer(o.server, o.name) IN k \in Container /\ Kin(k)
      OBVIOUS
    <3>1. o \in containers /\ o.server \in Servers /\ o.name \in Names
      BY <2>1, <1>1 DEF Container
    <3> QED
      BY <3>1, <1>6 DEF Kin
  <2>4. /\ \/ UNCHANGED containers
           \/ containers' = containers \ old
           \/ containers' = (containers \ old) \cup stopped
           \/ containers' = (containers \ old) \cup new
        /\ Reply("gone", NoId, {}) \/ Reply("error", NoId, {}) \/ Reply("ok", born, {})
        /\ UNCHANGED directories
        /\ born' = born \/ born' = born + 1
    BY <1>9 DEF AgentRebuild, hostVars
  <2> HIDE DEF old, stopped, new
  <2>5. containers' \in SUBSET Container /\ \A k \in containers' : Kin(k)
    BY <2>1, <2>2, <2>3, <2>4, <1>1, <1>4
  <2> QED
    BY <2>4, <2>5, <1>1, <1>2 DEF Carried
<1>10. CASE AgentPower
  <2> DEFINE old == WithId(c.container)
             turned == {[k EXCEPT !.up = (c.kind # "stop")] : k \in old}
  <2>1. old \subseteq containers
    BY DEF WithId
  <2>2. \A k \in turned : k \in Container /\ Kin(k)
    BY <2>1, <1>5
  <2>3. /\ UNCHANGED containers \/ containers' = (containers \ old) \cup turned
        /\ Reply("error", NoId, {}) \/ Reply("ok", NoId, {})
        /\ UNCHANGED <<directories, born>>
    BY <1>10 DEF AgentPower
  <2> HIDE DEF old, turned
  <2>4. containers' \in SUBSET Container /\ \A k \in containers' : Kin(k)
    BY <2>1, <2>2, <2>3, <1>1, <1>4
  <2> QED
    BY <2>3, <2>4, <1>1, <1>2 DEF Carried
<1>11. CASE AgentList
  BY <1>11, <1>1, <1>2, <1>4 DEF AgentList, Carried, hostVars
<1> QED
  BY <1>7, <1>8, <1>9, <1>10, <1>11 DEF AgentStep

-----------------------------------------------------------------------------
\* Type correctness

LEMMA SteadyType ==
  ASSUME TypeOK, NEW r \in Requests, Steady(r)
  PROVE  TypeOK'
  BY BecomeType DEF Steady, Progress, Quiet, hostVars, TypeOK

LEMMA ArrivesType ==
  ASSUME TypeOK, NEW r \in Requests, Arrives(r)
  PROVE  TypeOK'
<1>1. requests' \in [Requests -> Request]
  BY BecomeType DEF Arrives
<1>2. received' \in 0 .. MaxRequests
  BY BoundsAssumption DEF Arrives, TypeOK
<1> QED
  BY <1>1, <1>2 DEF Arrives, hostVars, TypeOK

\* A row that is inserted, and one that is erased.
Inserts(r) ==
  /\ Op(r) = "create" /\ ~NameTaken(Seen(r).name)
  /\ rows' = [rows EXCEPT ![Srv(r)] = [Seen(r) EXCEPT !.status = "creating"]]
  /\ Ask(r, "create") /\ Quiet
Erases(r, s) ==
  /\ Op(r) \in {"purge", "cleanup"} /\ ~At(r, "wait") /\ s \in Servers
  /\ \E how \in Gone : Erase(s, how)
  /\ \E q \in Request : Become(r, q) /\ (q = Idle \/ (q.op = "cleanup" /\ q.at = "rows"))
  /\ Quiet

LEMMA CreateInsertCases ==
  ASSUME TypeOK, NEW r \in Requests, CreateInsert(r)
  PROVE  (Steady(r) /\ Finish(r)) \/ Inserts(r)
<1>1. CASE NameTaken(Seen(r).name)
  BY <1>1, FinishProgress, UnchangedSame DEF CreateInsert, Steady
<1>2. CASE ~NameTaken(Seen(r).name)
  BY <1>2 DEF CreateInsert, Inserts
<1> QED
  BY <1>1, <1>2

LEMMA ErasesRows ==
  ASSUME TypeOK, NEW r \in Requests,
         PurgeDone(r) \/ \E s \in Servers : CleanupNext(r, s)
  PROVE  \E s \in Servers : Erases(r, s)
<1>1. requests[r] \in Request
  BY DEF TypeOK
<1>2. CASE PurgeDone(r)
  <2>1. Srv(r) \in Servers
    BY <1>1 DEF Srv, Request
  <2>2. "purged" \in Gone
    BY DEF Gone
  <2> QED
    BY <1>2, <2>1, <2>2, IdleType DEF PurgeDone, Erases, Finish, At
<1>3. ASSUME NEW s \in Servers, CleanupNext(r, s) PROVE Erases(r, s)
  <2> DEFINE q == [requests[r] EXCEPT !.todo = requests[r].todo \ {s}]
  <2>1. Op(r) = "cleanup" /\ At(r, "rows")
    BY <1>3 DEF CleanupNext
  <2>2. q \in Request /\ q.op = "cleanup" /\ q.at = "rows"
    BY <1>1, <2>1 DEF Request, Op, At
  <2>3. Finish(r) \/ Become(r, q)
    BY <1>3 DEF CleanupNext
  <2> HIDE DEF q
  <2>4. \E p \in Request : Become(r, p) /\ (p = Idle \/ (p.op = "cleanup" /\ p.at = "rows"))
    BY <2>2, <2>3, IdleType DEF Finish
  <2>5. Erase(s, "cleaned") /\ "cleaned" \in Gone /\ Quiet
    BY <1>3 DEF CleanupNext, Gone
  <2> QED
    BY <2>1, <2>4, <2>5 DEF Erases, At
<1> QED
  BY <1>2, <1>3

LEMMA InsertsType ==
  ASSUME TypeOK, NEW r \in Requests, Inserts(r)
  PROVE  /\ TypeOK'
         /\ LET row == [Seen(r) EXCEPT !.status = "creating"] IN
            /\ row.name = Seen(r).name /\ row.status = "creating"
            /\ \A t \in Servers : rows'[t] = IF t = Srv(r) THEN row ELSE rows[t]
         /\ \E q \in Request :
              /\ q.op = "create" /\ q.at = "send" /\ q.server = Srv(r) /\ q.read = Seen(r)
              /\ \A p \in Requests : requests'[p] = IF p = r THEN q ELSE requests[p]
<1> DEFINE row == [Seen(r) EXCEPT !.status = "creating"]
           q == [requests[r] EXCEPT !.at = "send", !.asks = "create"]
<1>1. requests[r] \in Request /\ rows \in [Servers -> Row]
  BY DEF TypeOK
<1>2. Seen(r) \in Row /\ Srv(r) \in Servers
  BY <1>1 DEF Seen, Srv, Request
<1>3. row \in Row /\ row.name = Seen(r).name /\ row.status = "creating"
  BY <1>2 DEF Row, Statuses, Transient
<1>4. q \in Request /\ q.op = "create" /\ q.at = "send" /\ q.server = Srv(r) /\ q.read = Seen(r)
  BY <1>1 DEF Inserts, Request, Op, Srv, Seen, Kinds
<1>5. Become(r, q) /\ rows' = [rows EXCEPT ![Srv(r)] = row]
  BY DEF Inserts, Ask
<1> HIDE DEF row, q
<1>6. rows' \in [Servers -> Row] /\ \A t \in Servers : rows'[t] = IF t = Srv(r) THEN row ELSE rows[t]
  BY <1>1, <1>2, <1>3, <1>5
<1>7. requests' \in [Requests -> Request] /\ \A p \in Requests : requests'[p] = IF p = r THEN q ELSE requests[p]
  BY <1>4, <1>5, BecomeType
<1>8. TypeOK'
  BY <1>6, <1>7 DEF Inserts, Quiet, hostVars, TypeOK
<1> QED
  BY <1>3, <1>4, <1>6, <1>7, <1>8 DEF row

LEMMA ErasesType ==
  ASSUME TypeOK, NEW r \in Requests, NEW s \in Servers, Erases(r, s)
  PROVE  /\ TypeOK'
         /\ \A t \in Servers : rows'[t] = rows[t] \/ (t = s /\ InTable(s) /\ rows'[t].status \in Gone)
<1>1. rows \in [Servers -> Row]
  BY DEF TypeOK
<1>2. PICK how \in Gone : Erase(s, how)
  BY DEF Erases
<1> DEFINE row == [Blank EXCEPT !.status = how]
<1>3. row \in Row /\ row.status = how
  BY <1>2, BlankType DEF Row, Statuses
<1>4. rows' = IF InTable(s) THEN [rows EXCEPT ![s] = row] ELSE rows
  BY <1>2 DEF Erase
<1> HIDE DEF row
<1>5. rows' \in [Servers -> Row]
      /\ \A t \in Servers : rows'[t] = rows[t] \/ (t = s /\ InTable(s) /\ rows'[t].status \in Gone)
  BY <1>1, <1>2, <1>3, <1>4
<1>6. requests' \in [Requests -> Request]
  BY BecomeType DEF Erases
<1> QED
  BY <1>5, <1>6 DEF Erases, Quiet, hostVars, TypeOK

\* A command goes on its way, and its request waits.
Sends(r) ==
  /\ queue' = Append(queue, CommandOf(r))
  /\ Become(r, [requests[r] EXCEPT !.at = "wait"])
  /\ UNCHANGED <<rows, online, hostVars, received>>

LEMMA SendCases ==
  ASSUME TypeOK, NEW r \in Requests, Send(r)
  PROVE  Steady(r) \/ Sends(r)
<1>1. CASE online
  BY <1>1 DEF Send, Sends
<1>2. CASE ~online
  BY <1>2, AnsweredType, UnchangedSame DEF Send, Steady, Progress, Quiet
<1> QED
  BY <1>1, <1>2

LEMMA SendsType ==
  ASSUME TypeOK, NEW r \in Requests, Sends(r)
  PROVE  /\ TypeOK'
         /\ Len(queue') = Len(queue) + 1
         /\ \A i \in 1 .. Len(queue) : queue'[i] = queue[i]
         /\ LET c == queue'[Len(queue) + 1] IN
            /\ c.kind = requests[r].asks /\ c.request = r /\ c.heard
            /\ c.server = Srv(r) /\ c.name = Seen(r).name /\ c.wipe = requests[r].wipe
         /\ \E q \in Request :
              /\ q.op = Op(r) /\ q.at = "wait" /\ q.server = Srv(r) /\ q.read = Seen(r)
              /\ \A p \in Requests : requests'[p] = IF p = r THEN q ELSE requests[p]
<1> DEFINE q == [requests[r] EXCEPT !.at = "wait"]
           c == CommandOf(r)
<1>1. requests[r] \in Request /\ queue \in Seq(Command) /\ Len(queue) \in Nat
  BY DEF TypeOK
<1>2. q \in Request /\ q.op = Op(r) /\ q.at = "wait" /\ q.server = Srv(r) /\ q.read = Seen(r)
  BY <1>1 DEF Request, Op, Srv, Seen
<1>3. Srv(r) \in Servers /\ Seen(r) \in Row /\ requests[r].asks \in Kinds /\ requests[r].wipe \in BOOLEAN
  BY <1>1 DEF Srv, Seen, Request
<1>4. /\ c \in Command /\ c.kind = requests[r].asks /\ c.request = r /\ c.heard
      /\ c.server = Srv(r) /\ c.name = Seen(r).name /\ c.wipe = requests[r].wipe
  BY <1>3 DEF CommandOf, Command, Row
<1>5. queue' = Append(queue, c) /\ Become(r, q)
  BY DEF Sends
<1> HIDE DEF q, c
<1>6. /\ queue' \in Seq(Command) /\ Len(queue') = Len(queue) + 1
      /\ \A i \in 1 .. Len(queue) : queue'[i] = queue[i]
      /\ queue'[Len(queue) + 1] = c
  BY <1>1, <1>4, <1>5
<1>7. requests' \in [Requests -> Request] /\ \A p \in Requests : requests'[p] = IF p = r THEN q ELSE requests[p]
  BY <1>2, <1>5, BecomeType
<1>8. TypeOK'
  BY <1>6, <1>7 DEF Sends, hostVars, TypeOK
<1> QED
  BY <1>2, <1>4, <1>6, <1>7, <1>8

LEMMA CarriedType ==
  ASSUME TypeOK, Carried
  PROVE  TypeOK'
<1>1. PICK answer \in {"ok", "error", "gone", "unlisted"}, made \in Nat, found \in SUBSET Container :
        Reply(answer, made, found)
  BY DEF Carried
<1>2. queue # <<>>
  BY DEF Carried
<1>3. /\ Head(queue) \in Command /\ queue' \in Seq(Command) /\ requests' \in [Requests -> Request]
      /\ UNCHANGED <<rows, online, received>>
  BY <1>1, <1>2, ReplyType
<1>4. directories' \in SUBSET Names
  BY <1>3 DEF Carried, TypeOK, Command
<1> QED
  BY <1>3, <1>4 DEF Carried, TypeOK

\* A container stops by itself.
LEMMA ContainerExitsKin ==
  ASSUME TypeOK, NEW k \in containers, ContainerExits(k)
  PROVE  containers' \in SUBSET Container /\ \A x \in containers' : Kin(x)
<1> DEFINE down == [k EXCEPT !.up = FALSE]
<1>1. containers \in SUBSET Container
  BY DEF TypeOK
<1>2. down \in Container /\ Kin(down)
  BY <1>1 DEF Kin, Container
<1>3. containers' = (containers \ {k}) \cup {down}
  BY DEF ContainerExits
<1> HIDE DEF down
<1> QED
  BY <1>1, <1>2, <1>3 DEF Kin

\* A request after a restart of the DO.
LEMMA DORestartRequests ==
  ASSUME TypeOK, DORestart
  PROVE  /\ requests' \in [Requests -> Request]
         /\ \A p \in Requests :
              \/ requests'[p] = Idle
              \/ requests'[p] = requests[p] /\ ~At(p, "wait")
              \/ Op(p)' = Op(p) /\ Srv(p)' = Srv(p) /\ Seen(p)' = Seen(p) /\ At(p, "done")' /\ At(p, "wait")
<1>1. requests' = [p \in Requests |->
        IF Op(p) = "sync" THEN Idle ELSE IF At(p, "wait") THEN Answered(p, "thrown") ELSE requests[p]]
  BY DEF DORestart
<1>2. ASSUME NEW p \in Requests
      PROVE  /\ Answered(p, "thrown") \in Request /\ requests[p] \in Request
             /\ Answered(p, "thrown").op = Op(p) /\ Answered(p, "thrown").server = Srv(p)
             /\ Answered(p, "thrown").read = Seen(p) /\ Answered(p, "thrown").at = "done"
  BY AnsweredType DEF Goes, TypeOK
<1>3. requests' \in [Requests -> Request]
  BY <1>1, <1>2, IdleType
<1>4. ASSUME NEW p \in Requests
      PROVE  \/ requests'[p] = Idle
             \/ requests'[p] = requests[p] /\ ~At(p, "wait")
             \/ Op(p)' = Op(p) /\ Srv(p)' = Srv(p) /\ Seen(p)' = Seen(p) /\ At(p, "done")' /\ At(p, "wait")
  <2>1. CASE Op(p) = "sync"
    BY <1>1, <2>1
  <2>2. CASE Op(p) # "sync" /\ At(p, "wait")
    <3>1. requests'[p] = Answered(p, "thrown")
      BY <1>1, <2>2
    <3> QED
      BY <1>2, <2>2, <3>1 DEF Op, Srv, Seen, At
  <2>3. CASE Op(p) # "sync" /\ ~At(p, "wait")
    BY <1>1, <2>3
  <2> QED
    BY <2>1, <2>2, <2>3
<1> QED
  BY <1>3, <1>4

\* The kinds of steps the proofs tell apart.
StepKinds ==
  \/ \E r \in Requests : Arrives(r) \/ Timeout(r)
  \/ \E r \in Requests : Steady(r) /\ ~At(r, "wait") /\ ~At(r, "idle")
                         /\ (Op(r) = "create" /\ At(r, "read") => Finish(r))
  \/ \E r \in Requests : (Inserts(r) /\ At(r, "read")) \/ (Sends(r) /\ At(r, "send"))
  \/ \E r \in Requests, s \in Servers : Erases(r, s)
  \/ Carried
  \/ \E k \in containers : ContainerExits(k)
  \/ Disconnect \/ DORestart

LEMMA NextKinds ==
  ASSUME TypeOK, Next
  PROVE  StepKinds
<1>1. ASSUME NEW r \in Requests, Begin(r) \/ Register(r) PROVE StepKinds
  BY <1>1, BeginArrives, RegisterArrives DEF StepKinds
<1>2. ASSUME NEW r \in Requests, Step(r) PROVE StepKinds
  <2>1. CASE \/ CreateDone(r) \/ StartExisting(r) \/ StartDone(r) \/ Recreate(r) \/ RecreateDone(r)
             \/ Stop(r) \/ StopDone(r) \/ ContainerDone(r)
             \/ SoftDelete(r) \/ SoftDeleteDone(r) \/ Purge(r) \/ Restore(r)
             \/ Rebuild(r) \/ RebuildDone(r) \/ ApplyDone(r)
             \/ SyncRead(r) \/ SyncListed(r) \/ \E s \in Servers : SyncNext(r, s)
    BY <2>1, NotWaiting, SteadySteps DEF StepKinds
  <2>2. CASE CreateInsert(r)
    <3>1. ~At(r, "wait") /\ ~At(r, "idle") /\ At(r, "read")
      BY <2>2 DEF CreateInsert, At
    <3> QED
      BY <2>2, <3>1, CreateInsertCases DEF StepKinds
  <2>3. CASE PurgeDone(r) \/ \E s \in Servers : CleanupNext(r, s)
    BY <2>3, ErasesRows DEF StepKinds
  <2>4. CASE Send(r)
    <3>1. At(r, "send") /\ ~At(r, "wait") /\ ~At(r, "idle") /\ ~At(r, "read")
      BY <2>4 DEF Send, At
    <3> QED
      BY <2>4, <3>1, SendCases DEF StepKinds
  <2> QED
    BY <1>2, <2>1, <2>2, <2>3, <2>4 DEF Step
<1>3. CASE AgentStep
  BY <1>3, AgentCarries DEF StepKinds
<1>4. ASSUME NEW r \in Requests, Timeout(r) PROVE StepKinds
  BY <1>4 DEF StepKinds
<1> QED
  BY <1>1, <1>2, <1>3, <1>4 DEF Next, StepKinds

LEMMA NextType ==
  ASSUME TypeOK, [Next]_vars
  PROVE  TypeOK'
<1>1. CASE UNCHANGED vars
  BY <1>1 DEF vars, TypeOK
<1>2. ASSUME NEW r \in Requests, Arrives(r) \/ Steady(r) \/ Inserts(r) \/ Sends(r) PROVE TypeOK'
  BY <1>2, ArrivesType, SteadyType, InsertsType, SendsType
<1>3. ASSUME NEW r \in Requests, NEW s \in Servers, Erases(r, s) PROVE TypeOK'
  BY <1>3, ErasesType
<1>4. ASSUME NEW r \in Requests, Timeout(r) PROVE TypeOK'
  <2>1. queue' \in Seq(Command)
    BY <1>4, TimeoutMuffles DEF Muffles
  <2>2. requests' \in [Requests -> Request]
    BY <1>4, AnsweredType, BecomeType DEF Timeout
  <2> QED
    BY <1>4, <2>1, <2>2 DEF Timeout, hostVars, TypeOK
<1>5. CASE Carried
  BY <1>5, CarriedType
<1>6. ASSUME NEW k \in containers, ContainerExits(k) PROVE TypeOK'
  BY <1>6, ContainerExitsKin DEF ContainerExits, TypeOK
<1>7. CASE Disconnect
  <2>1. queue' \in Seq(Command)
    BY <1>7, CutMuffles DEF Disconnect, Muffles
  <2> QED
    BY <1>7, <2>1 DEF Disconnect, hostVars, TypeOK
<1>8. CASE DORestart
  <2>1. queue' \in Seq(Command)
    BY <1>8, CutMuffles DEF DORestart, Muffles
  <2> QED
    BY <1>8, <2>1, DORestartRequests DEF DORestart, hostVars, TypeOK
<1> QED
  BY <1>1, <1>2, <1>3, <1>4, <1>5, <1>6, <1>7, <1>8, NextKinds DEF StepKinds

\* Type correctness.  Whatever fails and whatever overlaps, a row's status is one
\* of the statuses the code writes, a command names a server and a request, and
\* the requests received stay within their bound.
THEOREM TypeCorrect == Spec => []TypeOK
<1>1. Init => TypeOK
  BY BlankType, IdleType, BoundsAssumption DEF Init, TypeOK, NoId
<1>2. TypeOK /\ [Next]_vars => TypeOK'
  BY NextType
<1> QED
  BY <1>1, <1>2, PTL DEF Spec

-----------------------------------------------------------------------------
\* The inductive invariant

\* What a step makes of a request that was there before.
Continues(p) ==
  \/ requests'[p] = Idle
  \/ /\ Op(p)' = Op(p) /\ Srv(p)' = Srv(p) /\ Seen(p)' = Seen(p)
     /\ Op(p) = "create" /\ At(p, "read") => At(p, "read")'
     /\ At(p, "read")' => At(p, "read")
     /\ At(p, "send")' /\ requests'[p].asks \in {"create", "delete"} => Owns(p)'
     /\ Op(p) = "none" => At(p, "idle")'

LEMMA RequestsKept ==
  ASSUME TypeOK, RequestsInv, RowsSame, \A p \in Requests : Continues(p)
  PROVE  RequestsInv'
<1>1. \A p \in Requests : requests[p] \in Request
  BY DEF TypeOK
<1>2. \A p \in Requests : Srv(p) \in Servers /\ Seen(p) \in Row
  BY <1>1 DEF Srv, Seen, Request
<1>3. Idle.op = "none" /\ Idle.at = "idle"
  BY IdleType
<1>4. \A p \in Requests : Op(p)' = Op(p) \/ Op(p)' = "none"
  BY <1>3 DEF Continues, Op
<1>5. OneUser'
  BY <1>4 DEF RequestsInv, OneUser
<1>6. NamesUnique'
  BY DEF RequestsInv, NamesUnique, RowsSame
<1>7. \A p \in Requests : Owns(p)' => Owns(p) /\ Srv(p)' = Srv(p) /\ Seen(p)' = Seen(p)
  <2> SUFFICES ASSUME NEW p \in Requests, Owns(p)'
               PROVE  Owns(p) /\ Srv(p)' = Srv(p) /\ Seen(p)' = Seen(p)
    OBVIOUS
  <2>1. requests'[p] # Idle
    BY <1>3 DEF Owns, Owning, Op
  <2> QED
    BY <2>1 DEF Continues, Owns
<1>8. Held'
  <2> SUFFICES ASSUME NEW p \in Requests, Owns(p)'
               PROVE  InTable(Srv(p))' /\ rows'[Srv(p)'].name = Seen(p).name'
    BY DEF Held
  <2>1. Owns(p) /\ Srv(p)' = Srv(p) /\ Seen(p)' = Seen(p)
    BY <1>7
  <2>2. InTable(Srv(p)) /\ rows[Srv(p)].name = Seen(p).name
    BY <2>1 DEF RequestsInv, Held
  <2> QED
    BY <2>1, <2>2, <1>2 DEF RowsSame, InTable
<1>9. Asked'
  <2> SUFFICES ASSUME NEW p \in Requests, At(p, "send")', requests'[p].asks \in {"create", "delete"}
               PROVE  Owns(p)'
    BY DEF Asked
  <2>1. requests'[p] # Idle
    BY <1>3 DEF At
  <2> QED
    BY <2>1 DEF Continues
<1>10. Fresh'
  <2> SUFFICES ASSUME NEW p \in Requests, Op(p)' = "create", At(p, "read")'
               PROVE  rows'[Srv(p)'].status = "unborn"
    BY DEF Fresh
  <2>1. requests'[p] # Idle
    BY <1>3 DEF At
  <2>2. Op(p) = "create" /\ At(p, "read") /\ Srv(p)' = Srv(p)
    BY <2>1 DEF Continues
  <2>3. rows[Srv(p)].status = "unborn"
    BY <2>2 DEF RequestsInv, Fresh
  <2> QED
    BY <2>2, <2>3, <1>2 DEF RowsSame
<1>11. Ended'
  <2> SUFFICES ASSUME NEW p \in Requests, Op(p)' = "none"
               PROVE  At(p, "idle")'
    BY DEF Ended
  <2> QED
    BY <1>3 DEF Continues, At
<1> QED
  BY <1>5, <1>6, <1>8, <1>9, <1>10, <1>11 DEF RequestsInv

LEMMA StaysContinues ==
  ASSUME RequestsInv, NEW p \in Requests, requests'[p] = requests[p]
  PROVE  Continues(p)
  BY DEF RequestsInv, Asked, Ended, Continues, Owns, Op, Srv, Seen, At

LEMMA AnswersContinues ==
  ASSUME RequestsInv, NEW p \in Requests, At(p, "wait"),
         Op(p)' = Op(p) /\ Srv(p)' = Srv(p) /\ Seen(p)' = Seen(p) /\ At(p, "done")'
  PROVE  Continues(p)
  BY DEF RequestsInv, Ended, Continues, At

\* The queue keeps its order; some of its tail may be lost.
Shortened == \E n \in 0 .. Len(queue) :
  /\ Len(queue') = n
  /\ \A i \in 1 .. n :
       /\ queue'[i].kind = queue[i].kind /\ queue'[i].server = queue[i].server
       /\ queue'[i].name = queue[i].name /\ queue'[i].wipe = queue[i].wipe

LEMMA QueueSame ==
  ASSUME TypeOK, UNCHANGED queue
  PROVE  Shortened
<1>1. Len(queue) \in Nat
  BY DEF TypeOK
<1> QED
  BY <1>1 DEF Shortened

\* Rows may leave the table; the rest keep their names.
RowsNarrow == \A s \in Servers :
  /\ InTable(s)' => InTable(s) /\ rows'[s].name = rows[s].name
  /\ (rows'[s].status = "unborn") <=> (rows[s].status = "unborn")

LEMMA SameNarrow ==
  ASSUME RowsSame
  PROVE  RowsNarrow
  BY DEF RowsSame, RowsNarrow

LEMMA QueueType ==
  ASSUME TypeOK
  PROVE  /\ Len(queue) \in Nat
         /\ \A i \in 1 .. Len(queue) : queue[i].server \in Servers /\ queue[i].request \in Requests
<1>1. queue \in Seq(Command)
  BY DEF TypeOK
<1>2. Len(queue) \in Nat /\ \A i \in 1 .. Len(queue) : queue[i] \in Command
  BY <1>1
<1> QED
  BY <1>2 DEF Command

LEMMA HostKept ==
  ASSUME TypeOK, HostInv, RowsNarrow, Shortened, containers' \in SUBSET Container,
         \A k \in containers' : Kin(k)
  PROVE  (ContainersNamed /\ CreatesNamed /\ WipesScoped)'
<1>1. \A k \in containers : k.server \in Servers
  BY DEF TypeOK, Container
<1>2. \A i \in 1 .. Len(queue) : queue[i].server \in Servers
  BY QueueType
<1>3. PICK n \in 0 .. Len(queue) :
        /\ Len(queue') = n
        /\ \A i \in 1 .. n :
             /\ queue'[i].kind = queue[i].kind /\ queue'[i].server = queue[i].server
             /\ queue'[i].name = queue[i].name /\ queue'[i].wipe = queue[i].wipe
  BY DEF Shortened
<1>4. Len(queue) \in Nat
  BY DEF TypeOK
<1>5. ContainersNamed'
  BY <1>1 DEF HostInv, ContainersNamed, RowsNarrow, Kin, InTable
<1>6. CreatesNamed'
  <2> SUFFICES ASSUME NEW i \in 1 .. Len(queue'), queue'[i].kind = "create"
               PROVE  /\ rows'[queue'[i].server].status # "unborn"
                      /\ InTable(queue[i].server)' => rows'[queue'[i].server].name = queue'[i].name
    BY DEF CreatesNamed, InTable
  <2>1. i \in 1 .. Len(queue) /\ i \in 1 .. n
    BY <1>3, <1>4
  <2>2. /\ rows[queue[i].server].status # "unborn"
        /\ InTable(queue[i].server) => rows[queue[i].server].name = queue[i].name
    BY <2>1, <1>3 DEF HostInv, CreatesNamed
  <2> QED
    BY <2>1, <2>2, <1>2, <1>3 DEF RowsNarrow, InTable
<1>7. WipesScoped'
  <2> SUFFICES ASSUME NEW i \in 1 .. Len(queue'), Wipes(queue'[i])
               PROVE  /\ \A k \in containers' :
                           k.name = queue'[i].name /\ InTable(k.server)' => k.server = queue'[i].server
                      /\ \A j \in 1 .. i - 1 :
                           queue'[j].kind = "create" /\ queue'[j].name = queue'[i].name
                             /\ InTable(queue[j].server)'
                             => queue'[j].server = queue'[i].server
    BY DEF WipesScoped, Wipes, InTable
  <2>1. i \in 1 .. Len(queue) /\ i \in 1 .. n /\ \A j \in 1 .. i - 1 : j \in 1 .. n /\ j \in 1 .. Len(queue)
    BY <1>3, <1>4
  <2>2. /\ \A k \in containers :
             k.name = queue[i].name /\ InTable(k.server) => k.server = queue[i].server
        /\ \A j \in 1 .. i - 1 :
             queue[j].kind = "create" /\ queue[j].name = queue[i].name /\ InTable(queue[j].server)
               => queue[j].server = queue[i].server
    BY <2>1, <1>3 DEF HostInv, WipesScoped, Wipes
  <2>3. \A k \in containers' :
          k.name = queue'[i].name /\ InTable(k.server)' => k.server = queue'[i].server
    BY <2>1, <2>2, <1>1, <1>3 DEF Kin, RowsNarrow, InTable
  <2>4. ASSUME NEW j \in 1 .. i - 1, queue'[j].kind = "create", queue'[j].name = queue'[i].name,
               InTable(queue[j].server)'
        PROVE  queue'[j].server = queue'[i].server
    <3>1. queue'[j].server = queue[j].server /\ queue[j].server \in Servers
          /\ queue[j].kind = "create" /\ queue[j].name = queue[i].name
          /\ queue'[i].server = queue[i].server
      BY <2>1, <2>4, <1>2, <1>3
    <3>2. InTable(queue[j].server)
      BY <3>1, <2>4 DEF RowsNarrow, InTable
    <3> QED
      BY <3>1, <3>2, <2>2
  <2> QED
    BY <2>3, <2>4
<1> QED
  BY <1>5, <1>6, <1>7

LEMMA KinSame ==
  ASSUME TypeOK, UNCHANGED containers
  PROVE  containers' \in SUBSET Container /\ \A k \in containers' : Kin(k)
  BY DEF TypeOK, Kin

\* A request that waits for no answer may do as it likes.
LEMMA HeardOthers ==
  ASSUME TypeOK, Heard, NEW r \in Requests, ~At(r, "wait"), UNCHANGED queue,
         \A p \in Requests : p # r => requests'[p] = requests[p]
  PROVE  Heard'
<1>1. \A i \in 1 .. Len(queue) : queue[i].request \in Requests
  BY QueueType
<1> QED
  BY <1>1 DEF Heard, At

LEMMA HeardMuffled ==
  ASSUME TypeOK, Heard, NEW R, Muffles(R),
         \A p \in Requests : p \notin R => requests'[p].at = requests[p].at
  PROVE  Heard'
<1>1. PICK n \in 0 .. Len(queue) :
        /\ Len(queue') = n
        /\ \A i \in 1 .. n :
             /\ queue'[i].request = queue[i].request
             /\ queue'[i].heard => queue[i].heard /\ queue[i].request \notin R
  BY DEF Muffles
<1>2. \A i \in 1 .. n : i \in 1 .. Len(queue) /\ queue[i].request \in Requests
  BY <1>1, QueueType
<1> QED
  BY <1>1, <1>2 DEF Heard, At

\* A step of a request that leaves the table's servers and the queue alone.
LEMMA SteadyScope ==
  ASSUME ScopeInv, NEW r \in Requests, Steady(r), ~At(r, "wait"), ~At(r, "idle"),
         Op(r) = "create" /\ At(r, "read") => Finish(r)
  PROVE  (RequestsInv /\ HostInv)'
<1>1. PICK q \in Request : Become(r, q) /\ (q = Idle \/ Goes(r, q))
  BY DEF Steady, Progress
<1>2. \A p \in Requests : requests'[p] = IF p = r THEN q ELSE requests[p]
  BY <1>1, BecomeType DEF ScopeInv
<1>3. \A p \in Requests : p # r => requests'[p] = requests[p]
  BY <1>2
<1>4. requests'[r] = q
  BY <1>2
<1>5. Continues(r)
  <2>1. CASE q = Idle
    BY <2>1, <1>4 DEF Continues
  <2>2. CASE Goes(r, q) /\ ~(Op(r) = "create" /\ At(r, "read"))
    <3>1. Op(r) # "none"
      BY DEF ScopeInv, RequestsInv, Ended
    <3>2. Op(r)' = Op(r) /\ Srv(r)' = Srv(r) /\ Seen(r)' = Seen(r) /\ ~At(r, "read")'
      BY <2>2, <1>4 DEF Goes, Op, Srv, Seen, At
    <3>3. At(r, "send")' /\ requests'[r].asks \in {"create", "delete"} => Owns(r)'
      BY <2>2, <3>2, <1>4 DEF Goes, Owns, At
    <3> QED
      BY <2>2, <3>1, <3>2, <3>3 DEF Continues
  <2>3. CASE Finish(r)
    <3>1. requests'[r] = Idle
      BY <2>3, BecomeType, IdleType DEF Finish, ScopeInv
    <3> QED
      BY <3>1 DEF Continues
  <2> QED
    BY <2>1, <2>2, <2>3, <1>1
<1>6. RequestsInv'
  BY <1>3, <1>5, StaysContinues, RequestsKept DEF ScopeInv, Steady
<1>7. UNCHANGED <<queue, containers>>
  BY DEF Steady, Quiet, hostVars
<1>8. (ContainersNamed /\ CreatesNamed /\ WipesScoped)'
  BY <1>7, QueueSame, KinSame, SameNarrow, HostKept DEF ScopeInv, Steady
<1>9. Heard'
  BY <1>3, <1>7, HeardOthers DEF ScopeInv, HostInv
<1> QED
  BY <1>6, <1>8, <1>9 DEF HostInv

LEMMA ArrivesScope ==
  ASSUME "user" \notin Overlap, ScopeInv, NEW r \in Requests, Arrives(r)
  PROVE  (RequestsInv /\ HostInv)'
<1>1. PICK q \in Request : Opening(q) /\ MayOverlap(q.op) /\ Become(r, q)
  BY DEF Arrives
<1>2. \A p \in Requests : requests'[p] = IF p = r THEN q ELSE requests[p]
  BY <1>1, BecomeType DEF ScopeInv
<1>3. \A p \in Requests : p # r => requests'[p] = requests[p]
  BY <1>2
<1>4. requests'[r] = q
  BY <1>2
<1>5. UNCHANGED <<rows, queue, containers>>
  BY DEF Arrives, hostVars
<1>6. RowsSame
  BY <1>5, UnchangedSame DEF ScopeInv
<1>7. OneUser'
  <2> SUFFICES ASSUME NEW p \in Requests, p # r, q.op \notin {"none", "sync"}
               PROVE  Op(p) \in {"none", "sync"}
    BY <1>3, <1>4 DEF ScopeInv, RequestsInv, OneUser, Op
  <2> QED
    BY <1>1 DEF MayOverlap
<1>8. NamesUnique'
  BY <1>5 DEF ScopeInv, RequestsInv, NamesUnique, InTable
<1>9. Held'
  BY <1>1, <1>3, <1>4, <1>5 DEF ScopeInv, RequestsInv, Held, Opening, Owns, Op, At, Srv, Seen, InTable
<1>10. Asked' /\ Fresh' /\ Ended'
  BY <1>1, <1>3, <1>4, <1>5
     DEF ScopeInv, RequestsInv, Asked, Fresh, Ended, Opening, Owns, Op, At, Srv
<1>11. (ContainersNamed /\ CreatesNamed /\ WipesScoped)'
  BY <1>5, <1>6, QueueSame, KinSame, SameNarrow, HostKept DEF ScopeInv
<1>12. ~At(r, "wait")
  BY DEF Arrives, ScopeInv, RequestsInv, Ended, At
<1>13. Heard'
  BY <1>3, <1>5, <1>12, HeardOthers DEF ScopeInv, HostInv
<1> QED
  BY <1>7, <1>8, <1>9, <1>10, <1>11, <1>13 DEF RequestsInv, HostInv

\* UNIQUE(agent_id, name) lets only a free name in, and nothing on the host
\* is that row's yet.
LEMMA InsertsScope ==
  ASSUME ScopeInv, NEW r \in Requests, Inserts(r), At(r, "read")
  PROVE  (RequestsInv /\ HostInv)'
<1>1. TypeOK /\ requests[r] \in Request
  BY DEF ScopeInv, TypeOK
<1>2. PICK s \in Servers : s = Srv(r)
  BY <1>1 DEF Srv, Request
<1>3. PICK row : /\ row.name = Seen(r).name /\ row.status = "creating"
                 /\ \A t \in Servers : rows'[t] = IF t = s THEN row ELSE rows[t]
  BY <1>1, <1>2, InsertsType
<1>4. PICK q \in Request :
        /\ q.op = "create" /\ q.at = "send" /\ q.server = s /\ q.read = Seen(r)
        /\ \A p \in Requests : requests'[p] = IF p = r THEN q ELSE requests[p]
  BY <1>1, <1>2, InsertsType
<1>5. Op(r) = "create" /\ rows[s].status = "unborn" /\ ~InTable(s)
  BY <1>2 DEF Inserts, ScopeInv, RequestsInv, Fresh, InTable
<1>6. \A t \in Servers : InTable(t) => rows[t].name # Seen(r).name
  BY DEF Inserts, NameTaken, Table
<1>7. \A t \in Servers : t # s => rows'[t] = rows[t] /\ (InTable(t)' <=> InTable(t))
  BY <1>3 DEF InTable
<1>8. InTable(s)' /\ rows'[s].name = Seen(r).name /\ rows'[s].status = "creating"
  <2>1. rows'[s] = row
    BY <1>2, <1>3
  <2>2. InTable(s)'
    BY <2>1, <1>3 DEF InTable, Gone
  <2> QED
    BY <2>1, <2>2, <1>3
<1>9. UNCHANGED <<queue, containers>>
  BY DEF Inserts, Quiet, hostVars
<1>10. \A p \in Requests : p # r => requests'[p] = requests[p] /\ Op(p) \in {"none", "sync"}
  BY <1>4, <1>5 DEF ScopeInv, RequestsInv, OneUser
<1>11. requests'[r] = q
  BY <1>4
<1>12. OneUser'
  BY <1>10 DEF OneUser, Op
<1>13. NamesUnique'
  BY <1>6, <1>7, <1>8 DEF ScopeInv, RequestsInv, NamesUnique
<1>14. Held'
  <2>1. \A p \in Requests : p # r => ~Owns(p)'
    BY <1>10 DEF Owns, Owning, Op
  <2>2. Srv(r)' = s /\ Seen(r)' = Seen(r)
    BY <1>4, <1>11 DEF Srv, Seen
  <2>3. InTable(Srv(r))' /\ rows'[Srv(r)'].name = Seen(r).name'
    BY <2>2, <1>8 DEF InTable
  <2> QED
    BY <2>1, <2>3 DEF Held, InTable
<1>15. Asked' /\ Fresh' /\ Ended'
  BY <1>4, <1>10, <1>11 DEF ScopeInv, RequestsInv, Asked, Fresh, Ended, Owns, Owning, Op, At, Srv
<1>16. \A k \in containers : k.server \in Servers /\ k.server # s
  BY <1>1, <1>5 DEF ScopeInv, HostInv, ContainersNamed, TypeOK, Container
<1>17. ContainersNamed'
  BY <1>7, <1>9, <1>16 DEF ScopeInv, HostInv, ContainersNamed
<1>18. \A i \in 1 .. Len(queue) : queue[i].server \in Servers
                                  /\ (queue[i].kind = "create" => queue[i].server # s)
  BY <1>1, <1>5, QueueType DEF ScopeInv, HostInv, CreatesNamed
<1>19. CreatesNamed'
  BY <1>7, <1>9, <1>18 DEF ScopeInv, HostInv, CreatesNamed, InTable
<1>20. WipesScoped'
  <2> SUFFICES ASSUME NEW i \in 1 .. Len(queue), Wipes(queue[i])
               PROVE  /\ \A k \in containers :
                           k.name = queue[i].name /\ InTable(k.server)' => k.server = queue[i].server
                      /\ \A j \in 1 .. i - 1 :
                           queue[j].kind = "create" /\ queue[j].name = queue[i].name
                             /\ InTable(queue[j].server)' => queue[j].server = queue[i].server
    BY <1>9 DEF WipesScoped, Wipes, InTable
  <2>1. \A j \in 1 .. i - 1 : j \in 1 .. Len(queue)
    BY <1>1, QueueType
  <2>2. /\ \A k \in containers :
             k.name = queue[i].name /\ InTable(k.server) => k.server = queue[i].server
        /\ \A j \in 1 .. i - 1 :
             queue[j].kind = "create" /\ queue[j].name = queue[i].name /\ InTable(queue[j].server)
               => queue[j].server = queue[i].server
    BY DEF ScopeInv, HostInv, WipesScoped
  <2>3. \A k \in containers : InTable(k.server)' <=> InTable(k.server)
    BY <1>7, <1>16
  <2>4. \A j \in 1 .. i - 1 : queue[j].kind = "create" =>
          (InTable(queue[j].server)' <=> InTable(queue[j].server))
    <3> SUFFICES ASSUME NEW j \in 1 .. i - 1, queue[j].kind = "create"
                 PROVE  InTable(queue[j].server)' <=> InTable(queue[j].server)
      OBVIOUS
    <3>1. queue[j].server \in Servers /\ queue[j].server # s
      BY <2>1, <1>18
    <3> QED
      BY <3>1, <1>7, <1>9 DEF InTable
  <2> QED
    BY <2>2, <2>3, <2>4
<1>21. Heard'
  BY <1>1, <1>9, <1>10, HeardOthers DEF ScopeInv, HostInv, At
<1> QED
  BY <1>12, <1>13, <1>14, <1>15, <1>17, <1>19, <1>20, <1>21 DEF RequestsInv, HostInv

LEMMA ErasesScope ==
  ASSUME ScopeInv, NEW r \in Requests, NEW s \in Servers, Erases(r, s)
  PROVE  (RequestsInv /\ HostInv)'
<1>1. TypeOK
  BY DEF ScopeInv
<1>2. \A t \in Servers : rows'[t] = rows[t] \/ (t = s /\ InTable(s) /\ rows'[t].status \in Gone)
  BY <1>1, ErasesType
<1>3. PICK q \in Request : Become(r, q) /\ (q = Idle \/ (q.op = "cleanup" /\ q.at = "rows"))
  BY DEF Erases
<1>4. \A p \in Requests : requests'[p] = IF p = r THEN q ELSE requests[p]
  BY <1>1, <1>3, BecomeType
<1>5. \A p \in Requests : p # r => requests'[p] = requests[p] /\ Op(p) \in {"none", "sync"}
  BY <1>4 DEF Erases, ScopeInv, RequestsInv, OneUser
<1>6. requests'[r] = q
  BY <1>4
<1>7. q.op \in {"none", "cleanup"} /\ q.at \in {"idle", "rows"} /\ (q.op = "none" => q.at = "idle")
  BY <1>3, IdleType
<1>8. RowsNarrow
  BY <1>2 DEF RowsNarrow, InTable, Gone
<1>9. UNCHANGED <<queue, containers>>
  BY DEF Erases, Quiet, hostVars
<1>10. OneUser'
  BY <1>5 DEF OneUser, Op
<1>11. NamesUnique'
  BY <1>8 DEF ScopeInv, RequestsInv, NamesUnique, RowsNarrow
<1>12. \A p \in Requests : ~Owns(p)' /\ (Op(p)' = "none" => At(p, "idle")')
  BY <1>5, <1>6, <1>7 DEF ScopeInv, RequestsInv, Ended, Owns, Owning, Op, At
<1>13. Held' /\ Ended'
  BY <1>12 DEF Held, Ended
<1>14. Asked' /\ Fresh'
  BY <1>5, <1>6, <1>7 DEF ScopeInv, RequestsInv, Asked, Fresh, Owns, Owning, Op, At
<1>15. (ContainersNamed /\ CreatesNamed /\ WipesScoped)'
  BY <1>1, <1>8, <1>9, QueueSame, KinSame, HostKept DEF ScopeInv
<1>16. Heard'
  BY <1>1, <1>5, <1>9, HeardOthers DEF Erases, ScopeInv, HostInv
<1> QED
  BY <1>10, <1>11, <1>13, <1>14, <1>15, <1>16 DEF RequestsInv, HostInv

\* What is sent speaks of a row that is in the table, under that row's name; so
\* nothing of that name on the host, or on its way there, is another row's.
LEMMA SendsScope ==
  ASSUME ScopeInv, NEW r \in Requests, Sends(r), At(r, "send")
  PROVE  (RequestsInv /\ HostInv)'
<1>1. TypeOK
  BY DEF ScopeInv
<1>2. PICK n \in Nat : n = Len(queue)
  BY <1>1, QueueType
<1>3. PICK c : /\ c = queue'[n + 1] /\ c.kind = requests[r].asks /\ c.request = r
               /\ c.server = Srv(r) /\ c.name = Seen(r).name
  BY <1>1, <1>2, SendsType
<1>4. Len(queue') = n + 1 /\ \A i \in 1 .. n : queue'[i] = queue[i]
  BY <1>1, <1>2, SendsType
<1>5. PICK q \in Request :
        /\ q.op = Op(r) /\ q.at = "wait" /\ q.server = Srv(r) /\ q.read = Seen(r)
        /\ \A p \in Requests : requests'[p] = IF p = r THEN q ELSE requests[p]
  BY <1>1, SendsType
<1>6. requests'[r] = q /\ \A p \in Requests : p # r => requests'[p] = requests[p]
  BY <1>5
<1>7. UNCHANGED <<rows, containers>>
  BY DEF Sends, hostVars
<1>8. Op(r) # "none"
  BY DEF ScopeInv, RequestsInv, Ended, At
<1>9. Continues(r)
  BY <1>5, <1>6, <1>8 DEF Continues, Op, Srv, Seen, At
<1>10. RequestsInv'
  BY <1>1, <1>6, <1>7, <1>9, StaysContinues, UnchangedSame, RequestsKept DEF ScopeInv
<1>11. c.kind \in {"create", "delete"} => InTable(c.server) /\ rows[c.server].name = c.name
  BY <1>3 DEF ScopeInv, RequestsInv, Asked, Held
<1>12. \A i \in 1 .. n + 1 : i \in 1 .. n \/ i = n + 1
  OBVIOUS
<1>13. c.server \in Servers
  BY <1>1, <1>3 DEF TypeOK, Srv, Request
<1>14. ContainersNamed'
  BY <1>7 DEF ScopeInv, HostInv, ContainersNamed, InTable
<1>15. CreatesNamed'
  <2>1. ASSUME NEW i \in 1 .. n + 1, queue'[i].kind = "create"
        PROVE  /\ rows[queue'[i].server].status # "unborn"
               /\ InTable(queue'[i].server) => rows[queue'[i].server].name = queue'[i].name
    <3>1. CASE i \in 1 .. n
      BY <3>1, <2>1, <1>2, <1>4 DEF ScopeInv, HostInv, CreatesNamed
    <3>2. CASE i = n + 1
      BY <3>2, <2>1, <1>3, <1>11 DEF InTable
    <3> QED
      BY <3>1, <3>2, <1>12
  <2> QED
    BY <2>1, <1>4, <1>7 DEF CreatesNamed, InTable
<1>16. WipesScoped'
  <2>1. ASSUME NEW i \in 1 .. n + 1, Wipes(queue'[i])
        PROVE  /\ \A k \in containers :
                    k.name = queue'[i].name /\ InTable(k.server) => k.server = queue'[i].server
               /\ \A j \in 1 .. i - 1 :
                    queue'[j].kind = "create" /\ queue'[j].name = queue'[i].name
                      /\ InTable(queue'[j].server) => queue'[j].server = queue'[i].server
    <3>1. CASE i \in 1 .. n
      <4>1. \A j \in 1 .. i - 1 : j \in 1 .. n
        BY <3>1
      <4> QED
        BY <3>1, <4>1, <2>1, <1>2, <1>4 DEF ScopeInv, HostInv, WipesScoped
    <3>2. CASE i = n + 1
      <4>1. InTable(c.server) /\ rows[c.server].name = c.name
        BY <3>2, <2>1, <1>3, <1>11 DEF Wipes
      <4>2. ASSUME NEW k \in containers, k.name = c.name, InTable(k.server) PROVE k.server = c.server
        <5>1. k.server \in Servers /\ rows[k.server].name = c.name
          BY <4>2, <1>1 DEF ScopeInv, HostInv, ContainersNamed, TypeOK, Container
        <5> QED
          BY <5>1, <4>1, <4>2, <1>13 DEF ScopeInv, RequestsInv, NamesUnique
      <4>3. ASSUME NEW j \in 1 .. n, queue[j].kind = "create", queue[j].name = c.name, InTable(queue[j].server)
            PROVE  queue[j].server = c.server
        <5>1. queue[j].server \in Servers /\ rows[queue[j].server].name = c.name
          BY <4>3, <1>1, <1>2, QueueType DEF ScopeInv, HostInv, CreatesNamed
        <5> QED
          BY <5>1, <4>1, <4>3, <1>13 DEF ScopeInv, RequestsInv, NamesUnique
      <4>4. \A j \in 1 .. i - 1 : j \in 1 .. n
        BY <3>2
      <4> QED
        BY <3>2, <4>2, <4>3, <4>4, <1>3, <1>4
    <3> QED
      BY <3>1, <3>2, <1>12
  <2> QED
    BY <2>1, <1>4, <1>7 DEF WipesScoped, Wipes, InTable
<1>17. Heard'
  <2>1. ASSUME NEW i \in 1 .. n, queue[i].heard
        PROVE  /\ queue[i].request \in Requests /\ queue[i].request # r
               /\ At(queue[i].request, "wait")
               /\ \A j \in 1 .. n : queue[j].heard /\ queue[j].request = queue[i].request => j = i
    BY <2>1, <1>1, <1>2, QueueType DEF ScopeInv, HostInv, Heard, At
  <2>2. ASSUME NEW i \in 1 .. n + 1, queue'[i].heard
        PROVE  /\ requests'[queue'[i].request].at = "wait"
               /\ \A j \in 1 .. n + 1 : queue'[j].heard /\ queue'[j].request = queue'[i].request => j = i
    <3>1. CASE i \in 1 .. n
      BY <3>1, <2>1, <2>2, <1>3, <1>4, <1>6, <1>12 DEF At
    <3>2. CASE i = n + 1
      BY <3>2, <2>1, <2>2, <1>3, <1>4, <1>5, <1>6, <1>12
    <3> QED
      BY <3>1, <3>2, <1>12
  <2> QED
    BY <2>2, <1>4 DEF Heard, At
<1> QED
  BY <1>10, <1>14, <1>15, <1>16, <1>17 DEF HostInv

LEMMA MufflesShortens ==
  ASSUME NEW R, Muffles(R)
  PROVE  Shortened
  BY DEF Muffles, Shortened

LEMMA TimeoutScope ==
  ASSUME ScopeInv, NEW r \in Requests, Timeout(r)
  PROVE  (RequestsInv /\ HostInv)'
<1>1. TypeOK
  BY DEF ScopeInv
<1>2. Muffles({r}) /\ Shortened
  BY <1>1, TimeoutMuffles, MufflesShortens
<1>3. PICK q \in Request : q = Answered(r, "error") /\ Goes(r, q) /\ q.at = "done"
  BY <1>1, AnsweredType
<1>4. \A p \in Requests : requests'[p] = IF p = r THEN q ELSE requests[p]
  BY <1>1, <1>3, BecomeType DEF Timeout
<1>5. At(r, "wait") /\ UNCHANGED <<rows, containers>>
  BY DEF Timeout, hostVars
<1>6. Op(r)' = Op(r) /\ Srv(r)' = Srv(r) /\ Seen(r)' = Seen(r) /\ At(r, "done")'
  BY <1>3, <1>4 DEF Goes, Op, Srv, Seen, At
<1>7. RequestsInv'
  BY <1>1, <1>4, <1>5, <1>6, StaysContinues, AnswersContinues, UnchangedSame, RequestsKept DEF ScopeInv
<1>8. (ContainersNamed /\ CreatesNamed /\ WipesScoped)'
  BY <1>1, <1>2, <1>5, KinSame, UnchangedSame, SameNarrow, HostKept DEF ScopeInv
<1>9. Heard'
  BY <1>1, <1>2, <1>4, HeardMuffled DEF ScopeInv, HostInv
<1> QED
  BY <1>7, <1>8, <1>9 DEF HostInv

LEMMA CutScope ==
  ASSUME ScopeInv, Disconnect \/ DORestart
  PROVE  (RequestsInv /\ HostInv)'
<1>1. TypeOK
  BY DEF ScopeInv
<1>2. Muffles(Requests) /\ Shortened
  BY <1>1, CutMuffles, MufflesShortens DEF Disconnect, DORestart
<1>3. UNCHANGED <<rows, containers>>
  BY DEF Disconnect, DORestart, hostVars
<1>4. ASSUME NEW p \in Requests PROVE Continues(p)
  <2>1. CASE requests'[p] = requests[p]
    BY <2>1, StaysContinues DEF ScopeInv
  <2>2. CASE requests'[p] = Idle
    BY <2>2 DEF Continues
  <2>3. CASE At(p, "wait") /\ Op(p)' = Op(p) /\ Srv(p)' = Srv(p) /\ Seen(p)' = Seen(p) /\ At(p, "done")'
    BY <2>3, AnswersContinues DEF ScopeInv
  <2> QED
    BY <1>1, <2>1, <2>2, <2>3, DORestartRequests DEF Disconnect
<1>5. RequestsInv'
  BY <1>1, <1>3, <1>4, UnchangedSame, RequestsKept DEF ScopeInv
<1>6. (ContainersNamed /\ CreatesNamed /\ WipesScoped)'
  BY <1>1, <1>2, <1>3, KinSame, UnchangedSame, SameNarrow, HostKept DEF ScopeInv
<1>7. Heard'
  BY <1>1, <1>2, HeardMuffled DEF ScopeInv, HostInv
<1> QED
  BY <1>5, <1>6, <1>7 DEF HostInv

LEMMA ExitScope ==
  ASSUME ScopeInv, NEW k \in containers, ContainerExits(k)
  PROVE  (RequestsInv /\ HostInv)'
<1>1. TypeOK /\ UNCHANGED <<rows, queue, requests>>
  BY DEF ScopeInv, ContainerExits
<1>2. RequestsInv'
  BY <1>1, StaysContinues, UnchangedSame, RequestsKept DEF ScopeInv
<1>3. (ContainersNamed /\ CreatesNamed /\ WipesScoped)'
  BY <1>1, ContainerExitsKin, QueueSame, UnchangedSame, SameNarrow, HostKept DEF ScopeInv
<1>4. Heard'
  BY <1>1 DEF ScopeInv, HostInv, Heard, At
<1> QED
  BY <1>2, <1>3, <1>4 DEF HostInv

\* A container that comes up is of the first command's row, and every removal
\* behind that command has been measured against it.
LEMMA CarriedScope ==
  ASSUME ScopeInv, Carried
  PROVE  (RequestsInv /\ HostInv)'
<1>1. TypeOK /\ queue # <<>>
  BY DEF ScopeInv, Carried
<1>2. PICK answer \in {"ok", "error", "gone", "unlisted"}, made \in Nat, found \in SUBSET Container :
        Reply(answer, made, found)
  BY DEF Carried
<1>3. PICK c : c = queue[1] /\ c = Head(queue) /\ c \in Command
  BY <1>1, <1>2, ReplyType
<1>4. PICK n \in Nat : n = Len(queue') /\ Len(queue) = n + 1
  BY <1>1, <1>2, ReplyType
<1>5. \A i \in 1 .. n : queue'[i] = queue[i + 1] /\ i + 1 \in 1 .. Len(queue)
  BY <1>1, <1>2, <1>4, ReplyType
<1>6. 1 \in 1 .. Len(queue) /\ UNCHANGED rows
  BY <1>1, <1>2, <1>4, ReplyType
<1>7. \A p \in Requests :
        \/ requests'[p] = requests[p] /\ ~(c.heard /\ c.request = p)
        \/ /\ c.heard /\ c.request = p
           /\ Op(p)' = Op(p) /\ Srv(p)' = Srv(p) /\ Seen(p)' = Seen(p) /\ At(p, "done")'
  BY <1>1, <1>2, <1>3, ReplyType
<1>8. c.heard => At(c.request, "wait")
  BY <1>3, <1>6 DEF ScopeInv, HostInv, Heard
<1>9. \A p \in Requests : Continues(p)
  BY <1>7, <1>8, StaysContinues, AnswersContinues DEF ScopeInv
<1>10. RequestsInv'
  BY <1>1, <1>6, <1>9, UnchangedSame, RequestsKept DEF ScopeInv
<1>11. \A k \in containers' : Kin(k) \/ (c.kind = "create" /\ k.server = c.server /\ k.name = c.name)
  BY <1>3 DEF Carried
<1>12. c.kind = "create" => /\ rows[c.server].status # "unborn"
                            /\ InTable(c.server) => rows[c.server].name = c.name
  BY <1>3, <1>6 DEF ScopeInv, HostInv, CreatesNamed
<1>13. ContainersNamed'
  BY <1>6, <1>11, <1>12 DEF ScopeInv, HostInv, ContainersNamed, Kin, InTable
<1>14. CreatesNamed'
  BY <1>4, <1>5, <1>6 DEF ScopeInv, HostInv, CreatesNamed, InTable
<1>15. WipesScoped'
  <2>1. ASSUME NEW i \in 1 .. n, Wipes(queue'[i])
        PROVE  /\ \A k \in containers' :
                    k.name = queue'[i].name /\ InTable(k.server) => k.server = queue'[i].server
               /\ \A j \in 1 .. i - 1 :
                    queue'[j].kind = "create" /\ queue'[j].name = queue'[i].name
                      /\ InTable(queue'[j].server) => queue'[j].server = queue'[i].server
    <3>1. PICK d : d = queue'[i] /\ d = queue[i + 1] /\ i + 1 \in 1 .. Len(queue)
      BY <1>5
    <3>2. /\ \A k \in containers : k.name = d.name /\ InTable(k.server) => k.server = d.server
          /\ \A j \in 1 .. i :
               queue[j].kind = "create" /\ queue[j].name = d.name /\ InTable(queue[j].server)
                 => queue[j].server = d.server
      <4>1. (i + 1) - 1 = i
        OBVIOUS
      <4> QED
        BY <2>1, <3>1, <4>1 DEF ScopeInv, HostInv, WipesScoped
    <3>3. 1 \in 1 .. i /\ \A j \in 1 .. i - 1 : j + 1 \in 1 .. i /\ j \in 1 .. n
      OBVIOUS
    <3>4. ASSUME NEW k \in containers', k.name = d.name, InTable(k.server) PROVE k.server = d.server
      <4>1. CASE Kin(k)
        BY <4>1, <3>2, <3>4 DEF Kin
      <4>2. CASE c.kind = "create" /\ k.server = c.server /\ k.name = c.name
        BY <4>2, <3>2, <3>3, <3>4, <1>3
      <4> QED
        BY <4>1, <4>2, <1>11
    <3>5. ASSUME NEW j \in 1 .. i - 1, queue'[j].kind = "create", queue'[j].name = d.name,
                 InTable(queue'[j].server)
          PROVE  queue'[j].server = d.server
      <4>1. queue'[j] = queue[j + 1] /\ j + 1 \in 1 .. i
        BY <3>3, <1>5
      <4> QED
        BY <4>1, <3>2, <3>5
    <3> QED
      BY <3>1, <3>4, <3>5
  <2> QED
    BY <2>1, <1>4, <1>6 DEF WipesScoped, Wipes, InTable
<1>16. Heard'
  <2>1. ASSUME NEW i \in 1 .. n, queue'[i].heard
        PROVE  /\ requests'[queue'[i].request].at = "wait"
               /\ \A j \in 1 .. n : queue'[j].heard /\ queue'[j].request = queue'[i].request => j = i
    <3>1. queue'[i] = queue[i + 1] /\ i + 1 \in 1 .. Len(queue) /\ i + 1 # 1
      BY <1>5
    <3>2. queue[i + 1].request \in Requests /\ At(queue[i + 1].request, "wait")
      BY <2>1, <3>1, <1>1, QueueType DEF ScopeInv, HostInv, Heard
    <3>3. ~(c.heard /\ c.request = queue[i + 1].request)
      BY <2>1, <3>1, <1>3, <1>6 DEF ScopeInv, HostInv, Heard
    <3>4. requests'[queue[i + 1].request] = requests[queue[i + 1].request]
      BY <3>2, <3>3, <1>7
    <3>5. ASSUME NEW j \in 1 .. n, queue'[j].heard, queue'[j].request = queue'[i].request PROVE j = i
      <4>1. queue'[j] = queue[j + 1] /\ j + 1 \in 1 .. Len(queue)
        BY <1>5
      <4>2. j + 1 = i + 1
        BY <2>1, <3>1, <3>5, <4>1 DEF ScopeInv, HostInv, Heard
      <4> QED
        BY <4>2
    <3> QED
      BY <3>1, <3>2, <3>4, <3>5 DEF At
  <2> QED
    BY <2>1, <1>4 DEF Heard, At
<1> QED
  BY <1>10, <1>13, <1>14, <1>15, <1>16 DEF HostInv

LEMMA ScopeStep ==
  ASSUME "user" \notin Overlap, ScopeInv, [Next]_vars
  PROVE  ScopeInv'
<1>1. TypeOK'
  BY NextType DEF ScopeInv
<1>2. CASE UNCHANGED vars
  BY <1>2 DEF vars, ScopeInv, RequestsInv, HostInv, OneUser, NamesUnique, Held, Asked, Fresh, Ended,
     ContainersNamed, CreatesNamed, WipesScoped, Heard, TypeOK, Owns, Op, At, Srv, Seen, InTable
<1>3. CASE Next
  <2>1. StepKinds
    BY <1>3, NextKinds DEF ScopeInv
  <2>2. (RequestsInv /\ HostInv)'
    BY <2>1, ArrivesScope, TimeoutScope, SteadyScope, InsertsScope, SendsScope, ErasesScope,
       CarriedScope, ExitScope, CutScope DEF StepKinds
  <2> QED
    BY <1>1, <2>2 DEF ScopeInv
<1> QED
  BY <1>2, <1>3

LEMMA ScopeInit == Init => ScopeInv
<1> SUFFICES ASSUME Init PROVE ScopeInv
  OBVIOUS
<1>1. TypeOK
  BY BlankType, IdleType, BoundsAssumption DEF Init, TypeOK, NoId
<1>2. \A p \in Requests : requests[p].op = "none" /\ requests[p].at = "idle"
  BY IdleType DEF Init
<1>3. \A s \in Servers : ~InTable(s)
  BY DEF Init, InTable, Blank
<1>4. RequestsInv
  BY <1>2, <1>3 DEF RequestsInv, OneUser, NamesUnique, Held, Asked, Fresh, Ended, Owns, Owning, Op, At
<1>5. containers = {} /\ Len(queue) = 0
  BY DEF Init
<1>6. HostInv
  BY <1>5 DEF HostInv, ContainersNamed, CreatesNamed, WipesScoped, Heard
<1> QED
  BY <1>1, <1>4, <1>6 DEF ScopeInv

-----------------------------------------------------------------------------
\* A purge that takes a data directory takes none from under the container of
\* another server of the table, however late the agent carries it out and whatever
\* fails, as long as user requests do not overlap; the status sync may.  With two
\* overlapping user requests it can: then a name can be free again, and taken,
\* while the command that wipes its directory is on its way.
THEOREM PurgesAreScoped ==
  ASSUME "user" \notin Overlap
  PROVE  Spec => PurgeScoped
<1>1. Init => ScopeInv
  BY ScopeInit
<1>2. ScopeInv /\ [Next]_vars => ScopeInv'
  BY ScopeStep
<1>3. ScopeInv /\ [Next]_vars =>
        [\A n \in directories \ directories' :
           \A k \in Named(n) : InTable(k.server) => k.server = Head(queue).server]_vars
  <2> SUFFICES ASSUME ScopeInv, Next, NEW n \in directories \ directories', NEW k \in Named(n),
                      InTable(k.server)
               PROVE  k.server = Head(queue).server
    OBVIOUS
  <2>1. StepKinds
    BY NextKinds DEF ScopeInv
  <2>2. Carried
    BY <2>1 DEF StepKinds, Arrives, Steady, Inserts, Sends, Erases, Timeout, ContainerExits,
       Disconnect, DORestart, Quiet, hostVars
  <2>3. Wipes(Head(queue)) /\ n = Head(queue).name
    BY <2>2 DEF Carried
  <2>4. Head(queue) = queue[1] /\ 1 \in 1 .. Len(queue)
    BY <2>2, ReplyType DEF Carried, ScopeInv
  <2> QED
    BY <2>3, <2>4 DEF Named, ScopeInv, HostInv, WipesScoped
<1> QED
  BY <1>1, <1>2, <1>3, PTL DEF Spec, PurgeScoped

-----------------------------------------------------------------------------
(***************************************************************************)
(* Requests that do not overlap, on a host where Docker calls may fail and *)
(* containers may exit, but where images can be pulled, containers can be  *)
(* removed, answers arrive in time and the connection stays.  Each server  *)
(* is then at rest but for the one a request is at work on.                *)
(***************************************************************************)
Orderly == Overlap = {} /\ Faults \subseteq {"docker", "exit"}

OneRequest == \A p, q \in Requests : Op(p) # "none" /\ Op(q) # "none" => p = q

\* The one command on its way is that of the request that waits.
QueueOfOne ==
  /\ \A r \in Requests : At(r, "wait") => queue = <<CommandOf(r)>>
  /\ (\A r \in Requests : ~At(r, "wait")) => queue = <<>>

\* Ids are not used again, and a row names no other server's container.
Ids ==
  /\ \A k \in containers : k.id < born /\ \A j \in containers : j.id = k.id => j = k
  /\ \A s \in Servers : /\ rows[s].container < born
                        /\ \A k \in containers : k.id = rows[s].container => k.server = s

\* No container of s; its containers have the given id; a server at rest.  A row that
\* says missing may have its container all the same: a failed listing finds none.
Clean(s) == \A k \in containers : k.server # s
Only(s, id) == \A k \in containers : k.server = s => k.id = id
Barren == {"failed", "deleted"}
Calm(s) == \A k \in containers :
  k.server = s => InTable(s) /\ k.id = rows[s].container /\ rows[s].status \notin Barren

\* A request at work on its server, and what it may count on.
Working(r) == Op(r) \in Owning \cup {"create"} /\ ~At(r, "read")
Work(r) ==
  LET s == Srv(r) IN
  /\ InTable(s) /\ rows[s].container = Seen(r).container
  /\ Op(r) \in {"softDelete", "purge"} <=> requests[r].asks = "delete"
  /\ \/ At(r, "marked") /\ Op(r) = "restore" /\ Clean(s) /\ rows[s].status = "missing"
     \/ /\ requests[r].asks \in {"create", "rebuild"} /\ rows[s].status \in Transient
        /\ requests[r].at \in {"send", "wait"}
        /\ IF requests[r].asks = "create" /\ Op(r) # "start" THEN Clean(s) ELSE Only(s, rows[s].container)
     \/ /\ requests[r].asks \in {"create", "rebuild"} /\ rows[s].status \in Transient
        /\ At(r, "done")
        /\ IF Got(r, {"ok"})
           THEN /\ Only(s, requests[r].made) /\ requests[r].made < born
                /\ \A k \in containers : k.id = requests[r].made => k.server = s
           ELSE IF Op(r) = "start" THEN Only(s, rows[s].container)
           ELSE Clean(s)
     \/ /\ requests[r].asks = "delete" /\ requests[r].at \in {"send", "wait"}
        /\ Only(s, rows[s].container)
     \/ /\ requests[r].asks = "delete" /\ At(r, "done") /\ Clean(s)
     \/ /\ requests[r].asks \in {"start", "stop"} /\ ~At(r, "marked")
        /\ rows[s].status \in {"running", "stopped"} /\ Calm(s)

AtRest == \A s \in Servers :
  (\A r \in Requests : Working(r) => Srv(r) # s) => Calm(s)
AtWork == \A r \in Requests : Working(r) => Work(r)

\* What a request has read is still so when it begins.
AsRead == \A r \in Requests : Op(r) \in Owning \cup {"create"} /\ At(r, "read") =>
  /\ IF Op(r) = "create" THEN Seen(r).container = rows[Srv(r)].container ELSE Seen(r) = rows[Srv(r)]
  /\ requests[r].asks = "list"
  /\ Op(r) = "stop" => Seen(r).status = "running"
  /\ Op(r) = "restore" => Seen(r).status = "deleted"

\* A request with no server of its own: a clean-up, and a sync, have the rows they
\* still have to do as they read them; the containers listed to a sync are those on
\* the host, up or not, or none when the listing failed.
Lists(r) ==
  /\ Op(r) = "container" => requests[r].asks \in {"start", "stop", "restart"}
  /\ Op(r) = "cleanup" => At(r, "rows") /\ \A s \in requests[r].todo : rows[s].status = "failed"
  /\ Op(r) = "sync" /\ ~At(r, "read") =>
       /\ requests[r].asks = "list"
       /\ requests[r].todo \subseteq Table
       /\ \A s \in requests[r].todo : requests[r].table[s] = rows[s]
       /\ At(r, "rows") => Got(r, {"ok", "unlisted"})
       /\ At(r, "rows") \/ At(r, "done") =>
            /\ Got(r, {"unlisted"}) => requests[r].found = {}
            /\ Got(r, {"ok"}) => \A n \in Names : (\E x \in requests[r].found : x.name = n) <=> Named(n) # {}
Listed == \A r \in Requests : Lists(r)

OrderInv == /\ OneRequest /\ online /\ QueueOfOne /\ Ids
            /\ AtRest /\ AtWork /\ AsRead /\ Listed

\* At most the row of s is written, and not with the id of another's container.
OwnRow(s) ==
  /\ \A t \in Servers \ {s} : rows'[t] = rows[t]
  /\ rows'[s].container < born
  /\ \A k \in containers : k.id = rows'[s].container => k.server = s

\* A step of request r that leaves the host alone and writes at most the row of s.
Acts(r, s, q) ==
  /\ Op(r) # "none" /\ ~At(r, "wait") /\ q.at # "wait" /\ q.op \in {Op(r), "none"}
  /\ \A p \in Requests : requests'[p] = IF p = r THEN q ELSE requests[p]
  /\ UNCHANGED <<online, queue, containers, born>>
  /\ OwnRow(s)
  /\ Op(r) \in Owning \cup {"create"} => s = Srv(r)

LEMMA OthersIdle ==
  ASSUME ScopeInv, OneRequest, NEW r \in Requests, Op(r) # "none", NEW p \in Requests, p # r
  PROVE  Op(p) = "none" /\ At(p, "idle") /\ ~Working(p)
  BY DEF ScopeInv, RequestsInv, Ended, OneRequest, Working, Owning

\* Such a step keeps the order if the server it leaves is at rest, and the one it
\* goes on with is ready for what is asked next.
LEMMA ActsKeep ==
  ASSUME ScopeInv, OrderInv, NEW r \in Requests, NEW s \in Servers, NEW q, Acts(r, s, q),
         IF q.op \in Owning \cup {"create"}
         THEN q.server = s /\ q.at # "read" /\ Work(r)'
         ELSE Calm(s)',
         Lists(r)'
  PROVE  OrderInv'
<1>1. \A p \in Requests \ {r} : /\ Op(p) = "none" /\ At(p, "idle") /\ ~Working(p)
                                /\ Op(p)' = "none" /\ At(p, "idle")' /\ ~Working(p)'
  <2>1. \A p \in Requests \ {r} : requests'[p] = requests[p]
    BY DEF Acts
  <2>2. \A p \in Requests \ {r} : Op(p) = "none" /\ At(p, "idle") /\ ~Working(p)
    BY OthersIdle DEF OrderInv, Acts
  <2> QED
    BY <2>1, <2>2 DEF Op, At, Working, Owning
<1>2. requests'[r] = q
  BY DEF Acts
<1>3. OneRequest'
  BY <1>1 DEF OneRequest
<1>4. queue = <<>>
  BY <1>1 DEF Acts, OrderInv, QueueOfOne, At
<1>5. QueueOfOne'
  BY <1>1, <1>2, <1>4 DEF Acts, QueueOfOne, At
<1>6. Ids'
  BY DEF Acts, OwnRow, OrderInv, Ids
<1>7. AtRest'
  <2> SUFFICES ASSUME NEW t \in Servers, \A p \in Requests : Working(p)' => Srv(p)' # t
               PROVE  Calm(t)'
    BY DEF AtRest
  <2>1. CASE t = s
    BY <2>1, <1>2 DEF Working, Op, At, Srv
  <2>2. CASE t # s
    <3>1. Working(r) => Srv(r) # t
      BY <2>2 DEF Acts, Working
    <3>2. Calm(t)
      BY <1>1, <3>1 DEF OrderInv, AtRest
    <3> QED
      BY <2>2, <3>2 DEF Acts, OwnRow, Calm, InTable
  <2> QED
    BY <2>1, <2>2
<1>8. AtWork'
  BY <1>1, <1>2 DEF AtWork, Working, Op
<1>9. AsRead'
  BY <1>1, <1>2 DEF AsRead, Op, At, Owning
<1>10. Listed'
  BY <1>1 DEF Listed, Lists
<1> QED
  BY <1>3, <1>5, <1>6, <1>7, <1>8, <1>9, <1>10 DEF OrderInv, Acts

\* What a request writes to a row of the table.
Changes(s, status, id) ==
  /\ \A t \in Servers \ {s} : rows'[t] = rows[t]
  /\ rows'[s].status = status /\ rows'[s].container = id

LEMMA WriteChanges ==
  ASSUME TypeOK, NEW s \in Servers, InTable(s), NEW row \in Row, Write(s, row)
  PROVE  Changes(s, row.status, row.container)
  BY DEF TypeOK, Write, Changes

LEMMA SetStatusChanges ==
  ASSUME TypeOK, NEW s \in Servers, InTable(s), NEW status \in Statuses, SetStatus(s, status)
  PROVE  Changes(s, status, rows[s].container)
<1> DEFINE row == [rows[s] EXCEPT !.status = status]
<1>1. rows[s] \in Row
  BY DEF TypeOK
<1>2. row \in Row /\ row.status = status /\ row.container = rows[s].container
  BY <1>1 DEF Row
<1>3. Write(s, row)
  BY DEF SetStatus
<1> HIDE DEF row
<1> QED
  BY <1>2, <1>3, WriteChanges

LEMMA SetRunningChanges ==
  ASSUME TypeOK, NEW s \in Servers, InTable(s), NEW id \in Nat, SetRunning(s, id)
  PROVE  Changes(s, "running", id)
<1> DEFINE row == [rows[s] EXCEPT !.status = "running", !.container = id]
<1>1. rows[s] \in Row
  BY DEF TypeOK
<1>2. row \in Row /\ row.status = "running" /\ row.container = id
  BY <1>1 DEF Row, Statuses
<1>3. Write(s, row)
  BY DEF SetRunning
<1> HIDE DEF row
<1> QED
  BY <1>2, <1>3, WriteChanges

LEMMA SameChanges ==
  ASSUME UNCHANGED rows, NEW s
  PROVE  Changes(s, rows[s].status, rows[s].container)
  BY DEF Changes

\* A user request that ends, and one that asks the agent for something.
User == Owning \cup {"create"}

LEMMA FinishKeeps ==
  ASSUME ScopeInv, OrderInv, NEW r \in Requests, Op(r) \in User, ~At(r, "wait"), Finish(r), Quiet,
         NEW s \in Servers, s = Srv(r), OwnRow(s), Calm(s)'
  PROVE  OrderInv'
<1>1. Idle \in Request /\ Idle.op = "none" /\ Idle.at = "idle"
  BY IdleType
<1>3. \A p \in Requests : requests'[p] = IF p = r THEN Idle ELSE requests[p]
  BY <1>1, BecomeType DEF Finish, ScopeInv
<1>4. Acts(r, s, Idle)
  BY <1>1, <1>3 DEF Acts, Quiet, hostVars, User, Owning
<1>5. Lists(r)'
  BY <1>1, <1>3 DEF Lists, Op
<1>6. Idle.op \notin Owning \cup {"create"}
  BY <1>1 DEF Owning
<1> QED
  BY <1>4, <1>5, <1>6, ActsKeep

LEMMA AskKeeps ==
  ASSUME ScopeInv, OrderInv, NEW r \in Requests, Op(r) \in User, ~At(r, "wait"),
         NEW q \in Request, q.op = Op(r), q.server = Srv(r), q.at \notin {"read", "wait"}, Become(r, q), Quiet,
         OwnRow(Srv(r)), Work(r)'
  PROVE  OrderInv'
<1>2. requests[r] \in Request /\ Srv(r) \in Servers
  BY DEF ScopeInv, TypeOK, Srv, Request
<1>3. \A p \in Requests : requests'[p] = IF p = r THEN q ELSE requests[p]
  BY BecomeType DEF ScopeInv
<1>4. Acts(r, Srv(r), q)
  BY <1>3 DEF Acts, Quiet, hostVars, User, Owning
<1>5. Lists(r)'
  BY <1>3 DEF Lists, Op, User, Owning
<1> QED
  BY <1>2, <1>4, <1>5, ActsKeep DEF User

LEMMA AskReady ==
  ASSUME ScopeInv, OrderInv, NEW r \in Requests, Op(r) \in User, ~At(r, "wait"),
         NEW kind \in Kinds, Ask(r, kind), Quiet,
         NEW s \in Servers, s = Srv(r), OwnRow(s), InTable(s)', rows'[s].container = Seen(r).container,
         Op(r) \in {"softDelete", "purge"} <=> kind = "delete",
         \/ kind = "create" /\ rows'[s].status \in Transient /\ Clean(s)
         \/ kind = "create" /\ rows'[s].status \in Transient /\ Op(r) = "start" /\ Only(s, rows'[s].container)
         \/ kind = "rebuild" /\ rows'[s].status \in Transient /\ Only(s, rows'[s].container)
         \/ kind = "delete" /\ Only(s, rows'[s].container)
         \/ kind \in {"start", "stop"} /\ rows'[s].status \in {"running", "stopped"} /\ Calm(s)'
  PROVE  OrderInv'
<1> DEFINE q == [requests[r] EXCEPT !.at = "send", !.asks = kind]
<1>1. requests[r] \in Request
  BY DEF ScopeInv, TypeOK
<1>2. /\ q \in Request /\ q.op = Op(r) /\ q.server = s /\ q.at = "send" /\ q.asks = kind
      /\ q.read = Seen(r)
  BY <1>1 DEF Request, Op, Srv, Seen
<1>3. Become(r, q)
  BY DEF Ask
<1> HIDE DEF q
<1>4. requests'[r] = q
  BY <1>2, <1>3, BecomeType DEF ScopeInv
<1>5. Op(r)' = Op(r) /\ Srv(r)' = s /\ Seen(r)' = Seen(r) /\ At(r, "send")' /\ requests'[r].asks = kind
  BY <1>2, <1>4 DEF Op, Srv, Seen, At
<1>7. containers' = containers
  BY DEF Quiet, hostVars
<1>8. Clean(s) => Clean(s)'
  BY <1>7 DEF Clean
<1>9. Only(s, rows'[s].container) => Only(s, rows[s].container)'
  BY <1>7 DEF Only
<1>11. /\ InTable(s)' /\ rows'[s].container = requests'[r].read.container
       /\ Op(r)' \in {"softDelete", "purge"} <=> requests'[r].asks = "delete"
  BY <1>5 DEF Seen
<1>12. requests'[r].at = "send" /\ ~At(r, "marked")'
  BY <1>5 DEF At
<1>13. Work(r)'
  <2>1. CASE kind = "create" /\ rows'[s].status \in Transient /\ Clean(s)
    BY <1>5, <1>8, <1>11, <1>12, <2>1 DEF Work, Clean, Only
  <2>2. CASE kind = "create" /\ rows'[s].status \in Transient /\ Op(r) = "start" /\ Only(s, rows'[s].container)
    BY <1>5, <1>9, <1>11, <1>12, <2>2 DEF Work
  <2>3. CASE kind # "create"
    BY <1>5, <1>9, <1>11, <1>12, <2>3 DEF Work
  <2> QED
    BY <2>1, <2>2, <2>3
<1> QED
  BY <1>2, <1>3, <1>13, AskKeeps

\* What an active user request may count on.
LEMMA ActiveFacts ==
  ASSUME ScopeInv, OrderInv, NEW r \in Requests, Owns(r)
  PROVE  /\ requests[r] \in Request /\ Srv(r) \in Servers /\ InTable(Srv(r)) /\ Seen(r) \in Row
         /\ rows[Srv(r)] \in Row /\ rows[Srv(r)].name = Seen(r).name /\ Op(r) \in User
         /\ rows[Srv(r)].container < born
         /\ \A k \in containers : k.id = rows[Srv(r)].container => k.server = Srv(r)
         /\ rows[Srv(r)].status \in Statuses \ (Gone \cup {"unborn"})
<1>1. requests[r] \in Request
  BY DEF ScopeInv, TypeOK
<1>2. Srv(r) \in Servers /\ Seen(r) \in Row
  BY <1>1 DEF Srv, Seen, Request
<1>3. InTable(Srv(r)) /\ rows[Srv(r)].name = Seen(r).name
  BY DEF ScopeInv, RequestsInv, Held
<1>4. rows[Srv(r)] \in Row
  BY <1>2 DEF ScopeInv, TypeOK
<1>5. rows[Srv(r)].status \in Statuses \ (Gone \cup {"unborn"})
  BY <1>3, <1>4 DEF Row, InTable
<1> QED
  BY <1>1, <1>2, <1>3, <1>4, <1>5 DEF OrderInv, Ids, Owns, User

LEMMA ReadFacts ==
  ASSUME ScopeInv, OrderInv, NEW r \in Requests, Op(r) \in Owning, At(r, "read")
  PROVE  /\ Seen(r) = rows[Srv(r)] /\ Calm(Srv(r)) /\ Only(Srv(r), rows[Srv(r)].container)
         /\ Op(r) = "stop" => Seen(r).status = "running"
         /\ Op(r) = "restore" => Seen(r).status = "deleted"
         /\ Seen(r).container = NoId \/ Seen(r).status \in Barren => Clean(Srv(r))
<1>1. Srv(r) \in Servers
  BY ActiveFacts DEF Owns
<1>2. \A p \in Requests : ~Working(p)
  BY OthersIdle DEF OrderInv, Working, Owning
<1>3. Calm(Srv(r))
  BY <1>1, <1>2 DEF OrderInv, AtRest
<1>4. \A k \in containers : k.id # NoId
  BY DEF ScopeInv, TypeOK, Container
<1>5. /\ Seen(r) = rows[Srv(r)]
      /\ Op(r) = "stop" => Seen(r).status = "running"
      /\ Op(r) = "restore" => Seen(r).status = "deleted"
  BY DEF OrderInv, AsRead, Owning
<1> QED
  BY <1>3, <1>4, <1>5 DEF Calm, Only, Clean

LEMMA WorkFacts ==
  ASSUME ScopeInv, OrderInv, NEW r \in Requests, Op(r) \in User, ~At(r, "read")
  PROVE  Owns(r) /\ Work(r)
  BY DEF OrderInv, AtWork, Working, User, Owns

\* A server is at rest once it has no container, or only the one its row names.
LEMMA CalmAfter ==
  ASSUME NEW s \in Servers, Quiet,
         Clean(s) \/ (Only(s, rows'[s].container) /\ rows'[s].status \notin Barren \cup Gone \cup {"unborn"})
  PROVE  Calm(s)'
  BY DEF Quiet, hostVars, Clean, Only, Calm, InTable

LEMMA EndsKeep ==
  ASSUME ScopeInv, OrderInv, NEW r \in Requests, Op(r) \in User, At(r, "done"),
         requests[r].asks \in {"create", "rebuild"}, Finish(r), Quiet,
         \/ Got(r, {"ok"}) /\ SetRunning(Srv(r), requests[r].made)
         \/ /\ ~Got(r, {"ok"})
            /\ UNCHANGED rows \/ \E status \in {"failed", "missing"} : SetStatus(Srv(r), status)
            /\ Op(r) = "start" => SetStatus(Srv(r), "missing")
  PROVE  OrderInv'
<1>1. ~At(r, "wait") /\ ~At(r, "read") /\ ~At(r, "send") /\ ~At(r, "marked")
  BY DEF At
<1>2. Owns(r) /\ Work(r)
  BY <1>1, WorkFacts
<1>3. PICK s \in Servers : s = Srv(r)
  BY <1>2, ActiveFacts
<1>4. /\ s \in Servers /\ InTable(s) /\ TypeOK /\ requests[r].made \in Nat
      /\ rows[s].container < born /\ \A k \in containers : k.id = rows[s].container => k.server = s
  BY <1>2, <1>3, ActiveFacts DEF ScopeInv, Request
<1>5. IF Got(r, {"ok"})
      THEN /\ Only(s, requests[r].made) /\ requests[r].made < born
           /\ \A k \in containers : k.id = requests[r].made => k.server = s
      ELSE Clean(s) \/ (Op(r) = "start" /\ Only(s, rows[s].container))
  BY <1>1, <1>2, <1>3 DEF Work, At
<1>6. CASE Got(r, {"ok"}) /\ SetRunning(s, requests[r].made)
  <2>1. Changes(s, "running", requests[r].made)
    BY <1>4, <1>6, SetRunningChanges
  <2>2. Calm(s)'
    BY <1>4, <1>5, <1>6, <2>1, CalmAfter DEF Barren, Gone, Changes
  <2>3. OwnRow(s)
    BY <1>5, <1>6, <2>1 DEF OwnRow, Changes
  <2> QED
    BY <1>1, <1>4, <2>2, <2>3, FinishKeeps, <1>3
<1>7. ASSUME ~Got(r, {"ok"}),
             UNCHANGED rows \/ \E status \in {"failed", "missing"} : SetStatus(s, status),
             Op(r) = "start" => SetStatus(s, "missing")
      PROVE  OrderInv'
  <2>1. \E status \in Statuses : Changes(s, status, rows[s].container)
    BY <1>4, <1>7, SetStatusChanges, StatusesKept, ActiveFacts, <1>2, SameChanges, <1>3
  <2>2. Calm(s)'
    <3>1. CASE Clean(s)
      BY <1>4, <3>1, CalmAfter
    <3>2. CASE Op(r) = "start" /\ Only(s, rows[s].container)
      <4>1. Changes(s, "missing", rows[s].container)
        BY <1>4, <1>7, <3>2, SetStatusChanges, StatusesKept
      <4>2. "missing" \notin Barren \cup Gone \cup {"unborn"}
        BY DEF Barren, Gone
      <4> QED
        BY <1>4, <3>2, <4>1, <4>2, CalmAfter DEF Changes
    <3> QED
      BY <1>5, <1>7, <3>1, <3>2
  <2>3. OwnRow(s)
    BY <1>4, <2>1 DEF OwnRow, Changes
  <2> QED
    BY <1>1, <1>4, <2>2, <2>3, FinishKeeps, <1>3
<1> QED
  BY <1>3, <1>6, <1>7

LEMMA DonesKeep ==
  ASSUME ScopeInv, OrderInv, NEW r \in Requests,
         \/ CreateDone(r) \/ RecreateDone(r) \/ RebuildDone(r)
         \/ ApplyDone(r) /\ Finish(r)
  PROVE  OrderInv'
<1>1. Op(r) \in User /\ At(r, "done") /\ requests[r].asks \in {"create", "rebuild"} /\ Quiet
  BY DEF CreateDone, RecreateDone, RebuildDone, ApplyDone, Resumes, User, Owning
<1>2. requests[r] \in Request
  BY DEF ScopeInv, TypeOK
<1>3. Finish(r)
  BY DEF CreateDone, RecreateDone, RebuildDone
<1>4. \/ Got(r, {"ok"}) /\ SetRunning(Srv(r), requests[r].made)
      \/ /\ ~Got(r, {"ok"})
         /\ UNCHANGED rows \/ \E status \in {"failed", "missing"} : SetStatus(Srv(r), status)
         /\ Op(r) = "start" => SetStatus(Srv(r), "missing")
  BY DEF CreateDone, RecreateDone, RebuildDone, ApplyDone, Resumes, Got
<1> QED
  BY <1>1, <1>3, <1>4, EndsKeep

\* A request that resumes: "no such container" lets apply-config create one.
LEMMA ApplyKeeps ==
  ASSUME ScopeInv, OrderInv, NEW r \in Requests, ApplyDone(r)
  PROVE  OrderInv'
<1>1. CASE Finish(r)
  BY <1>1, DonesKeep
<1>2. CASE requests[r].asks = "rebuild" /\ Got(r, {"gone"}) /\ Ask(r, "create") /\ UNCHANGED rows
  <2>1. Op(r) \in User \ {"softDelete", "purge"} /\ At(r, "done") /\ ~At(r, "read") /\ ~At(r, "wait")
        /\ ~At(r, "send") /\ ~At(r, "marked") /\ Quiet /\ ~Got(r, {"ok"})
    BY <1>2 DEF ApplyDone, Resumes, User, Owning, At, Got
  <2>2. Owns(r) /\ Work(r)
    BY <2>1, WorkFacts
  <2>3. PICK s \in Servers : s = Srv(r)
    BY <2>2, ActiveFacts
  <2>8. Op(r) = "apply"
    BY <1>2, <2>1 DEF ApplyDone, Resumes
  <2>4. /\ rows[s].status \in Transient /\ Clean(s)
        /\ InTable(s) /\ rows[s].container = Seen(r).container
    BY <1>2, <2>1, <2>2, <2>3, <2>8 DEF Work, At
  <2>5. OwnRow(s)
    BY <1>2, <2>2, <2>3, ActiveFacts DEF OwnRow
  <2>6. InTable(s)'
    BY <1>2, <2>4 DEF InTable
  <2>7. "create" \in Kinds
    BY DEF Kinds
  <2> QED
    BY <1>2, <2>1, <2>3, <2>4, <2>5, <2>6, <2>7, AskReady
<1> QED
  BY <1>1, <1>2 DEF ApplyDone

\* A request that ends without a new container.
LEMMA PlainDonesKeep ==
  ASSUME ScopeInv, OrderInv, NEW r \in Requests,
         StartDone(r) \/ StopDone(r) \/ SoftDeleteDone(r)
  PROVE  OrderInv'
<1>1. /\ Op(r) \in User /\ At(r, "done") /\ ~At(r, "read") /\ ~At(r, "wait") /\ ~At(r, "send") /\ ~At(r, "marked")
      /\ Finish(r) /\ Quiet
  BY DEF StartDone, StopDone, SoftDeleteDone, Resumes, User, Owning, At
<1>2. Owns(r) /\ Work(r)
  BY <1>1, WorkFacts
<1>3. PICK s \in Servers : s = Srv(r)
  BY <1>2, ActiveFacts
<1>4. /\ InTable(s) /\ TypeOK /\ rows[s].container < born
      /\ \A k \in containers : k.id = rows[s].container => k.server = s
  BY <1>2, <1>3, ActiveFacts DEF ScopeInv
<1>5. CASE SoftDeleteDone(r)
  <2>1. Clean(s)
    BY <1>1, <1>2, <1>3, <1>5 DEF Work, SoftDeleteDone, Resumes, At
  <2>2. OwnRow(s)
    BY <1>4, <1>5 DEF SoftDeleteDone, OwnRow
  <2> QED
    BY <1>1, <1>3, <2>1, <2>2, CalmAfter, FinishKeeps
<1>6. CASE StartDone(r) \/ StopDone(r)
  <2>1. rows[s].status \in {"running", "stopped"} /\ Calm(s)
    BY <1>1, <1>2, <1>3, <1>6 DEF Work, StartDone, StopDone, Resumes, At
  <2>2. UNCHANGED rows \/ \E status \in {"running", "stopped"} : SetStatus(s, status)
    BY <1>3, <1>6 DEF StartDone, StopDone
  <2>3. \A t \in Servers \ {s} : rows'[t] = rows[t]
    BY <1>4, <2>2, SetStatusChanges, StatusesKept DEF Changes
  <2>4. rows'[s].container = rows[s].container /\ rows'[s].status \in {"running", "stopped"}
    BY <1>4, <2>1, <2>2, SetStatusChanges, StatusesKept DEF Changes
  <2>5. Only(s, rows'[s].container)
    BY <2>1, <2>4 DEF Calm, Only
  <2>6. Calm(s)'
    BY <1>1, <2>4, <2>5, CalmAfter DEF Barren, Gone
  <2>7. OwnRow(s)
    BY <1>4, <2>3, <2>4 DEF OwnRow
  <2> QED
    BY <1>1, <1>3, <2>6, <2>7, FinishKeeps
<1> QED
  BY <1>5, <1>6

LEMMA CreateInsertKeeps ==
  ASSUME ScopeInv, OrderInv, NEW r \in Requests, CreateInsert(r)
  PROVE  OrderInv'
<1>1. /\ Op(r) \in User \ {"softDelete", "purge"} /\ At(r, "read") /\ ~At(r, "wait") /\ Quiet
      /\ Op(r) = "create" /\ Op(r) # "none"
  BY DEF CreateInsert, User, Owning, At
<1>2. requests[r] \in Request /\ rows \in [Servers -> Row] /\ Seen(r) \in Row
  BY DEF ScopeInv, TypeOK, Seen, Request
<1>3. PICK s \in Servers : s = Srv(r)
  BY <1>2 DEF Srv, Request
<1>4. /\ Seen(r).container = rows[s].container /\ rows[s].container < born
      /\ \A k \in containers : k.id = rows[s].container => k.server = s
  BY <1>1, <1>3 DEF OrderInv, AsRead, Ids
<1>5. \A p \in Requests : ~Working(p)
  BY <1>1, OthersIdle DEF OrderInv, Working
<1>6. Calm(s) /\ ~InTable(s)
  BY <1>1, <1>3, <1>5 DEF OrderInv, AtRest, ScopeInv, RequestsInv, Fresh, InTable
<1>7. Clean(s)
  BY <1>6 DEF Calm, Clean
<1>8. CASE Finish(r) /\ UNCHANGED rows
  <2>1. OwnRow(s)
    BY <1>4, <1>8 DEF OwnRow
  <2> QED
    BY <1>1, <1>3, <1>7, <1>8, <2>1, CalmAfter, FinishKeeps
<1>9. CASE rows' = [rows EXCEPT ![s] = [Seen(r) EXCEPT !.status = "creating"]] /\ Ask(r, "create")
  <2> DEFINE row == [Seen(r) EXCEPT !.status = "creating"]
  <2>1. row.status = "creating" /\ row.container = rows[s].container
    BY <1>2, <1>4 DEF Row
  <2> HIDE DEF row
  <2>2. rows' = [rows EXCEPT ![s] = row]
    BY <1>9 DEF row
  <2>3. rows'[s] = row /\ \A t \in Servers \ {s} : rows'[t] = rows[t]
    BY <1>2, <2>2
  <2>4. OwnRow(s)
    BY <1>4, <2>1, <2>3 DEF OwnRow
  <2>5. InTable(s)' /\ rows'[s].status \in Transient
    BY <2>1, <2>3 DEF InTable, Gone, Transient
  <2>6. "create" \in Kinds
    BY DEF Kinds
  <2> QED
    BY <1>1, <1>3, <1>4, <1>7, <1>9, <2>1, <2>3, <2>4, <2>5, <2>6, AskReady
<1> QED
  BY <1>3, <1>8, <1>9 DEF CreateInsert

\* A request begins on the row it has read.
LEMMA BeginningsKeep ==
  ASSUME ScopeInv, OrderInv, NEW r \in Requests,
         StartExisting(r) \/ Stop(r) \/ Purge(r) \/ Rebuild(r) \/ SoftDelete(r)
         \/ (Recreate(r) /\ At(r, "read"))
  PROVE  OrderInv'
<1>1. Op(r) \in Owning /\ Op(r) \in User /\ At(r, "read") /\ ~At(r, "wait") /\ Quiet /\ Owns(r)
  BY DEF StartExisting, Stop, Purge, Rebuild, SoftDelete, Recreate, User, Owning, At, Owns
<1>2. PICK s \in Servers : s = Srv(r)
  BY <1>1, ActiveFacts
<1>3. /\ InTable(s) /\ TypeOK /\ rows[s].container < born /\ rows[s] \in Row
      /\ \A k \in containers : k.id = rows[s].container => k.server = s
      /\ rows[s].status \in Statuses \ (Gone \cup {"unborn"})
  BY <1>1, <1>2, ActiveFacts DEF ScopeInv
<1>4. /\ Seen(r) = rows[s] /\ Calm(s) /\ Only(s, rows[s].container)
      /\ Op(r) = "stop" => Seen(r).status = "running"
      /\ Seen(r).container = NoId \/ Seen(r).status \in Barren => Clean(s)
  BY <1>1, <1>2, ReadFacts
<1>5. \A kind \in {"create", "delete", "rebuild", "start", "stop"} : kind \in Kinds
  BY DEF Kinds
<1>6. ASSUME NEW kind \in {"create", "rebuild"}, NEW status \in Transient, SetStatus(s, status),
             Ask(r, kind), kind = "create" => Clean(s) \/ Op(r) = "start", Op(r) \notin {"softDelete", "purge"}
      PROVE  OrderInv'
  <2>1. status \in Statuses \ (Gone \cup {"unborn"})
    BY DEF Transient, Statuses, Gone
  <2>2. Changes(s, status, rows[s].container)
    BY <1>3, <1>6, <2>1, SetStatusChanges
  <2>3. OwnRow(s) /\ InTable(s)' /\ rows'[s].container = Seen(r).container /\ rows'[s].status \in Transient
        /\ Only(s, rows'[s].container)
    BY <1>3, <1>4, <2>1, <2>2 DEF Changes, OwnRow, InTable
  <2>4. kind \in Kinds /\ (Op(r) \in {"softDelete", "purge"} <=> kind = "delete")
    BY <1>5, <1>6
  <2>5. CASE kind = "create"
    BY <1>1, <1>2, <1>6, <2>3, <2>4, <2>5, AskReady
  <2>6. CASE kind = "rebuild"
    BY <1>1, <1>2, <1>6, <2>3, <2>4, <2>6, AskReady
  <2> QED
    BY <1>6, <2>5, <2>6
<1>7. ASSUME NEW kind \in {"delete", "start", "stop"}, UNCHANGED rows, Ask(r, kind),
             IF kind = "delete" THEN Op(r) \in {"softDelete", "purge"}
             ELSE Op(r) \notin {"softDelete", "purge"} /\ rows[s].status \in {"running", "stopped"}
      PROVE  OrderInv'
  <2>1. OwnRow(s) /\ InTable(s)' /\ rows'[s].container = Seen(r).container
        /\ Only(s, rows'[s].container) /\ Calm(s)'
    BY <1>1, <1>3, <1>4, <1>7 DEF OwnRow, InTable, Calm, Quiet, hostVars
  <2> QED
    BY <1>1, <1>2, <1>5, <1>7, <2>1, AskReady
<1>8. CASE StartExisting(r) \/ Stop(r) \/ Purge(r)
  BY <1>4, <1>7, <1>8 DEF StartExisting, Stop, Purge, OrderInv
<1>9. CASE Rebuild(r) \/ Recreate(r)
  <2>1. \E status \in Transient : SetStatus(s, status)
    BY <1>2, <1>9 DEF Rebuild, Recreate, Transient
  <2>2. Rebuild(r) => Ask(r, "rebuild") /\ Op(r) \notin {"softDelete", "purge"}
    BY DEF Rebuild
  <2>3. Recreate(r) => Ask(r, "create") /\ Op(r) \notin {"softDelete", "purge"} /\ (Clean(s) \/ Op(r) = "start")
    BY <1>1, <1>4 DEF Recreate, At
  <2> QED
    BY <1>6, <1>9, <2>1, <2>2, <2>3
<1>10. CASE SoftDelete(r)
  <2> DEFINE row == [rows[s] EXCEPT !.status = "deleted", !.deletedAt = TRUE]
  <2>1. row \in Row /\ row.status = "deleted" /\ row.container = rows[s].container
    BY <1>3 DEF Row, Statuses
  <2>2. Write(s, row)
    BY <1>2, <1>10 DEF SoftDelete
  <2> HIDE DEF row
  <2>3. Changes(s, "deleted", rows[s].container)
    BY <1>3, <2>1, <2>2, WriteChanges
  <2>4. OwnRow(s) /\ InTable(s)' /\ rows'[s].container = Seen(r).container /\ Only(s, rows'[s].container)
    BY <1>3, <1>4, <2>3 DEF Changes, OwnRow, InTable, Gone
  <2>5. CASE Seen(r).container = NoId /\ Finish(r)
    BY <1>1, <1>2, <1>4, <2>4, <2>5, CalmAfter, FinishKeeps
  <2>6. CASE Ask(r, "delete")
    <3>1. Op(r) \in {"softDelete", "purge"}
      BY <1>10 DEF SoftDelete
    <3> QED
      BY <1>1, <1>2, <1>5, <2>4, <2>6, <3>1, AskReady
  <2> QED
    BY <1>10, <2>5, <2>6 DEF SoftDelete
<1> QED
  BY <1>8, <1>9, <1>10

LEMMA RestoreKeeps ==
  ASSUME ScopeInv, OrderInv, NEW r \in Requests, Restore(r)
  PROVE  OrderInv'
<1>1. /\ Op(r) \in Owning /\ Op(r) \in User /\ At(r, "read") /\ ~At(r, "wait") /\ Quiet /\ Owns(r)
      /\ Op(r) = "restore"
  BY DEF Restore, User, Owning, At, Owns
<1>2. PICK s \in Servers : s = Srv(r)
  BY <1>1, ActiveFacts
<1>3. /\ InTable(s) /\ TypeOK /\ rows[s].container < born /\ rows[s] \in Row
      /\ \A k \in containers : k.id = rows[s].container => k.server = s
      /\ requests[r] \in Request
  BY <1>1, <1>2, ActiveFacts DEF ScopeInv
<1>4. Seen(r) = rows[s] /\ Clean(s)
  BY <1>1, <1>2, ReadFacts DEF Barren
<1> DEFINE row == [rows[s] EXCEPT !.status = "missing", !.deletedAt = FALSE]
           q == [requests[r] EXCEPT !.at = "marked"]
<1>5. row \in Row /\ row.status = "missing" /\ row.container = rows[s].container
  BY <1>3 DEF Row, Statuses
<1>6. /\ q \in Request /\ q.op = "restore" /\ q.server = s /\ q.at = "marked" /\ q.read = Seen(r)
      /\ q.asks = requests[r].asks
  BY <1>1, <1>2, <1>3 DEF Request, Op, Srv, Seen
<1>7. Write(s, row) /\ Become(r, q)
  BY <1>2 DEF Restore
<1> HIDE DEF row, q
<1>8. Changes(s, "missing", rows[s].container)
  BY <1>3, <1>5, <1>7, WriteChanges
<1>9. OwnRow(s) /\ InTable(s)' /\ rows'[s].container = Seen(r).container /\ rows'[s].status = "missing"
  BY <1>3, <1>4, <1>8 DEF Changes, OwnRow, InTable, Gone
<1>10. requests'[r] = q
  BY <1>3, <1>6, <1>7, BecomeType
<1>11. Op(r)' = "restore" /\ Srv(r)' = s /\ requests'[r].read = Seen(r) /\ At(r, "marked")'
  BY <1>6, <1>10 DEF Op, Srv, At
<1>12. Clean(s)'
  BY <1>1, <1>4 DEF Clean, Quiet, hostVars
<1>13. requests'[r].asks # "delete"
  BY <1>1, <1>6, <1>10 DEF OrderInv, AsRead
<1>14. Work(r)'
  BY <1>9, <1>11, <1>12, <1>13 DEF Work, Seen
<1> QED
  BY <1>1, <1>2, <1>6, <1>7, <1>9, <1>14, AskKeeps

LEMMA RecreateMarkedKeeps ==
  ASSUME ScopeInv, OrderInv, NEW r \in Requests, Recreate(r), At(r, "marked")
  PROVE  OrderInv'
<1>1. /\ Op(r) = "restore" /\ Op(r) \in User /\ ~At(r, "wait") /\ ~At(r, "read") /\ ~At(r, "send") /\ ~At(r, "done")
      /\ Quiet /\ Ask(r, "create") /\ SetStatus(Srv(r), "creating")
  BY DEF Recreate, User, Owning, At
<1>2. Owns(r) /\ Work(r)
  BY <1>1, WorkFacts
<1>3. PICK s \in Servers : s = Srv(r)
  BY <1>2, ActiveFacts
<1>4. /\ InTable(s) /\ TypeOK /\ rows[s].container < born
      /\ \A k \in containers : k.id = rows[s].container => k.server = s
  BY <1>2, <1>3, ActiveFacts DEF ScopeInv
<1>5. Clean(s) /\ rows[s].container = Seen(r).container
  BY <1>1, <1>2, <1>3 DEF Work, At
<1>6. Changes(s, "creating", rows[s].container)
  BY <1>1, <1>3, <1>4, SetStatusChanges, StatusesKept
<1>7. OwnRow(s) /\ InTable(s)' /\ rows'[s].container = Seen(r).container /\ rows'[s].status \in Transient
  BY <1>4, <1>5, <1>6 DEF Changes, OwnRow, InTable, Gone, Transient
<1>8. "create" \in Kinds
  BY DEF Kinds
<1> QED
  BY <1>1, <1>3, <1>5, <1>7, <1>8, AskReady

\* A row that is erased names no container.
LEMMA EraseChanges ==
  ASSUME TypeOK, NEW s \in Servers, InTable(s), NEW how \in Gone, Erase(s, how)
  PROVE  /\ \A t \in Servers \ {s} : rows'[t] = rows[t]
         /\ rows'[s].container = NoId /\ rows'[s].status = how
<1> DEFINE row == [Blank EXCEPT !.status = how]
<1>1. row.container = NoId /\ row.status = how
  BY DEF Blank
<1>2. rows' = [rows EXCEPT ![s] = row] /\ rows \in [Servers -> Row]
  BY DEF Erase, TypeOK
<1> HIDE DEF row
<1> QED
  BY <1>1, <1>2

LEMMA NoIdOwn ==
  ASSUME TypeOK, NEW s \in Servers, \A t \in Servers \ {s} : rows'[t] = rows[t],
         rows'[s].container = NoId
  PROVE  OwnRow(s)
<1>1. \A k \in containers : k.id # NoId
  BY DEF TypeOK, Container
<1>2. NoId < born
  BY DEF TypeOK, NoId
<1> QED
  BY <1>1, <1>2 DEF OwnRow

LEMMA PurgeDoneKeeps ==
  ASSUME ScopeInv, OrderInv, NEW r \in Requests, PurgeDone(r)
  PROVE  OrderInv'
<1>1. /\ Op(r) = "purge" /\ Op(r) \in User /\ ~At(r, "wait") /\ ~At(r, "read") /\ ~At(r, "send") /\ ~At(r, "marked")
      /\ Quiet /\ Finish(r) /\ Erase(Srv(r), "purged")
  BY DEF PurgeDone, User, Owning, At
<1>2. Owns(r) /\ Work(r)
  BY <1>1, WorkFacts
<1>3. PICK s \in Servers : s = Srv(r)
  BY <1>2, ActiveFacts
<1>4. InTable(s) /\ TypeOK /\ Clean(s)
  BY <1>1, <1>2, <1>3, ActiveFacts DEF ScopeInv, Work, At
<1>5. (\A t \in Servers \ {s} : rows'[t] = rows[t]) /\ rows'[s].container = NoId
  BY <1>1, <1>3, <1>4, EraseChanges DEF Gone
<1>6. OwnRow(s)
  BY <1>4, <1>5, NoIdOwn
<1> QED
  BY <1>1, <1>3, <1>4, <1>6, CalmAfter, FinishKeeps

\* A step of a request that is not at work on a server of its own.
LEMMA OtherKeeps ==
  ASSUME ScopeInv, OrderInv, NEW r \in Requests, Op(r) \in {"container", "cleanup", "sync"}, ~At(r, "wait"),
         NEW q \in Request, q.op = Op(r) \/ q = Idle, q.at # "wait", Become(r, q), Quiet,
         NEW s \in Servers, OwnRow(s), Calm(s)', Lists(r)'
  PROVE  OrderInv'
<1>1. \A p \in Requests : requests'[p] = IF p = r THEN q ELSE requests[p]
  BY BecomeType DEF ScopeInv
<1>2. Idle.op = "none"
  BY IdleType
<1>3. Acts(r, s, q)
  BY <1>1, <1>2 DEF Acts, Quiet, hostVars, Owning
<1>4. q.op \notin Owning \cup {"create"}
  BY <1>2 DEF Owning
<1> QED
  BY <1>3, <1>4, ActsKeep

LEMMA OthersCalm ==
  ASSUME ScopeInv, OrderInv, NEW r \in Requests, Op(r) \in {"none", "container", "cleanup", "sync"},
         Op(r) = "none" => \A p \in Requests : Op(p) = "none"
  PROVE  \A s \in Servers : Calm(s)
<1>1. \A p \in Requests : ~Working(p)
  BY OthersIdle DEF OrderInv, Working, Owning
<1> QED
  BY <1>1 DEF OrderInv, AtRest

LEMMA CleanupKeeps ==
  ASSUME ScopeInv, OrderInv, NEW r \in Requests, NEW s \in Servers, CleanupNext(r, s)
  PROVE  OrderInv'
<1> DEFINE rest == requests[r].todo \ {s}
           q == [requests[r] EXCEPT !.todo = rest]
<1>1. /\ Op(r) = "cleanup" /\ At(r, "rows") /\ ~At(r, "wait") /\ s \in requests[r].todo
      /\ Erase(s, "cleaned") /\ Quiet
  BY DEF CleanupNext, At
<1>2. requests[r] \in Request /\ TypeOK
  BY DEF ScopeInv, TypeOK
<1>3. \A t \in requests[r].todo : rows[t].status = "failed"
  BY <1>1 DEF OrderInv, Listed, Lists
<1>4. InTable(s)
  BY <1>1, <1>3 DEF InTable, Gone
<1>5. (\A t \in Servers \ {s} : rows'[t] = rows[t]) /\ rows'[s].container = NoId
  BY <1>1, <1>2, <1>4, EraseChanges DEF Gone
<1>6. OwnRow(s)
  BY <1>2, <1>5, NoIdOwn
<1>7. Calm(s)
  BY <1>1, OthersCalm
<1>8. Clean(s)
  BY <1>1, <1>3, <1>7 DEF Calm, Clean, Barren
<1>9. Calm(s)'
  BY <1>1, <1>8, CalmAfter
<1>10. /\ q \in Request /\ q.op = "cleanup" /\ q.at = "rows" /\ q.todo = rest
       /\ rest \subseteq Servers
  BY <1>1, <1>2 DEF Request, Op, At
<1>11. Finish(r) \/ Become(r, q)
  BY DEF CleanupNext
<1>12. Idle \in Request /\ Idle.op = "none" /\ Idle.at = "idle"
  BY IdleType
<1> HIDE DEF q
<1>13. CASE Finish(r)
  <2>1. Become(r, Idle) /\ requests'[r] = Idle
    BY <1>2, <1>12, <1>13, BecomeType DEF Finish
  <2>2. Lists(r)'
    BY <2>1, <1>12 DEF Lists, Op
  <2> QED
    BY <1>1, <1>6, <1>9, <1>12, <2>1, <2>2, OtherKeeps
<1>14. CASE Become(r, q)
  <2>1. requests'[r] = q
    BY <1>2, <1>10, <1>14, BecomeType
  <2>2. Lists(r)'
    BY <2>1, <1>3, <1>5, <1>10 DEF Lists, Op, At
  <2> QED
    BY <1>1, <1>6, <1>9, <1>10, <1>14, <2>2, OtherKeeps
<1> QED
  BY <1>11, <1>13, <1>14

\* A step that leaves the rows alone and ends, or goes on with the list it was given.
LEMMA SyncBeginningsKeep ==
  ASSUME ScopeInv, OrderInv, NEW r \in Requests, SyncRead(r) \/ SyncListed(r) \/ ContainerDone(r)
  PROVE  OrderInv'
<1>1. Op(r) \in {"container", "sync"} /\ ~At(r, "wait") /\ UNCHANGED rows /\ Quiet
  BY DEF SyncRead, SyncListed, ContainerDone, Resumes, At
<1>2. requests[r] \in Request /\ TypeOK
  BY DEF ScopeInv, TypeOK
<1>3. PICK s \in Servers : TRUE
  BY ServersAssumption
<1>4. OwnRow(s)
  BY <1>1 DEF OwnRow, OrderInv, Ids
<1>5. Calm(s)'
  <2>1. Calm(s)
    BY <1>1, OthersCalm
  <2> QED
    BY <1>1, <2>1 DEF Calm, Quiet, hostVars, InTable
<1>6. Idle \in Request /\ Idle.op = "none" /\ Idle.at = "idle"
  BY IdleType
<1>7. CASE Finish(r)
  <2>1. Become(r, Idle) /\ requests'[r] = Idle
    BY <1>2, <1>6, <1>7, BecomeType DEF Finish
  <2>2. Lists(r)'
    BY <2>1, <1>6 DEF Lists, Op
  <2> QED
    BY <1>1, <1>4, <1>5, <1>6, <2>1, <2>2, OtherKeeps
<1>8. CASE SyncRead(r) /\ ~Finish(r)
  <2> DEFINE q == [requests[r] EXCEPT !.at = "send", !.asks = "list", !.table = rows, !.todo = Table]
  <2>1. /\ q \in Request /\ q.op = "sync" /\ q.at = "send" /\ q.table = rows /\ q.todo = Table
        /\ q.found = requests[r].found /\ q.asks = "list"
    BY <1>2, <1>8 DEF Request, SyncRead, Op, TypeOK, Table, Kinds
  <2>2. Become(r, q)
    BY <1>8 DEF SyncRead
  <2> HIDE DEF q
  <2>3. requests'[r] = q
    BY <1>2, <2>1, <2>2, BecomeType
  <2>4. Table' = Table
    BY <1>1 DEF Table, InTable
  <2>5. Lists(r)'
    BY <1>1, <2>1, <2>3, <2>4 DEF Lists, Op, At
  <2> QED
    BY <1>1, <1>4, <1>5, <1>8, <2>1, <2>2, <2>5, OtherKeeps DEF SyncRead
<1>9. CASE SyncListed(r) /\ ~Finish(r)
  <2> DEFINE q == [requests[r] EXCEPT !.at = "rows"]
  <2>1. /\ q \in Request /\ q.op = "sync" /\ q.at = "rows" /\ q.todo = requests[r].todo
        /\ q.table = requests[r].table /\ q.found = requests[r].found
        /\ q.asks = requests[r].asks /\ q.answer = requests[r].answer
    BY <1>2, <1>9 DEF Request, SyncListed, Resumes, Op
  <2>2. Become(r, q) /\ Op(r) = "sync" /\ At(r, "done") /\ ~At(r, "read") /\ Got(r, {"ok", "unlisted"})
    BY <1>9 DEF SyncListed, Resumes, At
  <2> HIDE DEF q
  <2>3. requests'[r] = q
    BY <1>2, <2>1, <2>2, BecomeType
  <2>4. Table' = Table /\ \A n \in Names : Named(n)' = Named(n)
    BY <1>1 DEF Table, InTable, Named, Quiet, hostVars
  <2>5. Lists(r)
    BY DEF OrderInv, Listed
  <2>6. Lists(r)'
    BY <1>1, <2>1, <2>2, <2>3, <2>4, <2>5 DEF Lists, Op, At, Got
  <2> QED
    BY <1>1, <1>4, <1>5, <2>1, <2>2, <2>6, OtherKeeps
<1> QED
  BY <1>7, <1>8, <1>9 DEF ContainerDone

LEMMA SyncNextKeeps ==
  ASSUME ScopeInv, OrderInv, NEW r \in Requests, NEW s \in Servers, SyncNext(r, s)
  PROVE  OrderInv'
<1> DEFINE rest == requests[r].todo \ {s}
           q == [requests[r] EXCEPT !.todo = rest]
           status == SyncStatus(rows[s], requests[r].found)
<1>1. /\ Op(r) = "sync" /\ At(r, "rows") /\ ~At(r, "wait") /\ ~At(r, "read") /\ s \in requests[r].todo /\ Quiet
  BY DEF SyncNext, At
<1>2. requests[r] \in Request /\ TypeOK /\ rows[s] \in Row
  BY DEF ScopeInv, TypeOK
<1>3. /\ requests[r].asks = "list" /\ requests[r].todo \subseteq Table
      /\ \A t \in requests[r].todo : requests[r].table[t] = rows[t]
      /\ Got(r, {"ok", "unlisted"}) /\ (Got(r, {"unlisted"}) => requests[r].found = {})
      /\ Got(r, {"ok"}) => \A n \in Names : (\E x \in requests[r].found : x.name = n) <=> Named(n) # {}
  BY <1>1 DEF OrderInv, Listed, Lists
<1>4. InTable(s) /\ requests[r].table[s] = rows[s]
  BY <1>1, <1>3 DEF Table
<1>5. SetStatus(s, status) \/ UNCHANGED rows
  BY <1>4 DEF SyncNext
<1>6. status \in Statuses \ (Gone \cup {"unborn"})
  BY <1>2, SyncStatusType
<1>7. status \notin Barren \/ status = rows[s].status
  BY DEF SyncStatus, Barren
<1> HIDE DEF status
<1>8. /\ \A t \in Servers \ {s} : rows'[t] = rows[t]
      /\ rows'[s].container = rows[s].container
      /\ rows'[s].status \in {status, rows[s].status}
  BY <1>2, <1>4, <1>5, <1>6, SetStatusChanges DEF Changes
<1>9. OwnRow(s)
  BY <1>8 DEF OwnRow, OrderInv, Ids
<1>10. Calm(s)
  BY <1>1, OthersCalm
<1>11. Calm(s)'
  <2> SUFFICES ASSUME NEW k \in containers, k.server = s
               PROVE  /\ InTable(s)' /\ k.id = rows'[s].container
                      /\ rows'[s].status \notin Barren
    BY <1>1 DEF Calm, Quiet, hostVars
  <2>1. status \notin Barren /\ k.id = rows[s].container /\ rows[s].status \notin Barren
    BY <1>7, <1>10 DEF Calm
  <2> QED
    BY <1>4, <1>6, <1>8, <2>1 DEF InTable, Gone
<1>12. /\ q \in Request /\ q.op = "sync" /\ q.at = "rows" /\ q.todo = rest /\ q.asks = "list"
       /\ q.table = requests[r].table /\ q.found = requests[r].found /\ q.answer = requests[r].answer
  BY <1>1, <1>2, <1>3 DEF Request, Op, At
<1>13. Finish(r) \/ Become(r, q)
  BY DEF SyncNext
<1>14. Idle \in Request /\ Idle.op = "none" /\ Idle.at = "idle"
  BY IdleType
<1> HIDE DEF q
<1>15. CASE Finish(r)
  <2>1. Become(r, Idle) /\ requests'[r] = Idle
    BY <1>2, <1>14, <1>15, BecomeType DEF Finish
  <2>2. Lists(r)'
    BY <2>1, <1>14 DEF Lists, Op
  <2> QED
    BY <1>1, <1>9, <1>11, <1>14, <2>1, <2>2, OtherKeeps
<1>16. CASE Become(r, q)
  <2>1. requests'[r] = q
    BY <1>2, <1>12, <1>16, BecomeType
  <2>2. \A n \in Names : Named(n)' = Named(n)
    BY <1>1 DEF Named, Quiet, hostVars
  <2>3. rest \subseteq Table' /\ \A t \in rest : requests[r].table[t] = rows'[t]
    BY <1>3, <1>8 DEF Table, InTable
  <2>4. Lists(r)'
    BY <2>1, <2>2, <2>3, <1>3, <1>12 DEF Lists, Op, At, Got
  <2> QED
    BY <1>1, <1>9, <1>11, <1>12, <1>16, <2>4, OtherKeeps
<1> QED
  BY <1>13, <1>15, <1>16

\* A command goes on its way alone.
LEMMA SendKeeps ==
  ASSUME ScopeInv, OrderInv, NEW r \in Requests, Send(r)
  PROVE  OrderInv'
<1>1. TypeOK /\ online /\ At(r, "send") /\ ~At(r, "wait") /\ ~At(r, "idle") /\ ~At(r, "read")
      /\ ~At(r, "rows") /\ ~At(r, "done") /\ ~At(r, "marked") /\ Op(r) # "none"
  BY DEF ScopeInv, RequestsInv, Ended, OrderInv, Send, At
<1>2. Sends(r)
  BY <1>1 DEF Send, Sends
<1> DEFINE q == [requests[r] EXCEPT !.at = "wait"]
<1>3. requests[r] \in Request
  BY <1>1 DEF TypeOK
<1>4. /\ q \in Request /\ q.op = Op(r) /\ q.server = Srv(r) /\ q.read = Seen(r) /\ q.at = "wait"
      /\ q.asks = requests[r].asks /\ q.wipe = requests[r].wipe /\ q.todo = requests[r].todo
      /\ q.table = requests[r].table /\ q.answer = requests[r].answer
  BY <1>3 DEF Request, Op, Srv, Seen
<1>5. Become(r, q)
  BY <1>2 DEF Sends
<1> HIDE DEF q
<1>6. \A p \in Requests : requests'[p] = IF p = r THEN q ELSE requests[p]
  BY <1>1, <1>4, <1>5, BecomeType
<1>7. \A p \in Requests \ {r} : /\ Op(p) = "none" /\ At(p, "idle") /\ ~Working(p)
                                /\ Op(p)' = "none" /\ At(p, "idle")' /\ ~Working(p)'
  <2>1. \A p \in Requests \ {r} : Op(p) = "none" /\ At(p, "idle") /\ ~Working(p)
    BY <1>1, OthersIdle DEF OrderInv
  <2> QED
    BY <1>6, <2>1 DEF Op, At, Working, Owning
<1>8. UNCHANGED <<rows, online, containers, born>> /\ queue' = Append(queue, CommandOf(r))
  BY <1>2 DEF Sends, hostVars
<1>9. /\ Op(r)' = Op(r) /\ Srv(r)' = Srv(r) /\ Seen(r)' = Seen(r) /\ requests'[r].at = "wait"
      /\ requests'[r].asks = requests[r].asks /\ requests'[r].wipe = requests[r].wipe
  BY <1>4, <1>6 DEF Op, Srv, Seen
<1>10. queue' = <<CommandOf(r)>>
  <2>1. queue = <<>>
    BY <1>1, <1>7 DEF OrderInv, QueueOfOne, At
  <2> QED
    BY <1>8, <2>1
<1>11. CommandOf(r)' = CommandOf(r)
  BY <1>9 DEF CommandOf, Seen
<1>12. OneRequest' /\ online'
  BY <1>1, <1>7, <1>8 DEF OneRequest
<1>13. QueueOfOne'
  <2>1. At(r, "wait")'
    BY <1>9 DEF At
  <2>2. \A p \in Requests \ {r} : ~At(p, "wait")'
    BY <1>7 DEF At
  <2>3. \A p \in Requests : At(p, "wait")' => queue' = <<CommandOf(p)'>>
    BY <1>10, <1>11, <2>2
  <2> QED
    BY <2>1, <2>3 DEF QueueOfOne
<1>14. Ids'
  BY <1>8 DEF OrderInv, Ids
<1>15. Working(r)' <=> Working(r)
  BY <1>1, <1>9 DEF Working, At
<1>16. AtRest'
  <2> SUFFICES ASSUME NEW t \in Servers, \A p \in Requests : Working(p)' => Srv(p)' # t
               PROVE  Calm(t)'
    BY DEF AtRest
  <2>1. Calm(t)
    BY <1>7, <1>9, <1>15 DEF OrderInv, AtRest
  <2> QED
    BY <1>8, <2>1 DEF Calm, InTable
<1>17. AtWork'
  <2>1. ASSUME Working(r) PROVE Work(r)'
    <3>1. Work(r)
      BY <2>1 DEF OrderInv, AtWork
    <3>2. PICK s : s = Srv(r)
      OBVIOUS
    <3>3. /\ InTable(s)' = InTable(s) /\ Clean(s)' = Clean(s) /\ Calm(s)' = Calm(s)
          /\ Only(s, rows[s].container)' = Only(s, rows[s].container)
      BY <1>8 DEF InTable, Clean, Calm, Only
    <3>4. requests[r].at = "send" /\ requests'[r].at = "wait" /\ ~At(r, "marked")'
      BY <1>1, <1>9 DEF At
    <3> QED
      BY <1>1, <1>8, <1>9, <3>1, <3>2, <3>3, <3>4 DEF Work, Seen
  <2> QED
    BY <1>7, <1>15, <2>1 DEF AtWork
<1>18. AsRead'
  BY <1>7, <1>9 DEF AsRead, At, Owning
<1>19. Listed'
  <2>1. Lists(r)
    BY DEF OrderInv, Listed
  <2>2. Table' = Table
    BY <1>8 DEF Table, InTable
  <2>3. requests'[r] = q
    BY <1>6
  <2>4. Lists(r)'
    BY <1>1, <1>4, <1>8, <2>1, <2>2, <2>3 DEF Lists, Op, At
  <2> QED
    BY <1>7, <2>4 DEF Listed, Lists
<1> QED
  BY <1>12, <1>13, <1>14, <1>16, <1>17, <1>18, <1>19 DEF OrderInv

\* A request arrives when every server is at rest.
LEMMA ArrivesKeeps ==
  ASSUME ScopeInv, OrderInv, Overlap = {}, NEW r \in Requests, Arrives(r), UNCHANGED online
  PROVE  OrderInv'
<1>1. PICK q \in Request : Opening(q) /\ MayOverlap(q.op) /\ Become(r, q)
  BY DEF Arrives
<1>2. \A p \in Requests : Op(p) = "none" /\ At(p, "idle") /\ ~Working(p)
  BY <1>1 DEF MayOverlap, ScopeInv, RequestsInv, Ended, Working, Owning
<1>3. \A p \in Requests : requests'[p] = IF p = r THEN q ELSE requests[p]
  BY <1>1, BecomeType DEF ScopeInv
<1>4. UNCHANGED <<rows, online, queue, containers, born>>
  BY DEF Arrives, hostVars
<1>5. \A p \in Requests \ {r} : Op(p)' = "none" /\ At(p, "idle")' /\ ~Working(p)'
  BY <1>2, <1>3 DEF Op, At, Working, Owning
<1>6. requests'[r] = q
  BY <1>3
<1>7. q.op \in Owning \cup {"create"} => q.at = "read"
  BY <1>1 DEF Opening
<1>8. ~Working(r)'
  BY <1>6, <1>7 DEF Working, Op, At
<1>9. OneRequest' /\ online'
  BY <1>4, <1>5 DEF OrderInv, OneRequest
<1>10. queue = <<>>
  BY <1>2 DEF OrderInv, QueueOfOne, At
<1>11. QueueOfOne'
  BY <1>1, <1>4, <1>5, <1>6, <1>10 DEF QueueOfOne, At, Opening
<1>12. Ids'
  BY <1>4 DEF OrderInv, Ids
<1>13. AtRest'
  <2>1. \A t \in Servers : Calm(t)
    BY <1>2 DEF OrderInv, AtRest
  <2> QED
    BY <1>4, <2>1 DEF AtRest, Calm, InTable
<1>14. AtWork'
  BY <1>5, <1>8 DEF AtWork
<1>15. AsRead'
  <2> SUFFICES ASSUME q.op \in Owning \cup {"create"}
               PROVE  /\ IF q.op = "create" THEN q.read.container = rows[q.server].container
                         ELSE q.read = rows[q.server]
                      /\ q.asks = "list"
                      /\ q.op = "stop" => q.read.status = "running"
                      /\ q.op = "restore" => q.read.status = "deleted"
    BY <1>4, <1>5, <1>6 DEF AsRead, Op, At, Srv, Seen, Owning
  <2> QED
    BY <1>1 DEF Opening
<1>16. Listed'
  <2>1. Lists(r)'
    BY <1>1, <1>4, <1>6 DEF Lists, Op, At, Opening
  <2> QED
    BY <1>5, <2>1 DEF Listed, Lists
<1> QED
  BY <1>9, <1>11, <1>12, <1>13, <1>14, <1>15, <1>16 DEF OrderInv

\* The same containers, some of them up or down as they were not.
Alike ==
  /\ \A k \in containers' : \E j \in containers : j.id = k.id /\ j.server = k.server /\ j.name = k.name
  /\ \A j \in containers : \E k \in containers' : j.id = k.id /\ j.server = k.server /\ j.name = k.name
  /\ \A k, j \in containers' : k.id = j.id => k = j

LEMMA AlikeKeeps ==
  ASSUME OrderInv, Alike, UNCHANGED <<rows, born>>
  PROVE  /\ Ids'
         /\ \A s \in Servers : Calm(s) => Calm(s)'
         /\ \A s \in Servers : Clean(s) => Clean(s)'
         /\ \A s \in Servers : \A id : Only(s, id) => \A k \in containers' : k.server = s => k.id = id
         /\ \A n \in Names : Named(n)' # {} <=> Named(n) # {}
<1>1. Ids'
  BY DEF OrderInv, Ids, Alike
<1>2. \A s \in Servers : Calm(s) => Calm(s)'
  BY DEF Calm, Alike, InTable
<1>3. \A s \in Servers : Clean(s) => Clean(s)'
  BY DEF Clean, Alike
<1>4. \A s \in Servers : \A id : Only(s, id) => \A k \in containers' : k.server = s => k.id = id
  BY DEF Only, Alike
<1>5. \A n \in Names : Named(n)' # {} <=> Named(n) # {}
  BY DEF Named, Alike
<1> QED
  BY <1>1, <1>2, <1>3, <1>4, <1>5

\* Containers that start, stop or exit are the same containers.
LEMMA TurnedAlike ==
  ASSUME ScopeInv, OrderInv, NEW old \in SUBSET containers, NEW up \in BOOLEAN,
         containers' = (containers \ old) \cup {[k EXCEPT !.up = up] : k \in old}
  PROVE  Alike
<1>1. \A k \in containers : k \in Container
  BY DEF ScopeInv, TypeOK
<1>2. \A k \in old : LET o == [k EXCEPT !.up = up] IN
        o.id = k.id /\ o.server = k.server /\ o.name = k.name
  BY <1>1 DEF Container
<1>3. \A k, j \in containers : k.id = j.id => k = j
  BY DEF OrderInv, Ids
<1>4. \A k \in containers' : \E j \in containers :
        /\ j.id = k.id /\ j.server = k.server /\ j.name = k.name
        /\ IF j \in old THEN k = [j EXCEPT !.up = up] ELSE k = j
  BY <1>2
<1>5. \A j \in containers : \E k \in containers' : j.id = k.id /\ j.server = k.server /\ j.name = k.name
  BY <1>2
<1>6. \A k, j \in containers' : k.id = j.id => k = j
  BY <1>3, <1>4
<1> QED
  BY <1>4, <1>5, <1>6 DEF Alike

LEMMA ExitKeeps ==
  ASSUME ScopeInv, OrderInv, NEW k \in containers, ContainerExits(k)
  PROVE  OrderInv'
<1>1. UNCHANGED <<rows, online, queue, born, requests>>
  BY DEF ContainerExits
<1>2. Alike
  <2>1. containers' = (containers \ {k}) \cup {[j EXCEPT !.up = FALSE] : j \in {k}}
    BY DEF ContainerExits
  <2> QED
    BY <2>1, TurnedAlike
<1>3. /\ Ids'
      /\ \A s \in Servers : Calm(s) => Calm(s)'
      /\ \A s \in Servers : Clean(s) => Clean(s)'
      /\ \A s \in Servers : \A id : Only(s, id) => \A j \in containers' : j.server = s => j.id = id
      /\ \A n \in Names : Named(n)' # {} <=> Named(n) # {}
  BY <1>1, <1>2, AlikeKeeps
<1>4. AtRest'
  BY <1>1, <1>3 DEF OrderInv, AtRest, Working, Op, At, Srv
<1>5. AtWork'
  <2> SUFFICES ASSUME NEW r \in Requests, Working(r) PROVE Work(r)'
    BY <1>1 DEF AtWork, Working, Op, At
  <2>1. Work(r)
    BY DEF OrderInv, AtWork
  <2>2. PICK s \in Servers : s = Srv(r)
    BY DEF ScopeInv, TypeOK, Request, Srv
  <2>3. Calm(s) => Calm(s)'
    BY <1>3
  <2>4. Clean(s) => Clean(s)'
    BY <1>3
  <2>5. Only(s, rows[s].container) => Only(s, rows[s].container)'
    BY <1>1, <1>3 DEF Only
  <2>6. Only(s, requests[r].made) => Only(s, requests[r].made)'
    BY <1>1, <1>3 DEF Only
  <2>7. (\A j \in containers : j.id = requests[r].made => j.server = s) =>
          \A j \in containers' : j.id = requests[r].made => j.server = s
    BY <1>2 DEF Alike
  <2> QED
    BY <1>1, <2>1, <2>2, <2>3, <2>4, <2>5, <2>6, <2>7 DEF Work, Op, At, Srv, Seen, InTable, Got
<1>6. Listed'
  BY <1>1, <1>3 DEF OrderInv, Listed, Lists, Op, At, Got, Table, InTable
<1>7. (OneRequest /\ online /\ QueueOfOne /\ AsRead)'
  BY <1>1 DEF OrderInv, OneRequest, QueueOfOne, AsRead, Op, At, Srv, Seen, CommandOf
<1> QED
  BY <1>3, <1>4, <1>5, <1>6, <1>7 DEF OrderInv

\* The agent answers the one request that waits, with what it asked for.
Told(r, answer, made, found) ==
  /\ At(r, "wait") /\ Head(queue) = CommandOf(r) /\ queue' = <<>>
  /\ UNCHANGED <<rows, online>>
  /\ \A p \in Requests \ {r} : /\ Op(p) = "none" /\ ~Working(p) /\ requests'[p] = requests[p]
                               /\ ~At(p, "wait") /\ ~At(p, "wait")'
  /\ Op(r)' = Op(r) /\ Srv(r)' = Srv(r) /\ Seen(r)' = Seen(r) /\ At(r, "done")'
  /\ requests'[r].asks = requests[r].asks /\ requests'[r].todo = requests[r].todo
  /\ requests'[r].table = requests[r].table
  /\ requests'[r].answer = answer /\ requests'[r].made = made /\ requests'[r].found = found

LEMMA AgentTells ==
  ASSUME ScopeInv, OrderInv, queue # <<>>, NEW answer \in {"ok", "error", "gone", "unlisted"},
         NEW made \in Nat, NEW found \in SUBSET Container, Reply(answer, made, found)
  PROVE  \E r \in Requests : Op(r) # "none" /\ Told(r, answer, made, found)
<1>1. PICK r \in Requests : At(r, "wait") /\ queue = <<CommandOf(r)>>
  BY DEF OrderInv, QueueOfOne
<1>2. Op(r) # "none"
  BY <1>1 DEF ScopeInv, RequestsInv, Ended, At
<1>3. \A p \in Requests \ {r} : Op(p) = "none" /\ ~Working(p) /\ ~At(p, "wait")
  BY <1>2, OthersIdle DEF OrderInv, At
<1>4. Head(queue) = CommandOf(r) /\ queue' = <<>> /\ UNCHANGED <<rows, online>>
  BY <1>1 DEF Reply
<1>5. CommandOf(r).heard /\ CommandOf(r).request = r
  BY DEF CommandOf
<1> DEFINE q == [requests[r] EXCEPT !.at = "done", !.answer = answer, !.made = made, !.found = found]
<1>6. requests \in [Requests -> Request] /\ requests[r] \in Request
  BY DEF ScopeInv, TypeOK
<1>7. requests' = [requests EXCEPT ![r] = q]
  BY <1>4, <1>5 DEF Reply
<1>8. /\ q.op = Op(r) /\ q.server = Srv(r) /\ q.read = Seen(r) /\ q.at = "done"
      /\ q.asks = requests[r].asks /\ q.todo = requests[r].todo /\ q.table = requests[r].table
      /\ q.answer = answer /\ q.made = made /\ q.found = found
  BY <1>6 DEF Request, Op, Srv, Seen
<1> HIDE DEF q
<1>9. requests'[r] = q /\ \A p \in Requests \ {r} : requests'[p] = requests[p]
  BY <1>6, <1>7
<1>10. \A p \in Requests \ {r} : ~At(p, "wait")'
  BY <1>3, <1>9 DEF At
<1> QED
  BY <1>1, <1>2, <1>3, <1>4, <1>8, <1>9, <1>10 DEF Told, Op, Srv, Seen, At

\* An answer keeps the order if the host does, and if the server of the request is
\* as its answer says.
LEMMA ToldKeeps ==
  ASSUME ScopeInv, OrderInv, NEW r \in Requests, Op(r) # "none",
         NEW answer, NEW made, NEW found, Told(r, answer, made, found), Ids',
         \A t \in Servers : (Working(r) => Srv(r) # t) => Calm(t)',
         Working(r) => Work(r)', Lists(r)'
  PROVE  OrderInv'
<1>1. \A p \in Requests \ {r} : /\ Op(p)' = "none" /\ ~Working(p)' /\ ~At(p, "wait")'
  BY DEF Told, Op, Working, Owning
<1>2. Op(r)' = Op(r) /\ Srv(r)' = Srv(r) /\ ~At(r, "wait")' /\ ~At(r, "read")' /\ ~At(r, "read")
  BY DEF Told, At
<1>3. Working(r)' <=> Working(r)
  BY <1>2 DEF Working
<1>4. OneRequest' /\ online'
  BY <1>1 DEF OneRequest, OrderInv, Told
<1>5. QueueOfOne'
  BY <1>1, <1>2 DEF QueueOfOne, Told
<1>6. AtRest'
  BY <1>1, <1>2, <1>3 DEF AtRest
<1>7. AtWork'
  BY <1>1, <1>3 DEF AtWork
<1>8. AsRead'
  BY <1>1, <1>2 DEF AsRead, Owning
<1>9. Listed'
  BY <1>1 DEF Listed, Lists
<1> QED
  BY <1>4, <1>5, <1>6, <1>7, <1>8, <1>9 DEF OrderInv

\* What a command says of its request.
LEMMA ToldFacts ==
  ASSUME ScopeInv, OrderInv, NEW r \in Requests, Op(r) # "none", At(r, "wait"), Head(queue) = CommandOf(r)
  PROVE  /\ requests[r] \in Request /\ Srv(r) \in Servers /\ TypeOK
         /\ Head(queue).kind = requests[r].asks /\ Head(queue).server = Srv(r)
         /\ Head(queue).name = Seen(r).name /\ Head(queue).container = Seen(r).container
         /\ Head(queue).wipe = requests[r].wipe
         /\ Op(r) \in User => Working(r) /\ Owns(r) /\ Work(r)
         /\ Op(r) \notin User => ~Working(r) /\ requests[r].asks \in {"start", "stop", "restart", "list"}
                                 /\ (Op(r) = "sync" => requests[r].asks = "list")
                                 /\ Op(r) \in {"container", "sync"}
<1>1. requests[r] \in Request /\ TypeOK
  BY DEF ScopeInv, TypeOK
<1>2. Srv(r) \in Servers /\ Op(r) \in Ops
  BY <1>1 DEF Srv, Request, Op
<1>3. ~At(r, "read") /\ ~At(r, "rows")
  BY DEF At
<1>4. Op(r) \in User => Working(r) /\ Owns(r) /\ Work(r)
  BY <1>3, WorkFacts DEF Working, User
<1>5. Lists(r)
  BY DEF OrderInv, Listed
<1>6. Op(r) \notin User => Op(r) \in {"container", "cleanup", "sync"}
  BY <1>2 DEF Ops, User, Owning
<1>7. Op(r) \notin User => ~Working(r) /\ Op(r) \in {"container", "sync"}
  BY <1>3, <1>5, <1>6 DEF Working, User, Lists
<1> QED
  BY <1>1, <1>2, <1>3, <1>4, <1>5, <1>7 DEF CommandOf, Lists

LEMMA AgentListKeeps ==
  ASSUME ScopeInv, OrderInv, AgentList
  PROVE  OrderInv'
<1>1. queue # <<>> /\ Head(queue).kind = "list" /\ UNCHANGED <<containers, born>>
  BY DEF AgentList, Carries, hostVars
<1>2. containers \in SUBSET Container /\ NoId \in Nat
  BY DEF ScopeInv, TypeOK, NoId
<1>3. \E answer \in {"ok", "unlisted"}, found \in SUBSET Container :
        Reply(answer, NoId, found) /\ found = (IF answer = "ok" THEN containers ELSE {})
  BY <1>2 DEF AgentList
<1>4. PICK answer \in {"ok", "unlisted"}, found \in SUBSET Container :
        Reply(answer, NoId, found) /\ found = (IF answer = "ok" THEN containers ELSE {})
  BY <1>3
<1>5. PICK r \in Requests : Op(r) # "none" /\ Told(r, answer, NoId, found)
  BY <1>1, <1>2, <1>4, AgentTells
<1>6. /\ At(r, "wait") /\ ~At(r, "read") /\ ~At(r, "marked") /\ Head(queue) = CommandOf(r) /\ UNCHANGED rows
      /\ ~At(r, "done") /\ ~At(r, "send")
  BY <1>5 DEF Told, At
<1>7. requests[r].asks = "list"
  BY <1>1, <1>5, <1>6, ToldFacts
<1>8. Op(r) \notin User
  BY <1>5, <1>6, <1>7, ToldFacts DEF Work
<1>9. ~Working(r) /\ Op(r) \in {"container", "sync"} /\ Lists(r)
  BY <1>5, <1>6, <1>8, ToldFacts DEF OrderInv, Listed
<1>10. Op(r) = "sync"
  BY <1>7, <1>9 DEF Lists
<1>11. Ids'
  BY <1>1, <1>6 DEF OrderInv, Ids
<1>12. \A t \in Servers : Calm(t)'
  <2>1. \A t \in Servers : Calm(t)
    BY <1>10, OthersCalm
  <2> QED
    BY <1>1, <1>6, <2>1 DEF Calm, InTable
<1>13. Lists(r)'
  <2>1. Table' = Table
    BY <1>6 DEF Table, InTable
  <2>2. requests[r].todo \subseteq Table /\ \A t \in requests[r].todo : requests[r].table[t] = rows[t]
    BY <1>6, <1>9, <1>10 DEF Lists
  <2>3. /\ Op(r)' = "sync" /\ requests'[r].asks = "list" /\ requests'[r].todo = requests[r].todo
        /\ requests'[r].table = requests[r].table /\ requests'[r].answer = answer
        /\ requests'[r].found = found /\ At(r, "done")'
    BY <1>5, <1>7, <1>10 DEF Told
  <2>4. \A n \in Names : Named(n)' = Named(n)
    BY <1>1 DEF Named
  <2>5. /\ answer = "ok" => \A n \in Names : (\E x \in found : x.name = n) <=> Named(n) # {}
        /\ answer = "unlisted" => found = {}
    BY <1>4 DEF Named
  <2> QED
    BY <1>6, <2>1, <2>2, <2>3, <2>4, <2>5 DEF Lists, Got, At
<1> QED
  BY <1>5, <1>9, <1>11, <1>12, <1>13, ToldKeeps

LEMMA AgentPowerKeeps ==
  ASSUME ScopeInv, OrderInv, AgentPower
  PROVE  OrderInv'
<1> DEFINE c == Head(queue)
           old == WithId(c.container)
<1>1. queue # <<>> /\ c.kind \in {"start", "stop", "restart"} /\ UNCHANGED born
  BY DEF AgentPower, Carries
<1>2. {} \in SUBSET Container /\ NoId \in Nat /\ old \in SUBSET containers
  BY DEF NoId, WithId
<1>3. \E answer \in {"ok", "error"} : Reply(answer, NoId, {})
  BY DEF AgentPower
<1>4. PICK answer \in {"ok", "error"} : Reply(answer, NoId, {})
  BY <1>3
<1>5. PICK r \in Requests : Op(r) # "none" /\ Told(r, answer, NoId, {})
  BY <1>1, <1>2, <1>4, AgentTells
<1>6. Alike
  <2>1. CASE UNCHANGED containers
    BY <2>1 DEF Alike, OrderInv, Ids
  <2>2. CASE containers' = (containers \ old) \cup {[k EXCEPT !.up = (c.kind # "stop")] : k \in old}
    <3>1. (c.kind # "stop") \in BOOLEAN
      OBVIOUS
    <3> QED
      BY <1>2, <2>2, <3>1, TurnedAlike
  <2> QED
    BY <2>1, <2>2 DEF AgentPower
<1>7. /\ At(r, "wait") /\ ~At(r, "read") /\ ~At(r, "marked") /\ Head(queue) = CommandOf(r) /\ UNCHANGED rows
      /\ ~At(r, "done") /\ ~At(r, "send")
  BY <1>5 DEF Told, At
<1>8. /\ Ids'
      /\ \A s \in Servers : Calm(s) => Calm(s)'
  BY <1>1, <1>6, <1>7, AlikeKeeps
<1>9. requests[r].asks \in {"start", "stop", "restart"}
  BY <1>1, <1>5, <1>7, ToldFacts
<1>10. PICK s \in Servers : s = Srv(r)
  BY <1>5, <1>7, ToldFacts
<1>11. CASE Op(r) \in User
  <2>1. Working(r) /\ Owns(r) /\ Work(r)
    BY <1>5, <1>7, <1>11, ToldFacts
  <2>2. /\ InTable(s) /\ rows[s].container = Seen(r).container /\ rows[s].status \in {"running", "stopped"}
        /\ Calm(s) /\ requests[r].asks \in {"start", "stop"} /\ Op(r) \notin {"softDelete", "purge"}
    BY <1>7, <1>9, <1>10, <2>1 DEF Work
  <2>3. Calm(s)' /\ InTable(s)'
    BY <1>7, <1>8, <2>2 DEF InTable
  <2>4. Op(r)' = Op(r) /\ Srv(r)' = s /\ Seen(r)' = Seen(r) /\ requests'[r].asks = requests[r].asks
        /\ ~At(r, "marked")'
    BY <1>5, <1>10 DEF Told, At
  <2>5. Work(r)'
    BY <1>7, <2>2, <2>3, <2>4 DEF Work, Seen
  <2>6. \A t \in Servers \ {s} : Calm(t)
    BY <1>5, <1>10 DEF OrderInv, AtRest, Told
  <2>7. Lists(r)'
    BY <1>11, <2>4 DEF Lists, User, Owning
  <2> QED
    BY <1>5, <1>8, <1>10, <2>1, <2>5, <2>6, <2>7, ToldKeeps
<1>12. CASE Op(r) \notin User
  <2>1. ~Working(r) /\ Op(r) = "container" /\ Lists(r)
    BY <1>5, <1>7, <1>9, <1>12, ToldFacts DEF OrderInv, Listed
  <2>2. \A t \in Servers : Calm(t)
    BY <2>1, OthersCalm
  <2>3. Lists(r)'
    BY <1>5, <1>9, <2>1 DEF Lists, Told
  <2> QED
    BY <1>5, <1>8, <2>1, <2>2, <2>3, ToldKeeps
<1> QED
  BY <1>11, <1>12

\* Commands that make or remove containers come from a request at work on its server.
LEMMA ToldOwner ==
  ASSUME ScopeInv, OrderInv, NEW r \in Requests, Op(r) # "none",
         NEW answer, NEW made, NEW found, Told(r, answer, made, found),
         Head(queue).kind \in {"create", "rebuild", "delete"}
  PROVE  /\ Working(r) /\ Op(r) \in User /\ Srv(r) \in Servers
         /\ InTable(Srv(r)) /\ rows[Srv(r)].container = Seen(r).container
         /\ requests[r].asks = Head(queue).kind
         /\ Op(r) \in {"softDelete", "purge"} <=> requests[r].asks = "delete"
         /\ IF requests[r].asks = "create" /\ Op(r) # "start" THEN Clean(Srv(r))
            ELSE Only(Srv(r), rows[Srv(r)].container)
         /\ requests[r].asks # "delete" => rows[Srv(r)].status \in Transient
         /\ \A t \in Servers \ {Srv(r)} : Calm(t)
<1>1. /\ At(r, "wait") /\ ~At(r, "read") /\ ~At(r, "marked") /\ Head(queue) = CommandOf(r)
      /\ ~At(r, "done") /\ ~At(r, "send")
  BY DEF Told, At
<1>2. requests[r].asks = Head(queue).kind
  BY <1>1, ToldFacts
<1>3. Op(r) \in User
  BY <1>1, <1>2, ToldFacts
<1>4. Working(r) /\ Owns(r) /\ Work(r) /\ Srv(r) \in Servers
  BY <1>1, <1>3, ToldFacts
<1>5. \A t \in Servers \ {Srv(r)} : Calm(t)
  BY DEF OrderInv, AtRest, Told
<1> QED
  BY <1>1, <1>2, <1>3, <1>4, <1>5 DEF Work

\* An answer about the server a request is at work on.
LEMMA OwnerKeeps ==
  ASSUME ScopeInv, OrderInv, NEW r \in Requests, Op(r) # "none",
         NEW answer, NEW made, NEW found, Told(r, answer, made, found),
         Head(queue).kind \in {"create", "rebuild", "delete"},
         NEW s \in Servers, s = Srv(r), Ids',
         \A k \in containers' : k.server # s => k \in containers,
         \/ /\ answer = "ok" /\ Head(queue).kind # "delete"
            /\ made < born' /\ \A k \in containers' : k.id = made <=> k.server = s
         \/ (answer # "ok" \/ Head(queue).kind = "delete") /\ Clean(s)'
         \/ answer # "ok" /\ Head(queue).kind = "create" /\ Op(r) = "start" /\ Only(s, rows[s].container)'
  PROVE  OrderInv'
<1>1. /\ Working(r) /\ Op(r) \in User
      /\ InTable(s) /\ rows[s].container = Seen(r).container
      /\ requests[r].asks = Head(queue).kind
      /\ Op(r) \in {"softDelete", "purge"} <=> requests[r].asks = "delete"
      /\ requests[r].asks # "delete" => rows[s].status \in Transient
      /\ \A t \in Servers \ {s} : Calm(t)
  BY ToldOwner
<1>2. /\ Op(r)' = Op(r) /\ Srv(r)' = s /\ requests'[r].read = Seen(r) /\ requests'[r].asks = requests[r].asks
      /\ At(r, "done")' /\ requests'[r].answer = answer /\ requests'[r].made = made /\ UNCHANGED rows
  BY DEF Told, Seen
<1>3. InTable(s)'
  BY <1>1, <1>2 DEF InTable
<1>4. Work(r)'
  <2>1. CASE answer # "ok" /\ Head(queue).kind = "create" /\ Op(r) = "start" /\ Only(s, rows[s].container)'
    BY <1>1, <1>2, <1>3, <2>1 DEF Work, Seen, Got
  <2>2. CASE (answer # "ok" \/ Head(queue).kind = "delete") /\ Clean(s)'
    BY <1>1, <1>2, <1>3, <2>2 DEF Work, Seen, Got, Only, Clean
  <2>3. CASE /\ answer = "ok" /\ Head(queue).kind # "delete"
             /\ made < born' /\ \A k \in containers' : k.id = made <=> k.server = s
    BY <1>1, <1>2, <1>3, <2>3 DEF Work, Seen, Got, Only
  <2> QED
    BY <2>1, <2>2, <2>3
<1>5. \A t \in Servers \ {s} : Calm(t)'
  BY <1>1, <1>2 DEF Calm, InTable
<1>6. Lists(r)'
  BY <1>1, <1>2 DEF Lists, User, Owning
<1> QED
  BY <1>1, <1>4, <1>5, <1>6, ToldKeeps

LEMMA AgentDeleteKeeps ==
  ASSUME ScopeInv, OrderInv, "remove" \notin Faults, AgentDelete
  PROVE  OrderInv'
<1> DEFINE c == Head(queue)
<1>1. queue # <<>> /\ c.kind = "delete" /\ UNCHANGED born /\ containers' = containers \ WithId(c.container)
  BY DEF AgentDelete, Carries
<1>2. {} \in SUBSET Container /\ NoId \in Nat
  BY DEF NoId
<1>3. PICK answer \in {"ok", "error"} : Reply(answer, NoId, {})
  BY DEF AgentDelete
<1>4. PICK r \in Requests : Op(r) # "none" /\ Told(r, answer, NoId, {})
  BY <1>1, <1>2, <1>3, AgentTells
<1>5. PICK s \in Servers : s = Srv(r)
  BY <1>1, <1>4, ToldOwner
<1>6. c.container = Seen(r).container
  BY <1>4, ToldFacts DEF Told
<1>7. rows[s].container = Seen(r).container /\ Only(s, rows[s].container)
  BY <1>1, <1>4, <1>5, ToldOwner
<1>8. Clean(s)'
  BY <1>1, <1>6, <1>7 DEF Only, Clean, WithId
<1>9. UNCHANGED rows
  BY <1>4 DEF Told
<1>10. Ids'
  BY <1>1, <1>9 DEF OrderInv, Ids
<1> QED
  BY <1>1, <1>4, <1>5, <1>8, <1>10, OwnerKeeps

LEMMA AgentCreateKeeps ==
  ASSUME ScopeInv, OrderInv, AgentCreate
  PROVE  OrderInv'
<1> DEFINE c == Head(queue)
           new == NewContainer(c.server, c.name)
<1>1. queue # <<>> /\ c.kind = "create"
  BY DEF AgentCreate, Carries
<1>2. {} \in SUBSET Container /\ NoId \in Nat /\ born \in Nat
  BY DEF NoId, ScopeInv, TypeOK
<1>3. CASE UNCHANGED <<containers, born>> /\ Reply("error", NoId, {})
  <2>1. PICK r \in Requests : Op(r) # "none" /\ Told(r, "error", NoId, {})
    BY <1>1, <1>2, <1>3, AgentTells
  <2>2. PICK s \in Servers : s = Srv(r)
    BY <1>1, <2>1, ToldOwner
  <2>3. Clean(s) \/ (Op(r) = "start" /\ Only(s, rows[s].container))
    BY <1>1, <2>1, <2>2, ToldOwner
  <2>4. Clean(s)' \/ (Op(r) = "start" /\ Only(s, rows[s].container)')
    BY <1>3, <2>1, <2>3 DEF Clean, Only, Told
  <2>5. Ids'
    BY <1>3, <2>1 DEF OrderInv, Ids, Told
  <2> QED
    BY <1>1, <1>3, <2>1, <2>2, <2>4, <2>5, OwnerKeeps
<1>4. CASE /\ containers' = containers \cup {new} /\ born' = born + 1 /\ Reply("ok", born, {})
           /\ Named(c.name) = {}
  <2>1. PICK r \in Requests : Op(r) # "none" /\ Told(r, "ok", born, {})
    BY <1>1, <1>2, <1>4, AgentTells
  <2>2. PICK s \in Servers : s = Srv(r)
    BY <1>1, <2>1, ToldOwner
  <2>3. Clean(s) /\ new.server = s /\ new.id = born
    <3>1. c.server = Srv(r) /\ c.name = Seen(r).name
      BY <2>1, ToldFacts DEF Told
    <3>2. InTable(s) /\ rows[s].name = c.name
      <4>1. Op(r) \in User /\ ~At(r, "read")
        BY <1>1, <2>1, ToldOwner DEF Told, At
      <4>2. Owns(r)
        BY <4>1, WorkFacts
      <4> QED
        BY <2>2, <3>1, <4>2, ActiveFacts
    <3>3. \A k \in containers : k.server = s => k \in Named(c.name)
      BY <3>2 DEF ScopeInv, HostInv, ContainersNamed, Named
    <3> QED
      BY <1>4, <2>2, <3>1, <3>3 DEF NewContainer, Clean
  <2>4. \A k \in containers : k.id < born /\ k.id \in Nat
    BY DEF OrderInv, Ids, ScopeInv, TypeOK, Container
  <2>5. \A t \in Servers : rows[t].container < born /\ rows[t].container \in Nat
    BY DEF OrderInv, Ids, ScopeInv, TypeOK, Row
  <2> HIDE DEF new
  <2>6. Ids'
    <3>1. \A k \in containers' : k.id < born' /\ \A j \in containers' : j.id = k.id => j = k
      BY <1>2, <1>4, <2>3, <2>4 DEF OrderInv, Ids
    <3>2. \A t \in Servers : rows'[t].container < born' /\
             \A k \in containers' : k.id = rows'[t].container => k.server = t
      BY <1>2, <1>4, <2>1, <2>3, <2>5 DEF OrderInv, Ids, Told
    <3> QED
      BY <3>1, <3>2 DEF Ids
  <2>7. \A k \in containers' : (k.id = born <=> k.server = s) /\ (k.server # s => k \in containers)
    BY <1>2, <1>4, <2>3, <2>4 DEF Clean
  <2>9. born < born'
    BY <1>2, <1>4
  <2> QED
    BY <1>1, <2>1, <2>2, <2>6, <2>7, <2>9, OwnerKeeps
<1> QED
  BY <1>3, <1>4 DEF AgentCreate, hostVars

LEMMA AgentRebuildKeeps ==
  ASSUME ScopeInv, OrderInv, Faults \subseteq {"docker", "exit"}, AgentRebuild
  PROVE  OrderInv'
<1> DEFINE c == Head(queue)
           old == WithId(c.container)
<1>1. queue # <<>> /\ c.kind = "rebuild" /\ "pull" \notin Faults /\ "remove" \notin Faults
  BY DEF AgentRebuild, Carries
<1>2. {} \in SUBSET Container /\ NoId \in Nat /\ born \in Nat
  BY DEF NoId, ScopeInv, TypeOK
<1>4. ASSUME NEW answer \in {"ok", "error", "gone", "unlisted"}, NEW made \in Nat, Reply(answer, made, {})
      PROVE  \E r \in Requests, s \in Servers :
               /\ Op(r) # "none" /\ Told(r, answer, made, {}) /\ s = Srv(r)
               /\ c.container = rows[s].container /\ Only(s, rows[s].container)
  <2>1. PICK r \in Requests : Op(r) # "none" /\ Told(r, answer, made, {})
    BY <1>1, <1>2, <1>4, AgentTells
  <2>2. c.container = Seen(r).container
    BY <2>1, ToldFacts DEF Told
  <2>3. Srv(r) \in Servers /\ rows[Srv(r)].container = Seen(r).container /\ Only(Srv(r), rows[Srv(r)].container)
    BY <1>1, <2>1, ToldOwner
  <2> QED
    BY <2>1, <2>2, <2>3
<1>5. \A k \in containers : k.id < born /\ k.id \in Nat /\ \A j \in containers : j.id = k.id => j = k
  BY DEF OrderInv, Ids, ScopeInv, TypeOK, Container
<1>6. \A t \in Servers : /\ rows[t].container < born /\ rows[t].container \in Nat
                        /\ \A k \in containers : k.id = rows[t].container => k.server = t
  BY DEF OrderInv, Ids, ScopeInv, TypeOK, Row
<1>7. ASSUME NEW answer \in {"error", "gone"}, Reply(answer, NoId, {}), UNCHANGED born,
             containers' = containers \ old
      PROVE  OrderInv'
  <2>1. PICK r \in Requests, s \in Servers :
          /\ Op(r) # "none" /\ Told(r, answer, NoId, {}) /\ s = Srv(r)
          /\ c.container = rows[s].container /\ Only(s, rows[s].container)
    BY <1>2, <1>4, <1>7
  <2>2. Clean(s)'
    BY <1>7, <2>1 DEF Clean, Only, WithId
  <2>3. Ids'
    BY <1>7, <2>1 DEF OrderInv, Ids, Told
  <2>4. \A k \in containers' : k.server # s => k \in containers
    BY <1>7
  <2> QED
    BY <1>1, <2>1, <2>2, <2>3, <2>4, OwnerKeeps
<1>8. ASSUME Reply("ok", born, {}), born' = born + 1, old # {},
             containers' = (containers \ old) \cup {NewContainer(k.server, k.name) : k \in old}
      PROVE  OrderInv'
  <2>1. PICK r \in Requests, s \in Servers :
          /\ Op(r) # "none" /\ Told(r, "ok", born, {}) /\ s = Srv(r)
          /\ c.container = rows[s].container /\ Only(s, rows[s].container)
    BY <1>2, <1>4, <1>8
  <2>2. PICK k0 \in old : TRUE
    BY <1>8
  <2>3. old = {k0} /\ k0 \in containers /\ k0.server = s
    BY <1>5, <1>6, <2>1, <2>2 DEF WithId
  <2> DEFINE new == NewContainer(k0.server, k0.name)
  <2>4. new.server = s /\ new.id = born
    BY <2>3 DEF NewContainer
  <2>5. containers' = (containers \ old) \cup {new}
    BY <1>8, <2>3
  <2> HIDE DEF new
  <2>6. \A k \in containers \ old : k.server # s
    BY <2>1 DEF Only, WithId
  <2> HIDE DEF old
  <2>7. Ids'
    <3>1. \A k \in containers' : k.id < born' /\ \A j \in containers' : j.id = k.id => j = k
      BY <1>2, <1>5, <1>8, <2>4, <2>5
    <3>2. \A t \in Servers : rows'[t].container < born' /\
             \A k \in containers' : k.id = rows'[t].container => k.server = t
      BY <1>2, <1>6, <1>8, <2>1, <2>4, <2>5 DEF Told
    <3> QED
      BY <3>1, <3>2 DEF Ids
  <2>8. \A k \in containers' : (k.id = born <=> k.server = s) /\ (k.server # s => k \in containers)
    BY <1>2, <1>5, <2>4, <2>5, <2>6
  <2>9. born < born'
    BY <1>2, <1>8
  <2> QED
    BY <1>1, <2>1, <2>7, <2>8, <2>9, OwnerKeeps
<1>9. old = {} => (UNCHANGED containers => containers' = containers \ old)
  OBVIOUS
<1>10. \/ /\ \E answer \in {"error", "gone"} : Reply(answer, NoId, {})
          /\ UNCHANGED born /\ containers' = containers \ old
       \/ /\ Reply("ok", born, {}) /\ born' = born + 1 /\ old # {}
          /\ containers' = (containers \ old) \cup {NewContainer(k.server, k.name) : k \in old}
  BY <1>1, <1>9 DEF AgentRebuild, hostVars
<1> QED
  BY <1>7, <1>8, <1>10

\* Every step keeps the order.
LEMMA OrderStep ==
  ASSUME Orderly, ScopeInv, OrderInv, [Next]_vars
  PROVE  OrderInv'
<1>1. /\ Overlap = {} /\ Faults \subseteq {"docker", "exit"} /\ "remove" \notin Faults /\ "late" \notin Faults
      /\ "outage" \notin Faults /\ "restart" \notin Faults
  BY DEF Orderly
<1>2. CASE UNCHANGED vars
  BY <1>2 DEF vars, OrderInv, OneRequest, QueueOfOne, Ids, AtRest, AtWork, AsRead, Listed, Lists, Working,
     Work, Calm, Clean, Only, Table, InTable, Named, Op, At, Srv, Seen, Got, CommandOf
<1>3. ASSUME NEW r \in Requests, Begin(r) PROVE OrderInv'
  <2>1. Arrives(r)
    BY <1>3, BeginArrives DEF ScopeInv
  <2>2. UNCHANGED online
    BY <1>3 DEF Begin, BeginCreate, BeginStart, BeginStop, BeginSoftDelete, BeginRestore, BeginRebuild,
       BeginApply, BeginPurge, BeginContainer, BeginContainerStart, BeginCleanup, BeginSync, Receive
  <2> QED
    BY <1>1, <2>1, <2>2, ArrivesKeeps
<1>4. ASSUME NEW r \in Requests, Step(r) PROVE OrderInv'
  <2>1. Recreate(r) => At(r, "read") \/ At(r, "marked")
    BY DEF Recreate
  <2>2. ApplyDone(r) => OrderInv'
    BY ApplyKeeps
  <2> QED
    BY <1>4, <2>1, <2>2, SendKeeps, CreateInsertKeeps, DonesKeep, PlainDonesKeep, BeginningsKeep,
       RestoreKeeps, RecreateMarkedKeeps, PurgeDoneKeeps, CleanupKeeps, SyncBeginningsKeep, SyncNextKeeps
       DEF Step
<1>5. ASSUME NEW r \in Requests, Timeout(r) PROVE OrderInv'
  <2>1. At(r, "wait") /\ ~Pending(r)
    BY <1>1, <1>5 DEF Timeout
  <2>2. queue = <<CommandOf(r)>>
    BY <2>1 DEF OrderInv, QueueOfOne
  <2>3. 1 \in DOMAIN queue /\ queue[1] = CommandOf(r)
    BY <2>2
  <2> QED
    BY <2>1, <2>3 DEF Pending, CommandOf
<1>6. ~Disconnect /\ ~DORestart /\ \A r \in Requests : ~Register(r)
  BY <1>1 DEF Disconnect, DORestart, Register, OrderInv
<1>7. AgentStep => OrderInv'
  BY <1>1, AgentCreateKeeps, AgentDeleteKeeps, AgentRebuildKeeps, AgentPowerKeeps, AgentListKeeps DEF AgentStep
<1> QED
  BY <1>2, <1>3, <1>4, <1>5, <1>6, <1>7, ExitKeeps DEF Next

LEMMA OrderInit == Init => OrderInv
<1> SUFFICES ASSUME Init PROVE OrderInv
  OBVIOUS
<1>1. \A p \in Requests : requests[p].op = "none" /\ requests[p].at = "idle"
  BY IdleType DEF Init
<1>2. containers = {} /\ queue = <<>> /\ online /\ born = 1
  BY DEF Init
<1>3. \A s \in Servers : rows[s].container = 0
  BY DEF Init, Blank, NoId
<1>4. OneRequest /\ QueueOfOne /\ AtWork /\ AsRead /\ Listed
  BY <1>1, <1>2 DEF OneRequest, QueueOfOne, AtWork, AsRead, Listed, Lists, Working, Op, At, Owning
<1>5. Ids /\ AtRest
  BY <1>2, <1>3 DEF Ids, AtRest, Calm
<1> QED
  BY <1>2, <1>4, <1>5 DEF OrderInv

\* When requests do not overlap, and whatever fails is Docker or a server itself, a
\* server shown as running or stopped is reached by stop, rebuild and delete: its
\* one container is the one its row names.
THEOREM RowsControl ==
  ASSUME Orderly
  PROVE  Spec => []Controllable
<1>1. ScopeInv /\ OrderInv /\ [Next]_vars => (ScopeInv /\ OrderInv)'
  BY ScopeStep, OrderStep DEF Orderly
<1>2. ScopeInv /\ OrderInv => Controllable
  <2> SUFFICES ASSUME ScopeInv, OrderInv, NEW s \in Table, rows[s].status \in {"running", "stopped"},
                      NEW k \in containers, k.server = s
               PROVE  k.id = rows[s].container
    BY DEF Controllable
  <2>1. s \in Servers
    BY DEF Table
  <2>2. CASE \A r \in Requests : Working(r) => Srv(r) # s
    BY <2>1, <2>2 DEF OrderInv, AtRest, Calm
  <2>3. ASSUME NEW r \in Requests, Working(r), Srv(r) = s PROVE k.id = rows[s].container
    <3>1. Work(r)
      BY <2>3 DEF OrderInv, AtWork
    <3> QED
      BY <2>3, <3>1 DEF Work, Transient, Clean, Only, Calm
  <2> QED
    BY <2>2, <2>3
<1> QED
  BY <1>1, <1>2, OrderInit, ScopeInit, PTL DEF Spec

-----------------------------------------------------------------------------
\* What a sync knows and has done, when no container exits meanwhile: it has seen
\* every container, and the rows it has done agree with the host.
Synced(r) == Op(r) = "sync" /\ ~At(r, "read") =>
  /\ (At(r, "rows") \/ At(r, "done")) /\ Got(r, {"ok"}) => requests[r].found = containers
  /\ IF At(r, "rows") THEN Got(r, {"ok"}) => \A s \in Table \ requests[r].todo : Agrees(s)
     ELSE Table \subseteq requests[r].todo
SyncInv == \A r \in Requests : Synced(r)

\* During a sync nothing happens but the sync.
LEMMA SyncSteps ==
  ASSUME Orderly, ScopeInv, OrderInv, Next, NEW r \in Requests, Op(r) = "sync"
  PROVE  \/ Send(r) \/ SyncRead(r) \/ SyncListed(r) \/ \E s \in Servers : SyncNext(r, s)
         \/ AgentList \/ \E k \in containers : ContainerExits(k)
<1>1. Overlap = {} /\ "late" \notin Faults /\ "outage" \notin Faults /\ "restart" \notin Faults
  BY DEF Orderly
<1>2. \A p \in Requests \ {r} : Op(p) = "none" /\ At(p, "idle")
  BY OthersIdle DEF OrderInv
<1>3. ASSUME NEW p \in Requests, Begin(p) PROVE FALSE
  <2>1. Arrives(p)
    BY <1>3, BeginArrives DEF ScopeInv
  <2> QED
    BY <1>1, <2>1 DEF Arrives, MayOverlap
<1>4. ASSUME NEW p \in Requests, Step(p)
      PROVE  Send(r) \/ SyncRead(r) \/ SyncListed(r) \/ \E s \in Servers : SyncNext(r, s)
  <2>1. ~At(p, "idle")
    BY <1>4, NotWaiting DEF Step, Send, CreateInsert, PurgeDone, CleanupNext, At
  <2>2. p = r
    BY <1>2, <2>1
  <2> QED
    BY <1>4, <2>2 DEF Step, CreateInsert, CreateDone, StartExisting, StartDone, Recreate, RecreateDone,
       Stop, StopDone, ContainerDone, SoftDelete, SoftDeleteDone, Purge, PurgeDone, Restore, Rebuild,
       RebuildDone, ApplyDone, CleanupNext, Resumes
<1>5. ASSUME NEW p \in Requests, Timeout(p) PROVE FALSE
  <2>1. At(p, "wait") /\ ~Pending(p)
    BY <1>1, <1>5 DEF Timeout
  <2>2. queue = <<CommandOf(p)>>
    BY <2>1 DEF OrderInv, QueueOfOne
  <2>3. 1 \in DOMAIN queue /\ queue[1] = CommandOf(p)
    BY <2>2
  <2> QED
    BY <2>1, <2>3 DEF Pending, CommandOf
<1>6. ~Disconnect /\ ~DORestart /\ \A p \in Requests : ~Register(p)
  BY <1>1 DEF Disconnect, DORestart, Register, OrderInv
<1>7. ASSUME AgentStep PROVE AgentList
  <2>1. queue # <<>>
    BY <1>7 DEF AgentStep, AgentCreate, AgentDelete, AgentRebuild, AgentPower, AgentList, Carries
  <2>2. PICK p \in Requests : At(p, "wait") /\ queue = <<CommandOf(p)>>
    BY <2>1 DEF OrderInv, QueueOfOne
  <2>3. p = r
    BY <1>2, <2>2 DEF At
  <2>4. Head(queue).kind = requests[r].asks
    BY <2>2, <2>3 DEF CommandOf
  <2>5. requests[r].asks = "list"
    BY <2>2, <2>3 DEF OrderInv, Listed, Lists, At
  <2> QED
    BY <1>7, <2>4, <2>5 DEF AgentStep, AgentCreate, AgentDelete, AgentRebuild, AgentPower, Carries
<1> QED
  BY <1>3, <1>4, <1>5, <1>6, <1>7 DEF Next

\* A sync begins by reading the rows.
LEMMA SyncBegins ==
  ASSUME Orderly, ScopeInv, OrderInv, Next, NEW r \in Requests, Op(r) # "sync", Op(r)' = "sync"
  PROVE  At(r, "read")'
<1>1. TypeOK /\ \A p \in Requests : requests[p] \in Request
  BY DEF ScopeInv, TypeOK
<1>2. Idle.op = "none"
  BY IdleType
<1>3. ASSUME NEW p \in Requests, Arrives(p) PROVE At(r, "read")'
  <2>1. PICK q \in Request : Opening(q) /\ Become(p, q)
    BY <1>3 DEF Arrives
  <2>2. requests'[r] = IF r = p THEN q ELSE requests[r]
    BY <1>1, <2>1, BecomeType
  <2> QED
    BY <2>1, <2>2 DEF Op, At, Opening
<1>4. ASSUME NEW p \in Requests, NEW q \in Request, Become(p, q), q.op \in {Op(p), "none", "cleanup"}
      PROVE  FALSE
  <2>1. requests'[r] = IF r = p THEN q ELSE requests[r]
    BY <1>1, <1>4, BecomeType
  <2> QED
    BY <1>4, <2>1 DEF Op
<1>5. ASSUME NEW p \in Requests, Steady(p) PROVE FALSE
  BY <1>2, <1>4, <1>5 DEF Steady, Progress, Goes
<1>6. ASSUME NEW p \in Requests, Inserts(p) PROVE FALSE
  <2>1. Progress(p)
    BY <1>1, <1>6, AskProgress DEF Inserts, Kinds
  <2> QED
    BY <1>2, <1>4, <2>1 DEF Progress, Goes
<1>7. ASSUME NEW p \in Requests, Sends(p) PROVE FALSE
  <2>1. PICK q \in Request : q.op = Op(p) /\ \A o \in Requests : requests'[o] = IF o = p THEN q ELSE requests[o]
    BY <1>1, <1>7, SendsType
  <2> QED
    BY <2>1 DEF Op
<1>8. ASSUME NEW p \in Requests, NEW s \in Servers, Erases(p, s) PROVE FALSE
  BY <1>2, <1>4, <1>8 DEF Erases
<1>9. ASSUME Carried PROVE FALSE
  BY <1>1, <1>9, ReplyType DEF Carried, Op
<1>10. ASSUME NEW p \in Requests, Timeout(p) PROVE FALSE
  BY <1>1, <1>4, <1>10, AnsweredType DEF Timeout, Goes
<1>11. ~Disconnect /\ ~DORestart
  BY DEF Orderly, Disconnect, DORestart
<1>12. StepKinds
  BY <1>1, NextKinds
<1> QED
  BY <1>3, <1>5, <1>6, <1>7, <1>8, <1>9, <1>10, <1>11, <1>12 DEF StepKinds, ContainerExits, Op

\* Servers at rest have one container of their name, their own.
LEMMA OneNamed ==
  ASSUME ScopeInv, OrderInv, \A t \in Servers : Calm(t), NEW s \in Servers, InTable(s)
  PROVE  \A k, j \in Named(rows[s].name) : k = j
<1>1. ASSUME NEW k \in Named(rows[s].name) PROVE k \in containers /\ k.id = rows[s].container
  <2>1. k \in containers /\ k.name = rows[s].name /\ k.server \in Servers
    BY <1>1 DEF Named, ScopeInv, TypeOK, Container
  <2>2. InTable(k.server)
    BY <2>1 DEF Calm
  <2>3. k.server = s
    BY <2>1, <2>2 DEF ScopeInv, RequestsInv, HostInv, NamesUnique, ContainersNamed
  <2> QED
    BY <2>1, <2>3 DEF Calm
<1> QED
  BY <1>1 DEF OrderInv, Ids

LEMMA SyncNextTells ==
  ASSUME ScopeInv, OrderInv, NEW r \in Requests, Synced(r), Got(r, {"ok"}),
         NEW s \in Servers, SyncNext(r, s)
  PROVE  /\ Table' = Table
         /\ \A t \in Table : t \notin requests[r].todo \ {s} => Agrees(t)'
<1> DEFINE status == SyncStatus(rows[s], containers)
<1>1. Op(r) = "sync" /\ At(r, "rows") /\ ~At(r, "read") /\ s \in requests[r].todo /\ Quiet
  BY DEF SyncNext, At
<1>2. requests[r].found = containers /\ \A t \in Table \ requests[r].todo : Agrees(t)
  BY <1>1 DEF Synced
<1>3. InTable(s) /\ requests[r].table[s] = rows[s] /\ TypeOK /\ rows[s] \in Row
  BY <1>1 DEF OrderInv, Listed, Lists, Table, ScopeInv, TypeOK
<1>4. (SetStatus(s, status)) \/ (UNCHANGED rows /\ rows[s].status = status)
  BY <1>2, <1>3 DEF SyncNext
<1>5. status \in Statuses \ (Gone \cup {"unborn"})
  BY <1>3, SyncStatusType
<1>6. /\ \A t \in Servers \ {s} : rows'[t] = rows[t]
      /\ rows'[s].status = status
  BY <1>3, <1>4, <1>5, SetStatusChanges DEF Changes
<1>7. rows'[s].name = rows[s].name
  BY <1>3, <1>4, <1>5, SetStatusSame DEF RowsSame
<1>8. containers' = containers
  BY <1>1 DEF Quiet, hostVars
<1>9. Table' = Table
  BY <1>3, <1>5, <1>6 DEF Table, InTable
<1>10. Agrees(s)'
  <2>1. CASE Named(rows[s].name) = {}
    <3>1. status \in {"missing", "creating", "deleted"}
      BY <2>1 DEF Named, SyncStatus
    <3> QED
      BY <1>6, <1>7, <1>8, <2>1, <3>1 DEF Agrees, Named
  <2>2. CASE Named(rows[s].name) # {}
    <3>1. \A k, j \in Named(rows[s].name) : k = j
      BY <1>1, <1>3, OthersCalm, OneNamed
    <3>2. \A k \in Named(rows[s].name) : status = (IF k.up THEN "running" ELSE "stopped")
      BY <2>2, <3>1 DEF SyncStatus, Named
    <3> HIDE DEF status
    <3>3. Named(rows[s].name)' = Named(rows[s].name)
      BY <1>7, <1>8 DEF Named
    <3> QED
      BY <1>6, <2>2, <3>2, <3>3 DEF Agrees
  <2> QED
    BY <2>1, <2>2
<1>11. ASSUME NEW t \in Table, t # s, t \notin requests[r].todo PROVE Agrees(t)'
  <2>1. rows'[t] = rows[t] /\ Agrees(t)
    BY <1>2, <1>6, <1>11 DEF Table
  <2> QED
    BY <1>8, <2>1 DEF Agrees, Named
<1> QED
  BY <1>9, <1>10, <1>11

LEMMA SyncStep ==
  ASSUME Orderly, Faults \subseteq {"docker"}, ScopeInv, OrderInv, SyncInv, [Next]_vars
  PROVE  SyncInv'
<1>1. CASE UNCHANGED vars
  BY <1>1 DEF vars, SyncInv, Synced, Op, At, Got, Table, InTable, Agrees, Named
<1>2. ASSUME Next, NEW r \in Requests, Op(r)' = "sync", ~At(r, "read")' PROVE Synced(r)'
  <2>1. Op(r) = "sync"
    BY <1>2, SyncBegins
  <2>2. Synced(r) /\ requests[r] \in Request /\ TypeOK /\ Idle.op = "none"
    BY IdleType DEF SyncInv, ScopeInv, TypeOK
  <2>3. \A k \in containers : ~ContainerExits(k)
    BY DEF ContainerExits
  <2>4. CASE Send(r)
    <3> DEFINE q == [requests[r] EXCEPT !.at = "wait"]
    <3>1. q \in Request /\ q.at = "wait" /\ q.todo = requests[r].todo
      BY <2>2 DEF Request
    <3>2. Become(r, q) /\ UNCHANGED <<rows, containers>>
      BY <2>4 DEF Send, hostVars, OrderInv
    <3> HIDE DEF q
    <3>3. requests'[r] = q
      BY <2>2, <3>1, <3>2, BecomeType
    <3>4. Table' = Table
      BY <3>2 DEF Table, InTable
    <3>5. ~At(r, "read") /\ ~At(r, "rows")
      BY <2>4 DEF Send, At
    <3> QED
      BY <2>1, <2>2, <3>1, <3>3, <3>4, <3>5 DEF Synced, At
  <2>5. CASE SyncRead(r)
    <3> DEFINE q == [requests[r] EXCEPT !.at = "send", !.asks = "list", !.table = rows, !.todo = Table]
    <3>1. q \in Request /\ q.at = "send" /\ q.todo = Table
      BY <2>2 DEF Request, Kinds, TypeOK, Table
    <3>2. Become(r, q) \/ Become(r, Idle)
      BY <2>5 DEF SyncRead, Finish
    <3> HIDE DEF q
    <3>3. requests'[r] = q
      BY <1>2, <2>2, <3>1, <3>2, BecomeType, IdleType DEF Op
    <3>4. Table' = Table
      BY <2>5 DEF SyncRead, Table, InTable
    <3> QED
      BY <3>1, <3>3, <3>4 DEF Synced, At
  <2>6. CASE SyncListed(r)
    <3> DEFINE q == [requests[r] EXCEPT !.at = "rows"]
    <3>1. /\ q \in Request /\ q.at = "rows" /\ q.todo = requests[r].todo /\ q.found = requests[r].found
          /\ q.answer = requests[r].answer
      BY <2>2 DEF Request
    <3>2. Become(r, q) \/ Become(r, Idle)
      BY <2>6 DEF SyncListed, Finish
    <3> HIDE DEF q
    <3>3. requests'[r] = q
      BY <1>2, <2>2, <3>1, <3>2, BecomeType, IdleType DEF Op
    <3>4. Table' = Table /\ UNCHANGED containers
      BY <2>6 DEF SyncListed, Table, InTable, Quiet, hostVars
    <3>5. At(r, "done") /\ ~At(r, "read") /\ ~At(r, "rows")
      BY <2>6 DEF SyncListed, Resumes, At
    <3>6. (Got(r, {"ok"}) => requests[r].found = containers) /\ Table \subseteq requests[r].todo
      BY <2>1, <2>2, <3>3, <3>5 DEF Synced
    <3> QED
      BY <3>1, <3>3, <3>4, <3>6 DEF Synced, At, Got
  <2>7. ASSUME NEW s \in Servers, SyncNext(r, s) PROVE Synced(r)'
    <3> DEFINE q == [requests[r] EXCEPT !.todo = requests[r].todo \ {s}]
    <3>1. /\ q \in Request /\ q.at = requests[r].at /\ q.todo = requests[r].todo \ {s} /\ q.found = requests[r].found
          /\ q.answer = requests[r].answer
      BY <2>2 DEF Request
    <3>2. Become(r, q) \/ Become(r, Idle)
      BY <2>7 DEF SyncNext, Finish
    <3> HIDE DEF q
    <3>3. requests'[r] = q
      BY <1>2, <2>2, <3>1, <3>2, BecomeType, IdleType DEF Op
    <3>4. At(r, "rows") /\ ~At(r, "read") /\ UNCHANGED containers
      BY <2>7 DEF SyncNext, At, Quiet, hostVars
    <3>5. Got(r, {"ok"}) => requests[r].found = containers
      BY <2>1, <2>2, <3>4 DEF Synced
    <3>6. Got(r, {"ok"}) => Table' = Table /\ \A t \in Table : t \notin requests[r].todo \ {s} => Agrees(t)'
      BY <2>2, <2>7, SyncNextTells
    <3> QED
      BY <3>1, <3>3, <3>4, <3>5, <3>6 DEF Synced, At, Got
  <2>8. CASE AgentList
    <3>1. containers \in SUBSET Container /\ NoId \in Nat /\ UNCHANGED containers /\ queue # <<>>
      BY <2>2, <2>8 DEF AgentList, Carries, hostVars, TypeOK, NoId
    <3>2. \E answer \in {"ok", "unlisted"}, found \in SUBSET Container :
            Reply(answer, NoId, found) /\ found = (IF answer = "ok" THEN containers ELSE {})
      BY <2>8, <3>1 DEF AgentList
    <3>3. PICK answer \in {"ok", "unlisted"}, found \in SUBSET Container :
            Reply(answer, NoId, found) /\ found = (IF answer = "ok" THEN containers ELSE {})
      BY <3>2
    <3>4. PICK p \in Requests : Op(p) # "none" /\ Told(p, answer, NoId, found)
      BY <3>1, <3>3, AgentTells
    <3>5. p = r
      BY <2>1, <3>4 DEF Told
    <3>6. /\ At(r, "wait") /\ ~At(r, "read") /\ ~At(r, "rows") /\ At(r, "done")' /\ UNCHANGED rows
          /\ requests'[r].todo = requests[r].todo /\ requests'[r].answer = answer /\ requests'[r].found = found
      BY <3>4, <3>5 DEF Told, At
    <3>7. Table' = Table
      BY <3>6 DEF Table, InTable
    <3> QED
      BY <2>1, <2>2, <3>1, <3>3, <3>6, <3>7 DEF Synced, At, Got
  <2> QED
    BY <1>2, <2>1, <2>3, <2>4, <2>5, <2>6, <2>7, <2>8, SyncSteps
<1> QED
  BY <1>1, <1>2 DEF SyncInv, Synced

\* What a sync that was told the containers leaves in the table is true of the host:
\* every row then says whether its container runs, is stopped or is not there, also
\* where a sync whose listing failed had written missing before.  This needs a host on
\* which nothing exits while the sync is under way, and no other request beside it.
THEOREM SyncsTellTheTruth ==
  ASSUME Overlap = {}, Faults \subseteq {"docker"}
  PROVE  Spec => SyncTellsTruth
<1>1. Orderly
  BY DEF Orderly
<1>2. Init => SyncInv
  <2> SUFFICES ASSUME Init, NEW r \in Requests PROVE Synced(r)
    BY DEF SyncInv
  <2>1. requests[r].op = "none"
    BY IdleType DEF Init
  <2> QED
    BY <2>1 DEF Synced, Op
<1>3. ScopeInv /\ OrderInv /\ SyncInv /\ [Next]_vars => (ScopeInv /\ OrderInv /\ SyncInv)'
  BY <1>1, ScopeStep, OrderStep, SyncStep
<1>4. ScopeInv /\ OrderInv /\ SyncInv /\ [Next]_vars =>
        [\A r \in Requests :
           Op(r) = "sync" /\ At(r, "rows") /\ Got(r, {"ok"}) /\ requests'[r].op = "none" =>
             \A s \in Table : Agrees(s)']_vars
  <2> SUFFICES ASSUME ScopeInv, OrderInv, SyncInv, Next, NEW r \in Requests,
                      Op(r) = "sync", At(r, "rows"), Got(r, {"ok"}), requests'[r].op = "none", NEW t \in Table
               PROVE  Agrees(t)'
    OBVIOUS
  <2>1. requests[r] \in Request /\ TypeOK /\ Synced(r)
    BY DEF ScopeInv, TypeOK, SyncInv
  <2>2. ~AgentList
    <3>1. containers \in SUBSET Container /\ NoId \in Nat
      BY <2>1 DEF TypeOK, NoId
    <3>2. ASSUME AgentList
          PROVE  \E p \in Requests : Op(p) # "none" /\ At(p, "wait")
      BY <3>1, <3>2, AgentTells DEF AgentList, Carries, Told
    <3> QED
      BY <3>2 DEF OrderInv, OneRequest, At
  <2>3. PICK s \in Servers : SyncNext(r, s)
    BY <1>1, <2>2, SyncSteps DEF Send, SyncRead, SyncListed, Resumes, At, ContainerExits
  <2> DEFINE rest == requests[r].todo \ {s}
             q == [requests[r] EXCEPT !.todo = rest]
  <2>4. rest = {}
    <3>1. q \in Request /\ q.op = "sync"
      BY <2>1 DEF Request, Op
    <3>2. ASSUME rest # {} PROVE Become(r, q)
      BY <2>3, <3>2 DEF SyncNext
    <3> HIDE DEF q
    <3> QED
      BY <2>1, <3>1, <3>2, BecomeType
  <2> QED
    BY <2>1, <2>3, <2>4, SyncNextTells
<1> QED
  BY <1>2, <1>3, <1>4, OrderInit, ScopeInit, PTL DEF Spec, SyncTellsTruth

-----------------------------------------------------------------------------
\* The refinement of ServerCatalog: where a server is, and whether it is wanted.
Place(s) ==
  IF InTable(s) THEN (IF rows[s].status = "deleted" THEN "deleted" ELSE "listed")
  ELSE IF rows[s].status = "unborn" THEN "unborn" ELSE "gone"
Reviving == {"restore", "rebuild", "apply"}
Wanting(s) == \E r \in Requests : Op(r) \in Reviving /\ Srv(r) = s

NamesSame == \A s \in Servers : rows'[s].name = rows[s].name
PlacesSame == \A s \in Servers : Place(s)' = Place(s)
WantedSame == \A s \in Servers : Wanting(s)' <=> Wanting(s)
PlacesButOne(s) == \A t \in Servers \ {s} : Place(t)' = Place(t)

CatalogStep == [Catalog!Next]_(Catalog!vars)

LEMMA CatalogStutters ==
  ASSUME NamesSame, PlacesSame, WantedSame
  PROVE  CatalogStep
  BY DEF NamesSame, PlacesSame, WantedSame, CatalogStep, Catalog!vars, Place, Wanting, Reviving

LEMMA CatalogRevives ==
  ASSUME NEW s \in Servers, Place(s) = "deleted", Place(s)' = "listed", Wanting(s),
         PlacesButOne(s), NamesSame, WantedSame
  PROVE  CatalogStep
<1>1. Catalog!ComeBack(s)
  BY DEF NamesSame, PlacesButOne, WantedSame, Catalog!ComeBack, Catalog!Move, Place, Wanting, Reviving
<1> QED
  BY <1>1 DEF CatalogStep, Catalog!Next

LEMMA CatalogDeletes ==
  ASSUME NEW s \in Servers, Place(s) = "listed", Place(s)' = "deleted",
         PlacesButOne(s), NamesSame, WantedSame
  PROVE  CatalogStep
<1>1. Catalog!Delete(s)
  BY DEF NamesSame, PlacesButOne, WantedSame, Catalog!Delete, Catalog!Move, Place, Wanting, Reviving
<1> QED
  BY <1>1 DEF CatalogStep, Catalog!Next

LEMMA CatalogRemoves ==
  ASSUME NEW s \in Servers, InTable(s), Place(s)' = "gone", rows'[s].name \in Names,
         \A t \in Servers \ {s} : rows'[t] = rows[t], WantedSame
  PROVE  CatalogStep
<1>1. PlacesButOne(s)
  BY DEF PlacesButOne, Place, InTable
<1>2. Catalog!Remove(s)
  BY <1>1 DEF PlacesButOne, WantedSame, Catalog!Remove, Catalog!Move, Place, Wanting, Reviving
<1> QED
  BY <1>2 DEF CatalogStep, Catalog!Next

LEMMA CatalogCreates ==
  ASSUME NEW s \in Servers, rows[s].status = "unborn", Place(s)' = "listed", rows'[s].name \in Names,
         ~NameTaken(rows'[s].name),
         \A t \in Servers \ {s} : rows'[t] = rows[t], WantedSame
  PROVE  CatalogStep
<1>1. PlacesButOne(s) /\ Place(s) = "unborn"
  BY DEF PlacesButOne, Place, InTable
<1>2. PICK n \in Names : n = rows'[s].name
  OBVIOUS
<1>3. \A t \in Servers : ~(InTable(t) /\ rows[t].name = n)
  BY <1>2 DEF NameTaken, Table
<1>4. Catalog!Create(s, n)
  BY <1>1, <1>2, <1>3 DEF PlacesButOne, WantedSame, Catalog!Create, Catalog!Move, Catalog!Holds,
     Place, Wanting, Reviving
<1> QED
  BY <1>4 DEF CatalogStep, Catalog!Next

LEMMA CatalogWants ==
  ASSUME NEW s \in Servers, NamesSame, PlacesSame, \A t \in Servers \ {s} : Wanting(t)' <=> Wanting(t)
  PROVE  CatalogStep
<1>1. Wanting(s)' => Catalog!Want(s)
  BY DEF NamesSame, PlacesSame, Catalog!Want, Place, Wanting, Reviving
<1>2. ~Wanting(s)' => Catalog!Settle(s)
  BY DEF NamesSame, PlacesSame, Catalog!Settle, Place, Wanting, Reviving
<1> QED
  BY <1>1, <1>2 DEF CatalogStep, Catalog!Next

\* What a request does to what is wanted.
LEMMA WantedKept ==
  ASSUME TypeOK, NEW r \in Requests, Progress(r)
  PROVE  /\ \A t \in Servers \ {Srv(r)} : Wanting(t)' <=> Wanting(t)
         /\ Op(r) \notin Reviving \/ requests'[r].op # "none" => WantedSame
<1>1. PICK q \in Request : Become(r, q) /\ (q = Idle \/ Goes(r, q))
  BY DEF Progress
<1>2. \A p \in Requests : requests'[p] = IF p = r THEN q ELSE requests[p]
  BY <1>1, BecomeType
<1>3. q.op = "none" \/ (q.op = Op(r) /\ q.server = Srv(r))
  BY <1>1, IdleType DEF Goes
<1>4. \A p \in Requests \ {r} : Op(p)' = Op(p) /\ Srv(p)' = Srv(p)
  BY <1>2 DEF Op, Srv
<1>5. Op(r)' = q.op /\ Srv(r)' = q.server /\ requests'[r].op = q.op
  BY <1>2 DEF Op, Srv
<1>6. "none" \notin Reviving
  BY DEF Reviving
<1>7. \A t \in Servers \ {Srv(r)} : Wanting(t)' <=> Wanting(t)
  BY <1>3, <1>4, <1>5, <1>6 DEF Wanting
<1>8. Op(r) \notin Reviving \/ requests'[r].op # "none" => WantedSame
  BY <1>3, <1>4, <1>5, <1>6 DEF Wanting, WantedSame
<1> QED
  BY <1>7, <1>8

\* A row of the table that is written under the same name, and how it is listed then.
RowWritten(s) ==
  InTable(s) /\ InTable(s)' /\ NamesSame /\ \A t \in Servers \ {s} : rows'[t] = rows[t]

LEMMA RowIsWritten ==
  ASSUME TypeOK, NEW s \in Servers, InTable(s)
  PROVE  /\ \A status \in Statuses \ (Gone \cup {"unborn"}) :
              SetStatus(s, status) => RowWritten(s) /\ rows'[s].status = status
         /\ \A id \in Nat : SetRunning(s, id) => RowWritten(s) /\ rows'[s].status = "running"
         /\ \A row \in Row : Write(s, row) /\ row.name = rows[s].name /\ row.status \notin Gone \cup {"unborn"}
              => RowWritten(s) /\ rows'[s].status = row.status
<1>1. ASSUME NEW row \in Row, Write(s, row), row.name = rows[s].name, row.status \notin Gone \cup {"unborn"}
      PROVE  RowWritten(s) /\ rows'[s].status = row.status
  BY <1>1 DEF TypeOK, Write, RowWritten, NamesSame, InTable
<1>2. rows[s] \in Row
  BY DEF TypeOK
<1>3. ASSUME NEW status \in Statuses \ (Gone \cup {"unborn"}), SetStatus(s, status)
      PROVE  RowWritten(s) /\ rows'[s].status = status
  <2> DEFINE row == [rows[s] EXCEPT !.status = status]
  <2>1. row \in Row /\ row.name = rows[s].name /\ row.status = status
    BY <1>2 DEF Row
  <2>2. Write(s, row)
    BY <1>3 DEF SetStatus
  <2> HIDE DEF row
  <2> QED
    BY <1>1, <2>1, <2>2
<1>4. ASSUME NEW id \in Nat, SetRunning(s, id)
      PROVE  RowWritten(s) /\ rows'[s].status = "running"
  <2> DEFINE row == [rows[s] EXCEPT !.status = "running", !.container = id]
  <2>1. row \in Row /\ row.name = rows[s].name /\ row.status = "running"
    BY <1>2 DEF Row, Statuses
  <2>2. Write(s, row)
    BY <1>4 DEF SetRunning
  <2>3. "running" \notin Gone \cup {"unborn"}
    BY DEF Gone
  <2> HIDE DEF row
  <2> QED
    BY <1>1, <2>1, <2>2, <2>3
<1> QED
  BY <1>1, <1>3, <1>4

\* A request that ends, or lists its server: it was listed, or is asked back.
LEMMA ListingMaps ==
  ASSUME TypeOK, NEW r \in Requests, Progress(r), NEW s \in Servers, s = Srv(r),
         UNCHANGED rows \/ (RowWritten(s) /\ rows'[s].status # "deleted"),
         UNCHANGED rows \/ rows[s].status # "deleted" \/ (Op(r) \in Reviving /\ requests'[r].op # "none")
  PROVE  CatalogStep
<1>1. CASE UNCHANGED rows
  BY <1>1, WantedKept, CatalogWants DEF NamesSame, PlacesSame, Place, InTable
<1>2. CASE RowWritten(s) /\ rows'[s].status # "deleted" /\ rows[s].status # "deleted"
  <2>1. PlacesSame
    BY <1>2 DEF PlacesSame, Place, InTable, RowWritten
  <2> QED
    BY <1>2, <2>1, WantedKept, CatalogWants DEF RowWritten
<1>3. CASE RowWritten(s) /\ rows'[s].status # "deleted" /\ rows[s].status = "deleted"
           /\ Op(r) \in Reviving /\ requests'[r].op # "none"
  <2>1. Place(s) = "deleted" /\ Place(s)' = "listed" /\ PlacesButOne(s) /\ Wanting(s)
    BY <1>3 DEF PlacesButOne, Place, InTable, RowWritten, Wanting
  <2> QED
    BY <1>3, <2>1, WantedKept, CatalogRevives DEF RowWritten
<1> QED
  BY <1>1, <1>2, <1>3

LEMMA CatalogQuiet ==
  ASSUME ScopeInv, NEW r \in Requests,
         StartExisting(r) \/ Stop(r) \/ Purge(r) \/ ContainerDone(r) \/ SoftDeleteDone(r)
         \/ SyncRead(r) \/ SyncListed(r)
  PROVE  CatalogStep
<1>1. Progress(r) /\ TypeOK
  BY SteadySteps DEF ScopeInv, Steady
<1>2. UNCHANGED rows
  BY DEF StartExisting, Stop, Purge, ContainerDone, SoftDeleteDone, SyncRead, SyncListed
<1>3. PICK s \in Servers : s = Srv(r)
  BY <1>1 DEF TypeOK, Request, Srv
<1> QED
  BY <1>1, <1>2, <1>3, ListingMaps

LEMMA CatalogDones ==
  ASSUME ScopeInv, OrderInv, NEW r \in Requests,
         CreateDone(r) \/ RecreateDone(r) \/ RebuildDone(r) \/ ApplyDone(r) \/ StartDone(r) \/ StopDone(r)
  PROVE  CatalogStep
<1>1. Progress(r) /\ TypeOK
  BY SteadySteps DEF ScopeInv, Steady
<1>2. /\ Op(r) \in User /\ At(r, "done") /\ ~At(r, "read") /\ ~At(r, "marked") /\ ~At(r, "send")
      /\ requests[r].asks \in {"create", "rebuild", "start", "stop"}
  BY DEF CreateDone, RecreateDone, RebuildDone, ApplyDone, StartDone, StopDone, Resumes, User, Owning, At
<1>3. Owns(r) /\ Work(r)
  BY <1>2, WorkFacts
<1>4. PICK s \in Servers : s = Srv(r)
  BY <1>3, ActiveFacts
<1>5. InTable(s) /\ rows[s].status # "deleted" /\ requests[r].made \in Nat
  BY <1>2, <1>3, <1>4, ActiveFacts DEF Work, Transient, Request
<1>6. \/ UNCHANGED rows
      \/ SetRunning(s, requests[r].made)
      \/ \E status \in {"failed", "missing", "running", "stopped"} : SetStatus(s, status)
  BY <1>4 DEF CreateDone, RecreateDone, RebuildDone, ApplyDone, StartDone, StopDone
<1>7. UNCHANGED rows \/ (RowWritten(s) /\ rows'[s].status # "deleted")
  BY <1>1, <1>5, <1>6, RowIsWritten, StatusesKept
<1> QED
  BY <1>1, <1>4, <1>5, <1>7, ListingMaps

LEMMA CatalogLists ==
  ASSUME ScopeInv, OrderInv, NEW r \in Requests, Recreate(r) \/ Rebuild(r) \/ Restore(r)
  PROVE  CatalogStep
<1>1. Progress(r) /\ TypeOK
  BY SteadySteps DEF ScopeInv, Steady
<1>2. Op(r) \in Owning /\ Owns(r) /\ Op(r) \in Reviving \cup {"start"}
  BY DEF Recreate, Rebuild, Restore, Owning, Owns, Reviving
<1>3. PICK s \in Servers : s = Srv(r)
  BY <1>2, ActiveFacts
<1>4. InTable(s) /\ rows[s] \in Row /\ rows[s].status \notin Gone \cup {"unborn"} /\ requests[r] \in Request
  BY <1>2, <1>3, ActiveFacts
<1>5. Op(r) = "start" => rows[s].status # "deleted"
  <2>1. Op(r) = "start" => Seen(r).status = "missing" /\ At(r, "read")
    BY DEF Recreate, Rebuild, Restore
  <2> QED
    BY <1>2, <1>3, <2>1, ReadFacts
<1>6. requests'[r].op # "none"
  <2> DEFINE q == [requests[r] EXCEPT !.at = "marked"]
             o == [kind \in Kinds |-> [requests[r] EXCEPT !.at = "send", !.asks = kind]]
  <2>1. q \in Request /\ q.op = Op(r)
    BY <1>4 DEF Request, Op
  <2>2. \A kind \in Kinds : o[kind] \in Request /\ o[kind].op = Op(r)
    BY <1>4 DEF Request, Op
  <2>3. Become(r, q) \/ \E kind \in Kinds : Become(r, o[kind])
    BY DEF Recreate, Rebuild, Restore, Ask, Kinds
  <2> HIDE DEF q, o
  <2>4. requests'[r].op = Op(r)
    BY <1>1, <2>1, <2>2, <2>3, BecomeType
  <2> QED
    BY <1>2, <2>4 DEF Reviving
<1>7. RowWritten(s) /\ rows'[s].status # "deleted"
  <2>1. CASE Recreate(r) \/ Rebuild(r)
    <3>1. \E status \in Transient : SetStatus(s, status)
      BY <1>3, <2>1 DEF Recreate, Rebuild, Transient
    <3>2. \A status \in Transient : status \in Statuses \ (Gone \cup {"unborn"}) /\ status # "deleted"
      BY StatusesKept DEF Transient
    <3> QED
      BY <1>1, <1>4, <3>1, <3>2, RowIsWritten
  <2>2. CASE Restore(r)
    <3> DEFINE row == [rows[s] EXCEPT !.status = "missing", !.deletedAt = FALSE]
    <3>1. row \in Row /\ row.name = rows[s].name /\ row.status = "missing"
      BY <1>4 DEF Row, Statuses
    <3>2. Write(s, row)
      BY <1>3, <2>2 DEF Restore
    <3>3. "missing" \notin Gone \cup {"unborn"}
      BY DEF Gone
    <3> HIDE DEF row
    <3> QED
      BY <1>1, <1>4, <3>1, <3>2, <3>3, RowIsWritten
  <2> QED
    BY <2>1, <2>2
<1> QED
  BY <1>1, <1>2, <1>3, <1>5, <1>6, <1>7, ListingMaps

LEMMA CatalogSoftDelete ==
  ASSUME ScopeInv, OrderInv, NEW r \in Requests, SoftDelete(r)
  PROVE  CatalogStep
<1>1. Progress(r) /\ TypeOK
  BY SteadySteps DEF ScopeInv, Steady
<1>2. Op(r) \in Owning /\ Owns(r) /\ Op(r) \notin Reviving
  BY DEF SoftDelete, Owning, Owns, Reviving
<1>3. PICK s \in Servers : s = Srv(r)
  BY <1>2, ActiveFacts
<1>4. InTable(s) /\ rows[s] \in Row
  BY <1>2, <1>3, ActiveFacts
<1> DEFINE row == [rows[s] EXCEPT !.status = "deleted", !.deletedAt = TRUE]
<1>5. row \in Row /\ row.name = rows[s].name /\ row.status = "deleted"
  BY <1>4 DEF Row, Statuses
<1>6. Write(s, row)
  BY <1>3 DEF SoftDelete
<1>7. "deleted" \notin Gone \cup {"unborn"}
  BY DEF Gone
<1> HIDE DEF row
<1>8. RowWritten(s) /\ rows'[s].status = "deleted"
  BY <1>1, <1>4, <1>5, <1>6, <1>7, RowIsWritten
<1>9. Place(s)' = "deleted" /\ PlacesButOne(s) /\ NamesSame /\ Place(s) \in {"listed", "deleted"}
  BY <1>8 DEF RowWritten, Place, PlacesButOne, InTable
<1>10. WantedSame
  BY <1>1, <1>2, WantedKept
<1>11. CASE Place(s) = "deleted"
  BY <1>9, <1>10, <1>11, CatalogStutters DEF PlacesButOne, PlacesSame
<1> QED
  BY <1>9, <1>10, <1>11, CatalogDeletes

\* A sync lists nothing that is deleted: a deleted server at rest has no container.
LEMMA CatalogSyncs ==
  ASSUME ScopeInv, OrderInv, NEW r \in Requests, NEW s \in Servers, SyncNext(r, s)
  PROVE  CatalogStep
<1>1. Progress(r) /\ TypeOK /\ rows[s] \in Row
  BY SteadySteps DEF ScopeInv, Steady, TypeOK
<1>2. /\ Op(r) = "sync" /\ At(r, "rows") /\ ~At(r, "read") /\ s \in requests[r].todo /\ Op(r) \notin Reviving
  BY DEF SyncNext, At, Reviving
<1>3. /\ InTable(s) /\ requests[r].table[s] = rows[s]
      /\ \A n \in Names : (\E x \in requests[r].found : x.name = n) => Named(n) # {}
  <2>1. Lists(r)
    BY DEF OrderInv, Listed
  <2>2. CASE Got(r, {"ok"})
    BY <1>2, <2>1, <2>2 DEF Lists, Table
  <2>3. CASE Got(r, {"unlisted"})
    BY <1>2, <2>1, <2>3 DEF Lists, Table
  <2> QED
    BY <1>2, <2>1, <2>2, <2>3 DEF Lists, Got
<1> DEFINE status == SyncStatus(rows[s], requests[r].found)
<1>4. SetStatus(s, status) \/ UNCHANGED rows
  BY <1>3 DEF SyncNext
<1>5. status \in Statuses \ (Gone \cup {"unborn"})
  BY <1>1, SyncStatusType
<1>6. ASSUME rows[s].status = "deleted" PROVE status = "deleted"
  <2>1. \A t \in Servers : Calm(t)
    BY <1>2, OthersCalm
  <2>2. ASSUME NEW k \in Named(rows[s].name) PROVE FALSE
    <3>1. k \in containers /\ k.name = rows[s].name /\ k.server \in Servers
      BY <1>1, <2>2 DEF Named, TypeOK, Container
    <3>2. InTable(k.server) /\ rows[k.server].status \notin Barren
      BY <2>1, <3>1 DEF Calm
    <3>3. k.server = s
      BY <1>3, <3>1, <3>2 DEF ScopeInv, RequestsInv, HostInv, NamesUnique, ContainersNamed
    <3> QED
      BY <1>6, <3>2, <3>3 DEF Barren
  <2>3. ~\E x \in requests[r].found : x.name = rows[s].name
    BY <1>1, <1>3, <2>2 DEF Row
  <2>4. {x \in requests[r].found : x.name = rows[s].name} = {}
    BY <2>3
  <2> QED
    BY <1>6, <2>4 DEF SyncStatus
<1>7. status = "deleted" => rows[s].status = "deleted"
  BY DEF SyncStatus
<1> HIDE DEF status
<1>8. UNCHANGED rows \/ (RowWritten(s) /\ rows'[s].status = status)
  BY <1>1, <1>3, <1>4, <1>5, RowIsWritten
<1>9. NamesSame /\ PlacesSame
  BY <1>6, <1>7, <1>8 DEF RowWritten, NamesSame, PlacesSame, Place, InTable
<1> QED
  BY <1>1, <1>2, <1>9, WantedKept, CatalogStutters

LEMMA CatalogErases ==
  ASSUME ScopeInv, OrderInv, NEW r \in Requests, PurgeDone(r) \/ \E s \in Servers : CleanupNext(r, s)
  PROVE  CatalogStep
<1>1. PICK s \in Servers : Erases(r, s)
  BY ErasesRows DEF ScopeInv
<1>2. TypeOK /\ \A p \in Requests : requests[p] \in Request
  BY DEF ScopeInv, TypeOK
<1>3. WantedSame
  <2>1. PICK q \in Request : Become(r, q) /\ q.op \in {"none", "cleanup"}
    BY <1>1, IdleType DEF Erases
  <2>2. \A p \in Requests : requests'[p] = IF p = r THEN q ELSE requests[p]
    BY <1>2, <2>1, BecomeType
  <2>3. Op(r) \notin Reviving
    BY <1>1 DEF Erases, Reviving
  <2> QED
    BY <2>1, <2>2, <2>3 DEF WantedSame, Wanting, Op, Srv, Reviving
<1>4. PICK how \in Gone : Erase(s, how)
  BY <1>1 DEF Erases
<1>5. CASE ~InTable(s)
  <2>1. UNCHANGED rows
    BY <1>4, <1>5 DEF Erase
  <2> QED
    BY <1>3, <2>1, CatalogStutters DEF NamesSame, PlacesSame, Place, InTable
<1>6. CASE InTable(s)
  <2> DEFINE row == [Blank EXCEPT !.status = how]
  <2>1. row.status = how /\ row.name \in Names
    BY BlankType DEF Row
  <2>2. rows' = [rows EXCEPT ![s] = row] /\ rows \in [Servers -> Row]
    BY <1>2, <1>4, <1>6 DEF Erase, TypeOK
  <2> HIDE DEF row
  <2>3. rows'[s].name \in Names /\ rows'[s].status = how /\ \A t \in Servers \ {s} : rows'[t] = rows[t]
    BY <2>1, <2>2
  <2>4. Place(s)' = "gone"
    BY <2>3 DEF Place, InTable, Gone
  <2> QED
    BY <1>3, <1>6, <2>3, <2>4, CatalogRemoves
<1> QED
  BY <1>5, <1>6

LEMMA CatalogInserts ==
  ASSUME ScopeInv, OrderInv, NEW r \in Requests, CreateInsert(r)
  PROVE  CatalogStep
<1>1. TypeOK /\ requests[r] \in Request
  BY DEF ScopeInv, TypeOK
<1>2. PICK s \in Servers : s = Srv(r)
  BY <1>1 DEF Srv, Request
<1>3. Op(r) = "create" /\ Op(r) \notin Reviving /\ rows[s].status = "unborn"
  BY <1>2 DEF CreateInsert, ScopeInv, RequestsInv, Fresh, Reviving
<1>4. Progress(r)
  <2>1. CASE Finish(r)
    BY <2>1, FinishProgress
  <2>2. CASE Ask(r, "create")
    BY <1>1, <1>3, <2>2, AskProgress DEF Kinds
  <2> QED
    BY <2>1, <2>2 DEF CreateInsert
<1>5. CASE UNCHANGED rows
  BY <1>1, <1>2, <1>4, <1>5, ListingMaps
<1>6. CASE ~NameTaken(Seen(r).name) /\ rows' = [rows EXCEPT ![s] = [Seen(r) EXCEPT !.status = "creating"]]
  <2> DEFINE row == [Seen(r) EXCEPT !.status = "creating"]
  <2>1. row.name = Seen(r).name /\ row.status = "creating" /\ row.name \in Names
    BY <1>1 DEF Seen, Request, Row
  <2>2. rows' = [rows EXCEPT ![s] = row] /\ rows \in [Servers -> Row]
    BY <1>1, <1>6 DEF TypeOK
  <2> HIDE DEF row
  <2>3. rows'[s] = row /\ \A t \in Servers \ {s} : rows'[t] = rows[t]
    BY <2>2
  <2>4. Place(s)' = "listed"
    BY <2>1, <2>3 DEF Place, InTable, Gone
  <2>5. WantedSame
    BY <1>1, <1>3, <1>4, WantedKept
  <2> QED
    BY <1>3, <1>6, <2>1, <2>3, <2>4, <2>5, CatalogCreates
<1> QED
  BY <1>2, <1>5, <1>6 DEF CreateInsert

\* Whoever asks for a server, or is done asking, is the only one who does.
LEMMA CatalogArrives ==
  ASSUME TypeOK, NEW r \in Requests, Arrives(r)
  PROVE  CatalogStep
<1>1. PICK q \in Request : Become(r, q)
  BY DEF Arrives
<1>2. \A p \in Requests : requests'[p] = IF p = r THEN q ELSE requests[p]
  BY <1>1, BecomeType
<1>3. UNCHANGED rows /\ Op(r) \notin Reviving
  BY DEF Arrives, Reviving
<1>4. q.server \in Servers
  BY DEF Request
<1>5. \A t \in Servers \ {q.server} : Wanting(t)' <=> Wanting(t)
  BY <1>2, <1>3 DEF Wanting, Op, Srv
<1> QED
  BY <1>3, <1>4, <1>5, CatalogWants DEF NamesSame, PlacesSame, Place, InTable

\* Sending and carrying out commands changes neither rows nor what is asked for.
LEMMA CatalogIdles ==
  ASSUME TypeOK, (\E r \in Requests : Send(r) \/ Timeout(r)) \/ AgentStep \/ \E k \in containers : ContainerExits(k)
  PROVE  CatalogStep
<1>1. UNCHANGED rows
  BY DEF Send, Timeout, AgentStep, AgentCreate, AgentDelete, AgentRebuild, AgentPower, AgentList, Reply,
     ContainerExits
<1>2. \A p \in Requests : Op(p)' = Op(p) /\ Srv(p)' = Srv(p)
  <2>1. ASSUME NEW r \in Requests, Send(r) \/ Timeout(r)
        PROVE  \A p \in Requests : Op(p)' = Op(p) /\ Srv(p)' = Srv(p)
    <3>1. requests[r] \in Request
      BY DEF TypeOK
    <3> DEFINE q == [requests[r] EXCEPT !.at = "wait"]
               o == Answered(r, "error")
    <3>2. q \in Request /\ q.op = Op(r) /\ q.server = Srv(r)
      BY <3>1 DEF Request, Op, Srv
    <3>3. o \in Request /\ o.op = Op(r) /\ o.server = Srv(r)
      BY AnsweredType DEF Goes
    <3>4. Become(r, q) \/ Become(r, o)
      BY <2>1 DEF Send, Timeout
    <3> HIDE DEF q, o
    <3> QED
      BY <3>2, <3>3, <3>4, BecomeType DEF Op, Srv
  <2>2. ASSUME AgentStep PROVE \A p \in Requests : Op(p)' = Op(p) /\ Srv(p)' = Srv(p)
    BY <2>2, AgentCarries, ReplyType DEF Carried, Op, Srv
  <2> QED
    BY <2>1, <2>2 DEF ContainerExits, Op, Srv
<1> QED
  BY <1>1, <1>2, CatalogStutters DEF NamesSame, PlacesSame, WantedSame, Place, InTable, Wanting

\* The servers implement ServerCatalog: names stay unique, a deleted server stays
\* deleted until somebody asks for it, and only a purge or a clean-up takes a server
\* for good, as long as requests do not overlap and what fails is Docker or a server
\* itself, once the image is there.
THEOREM ServersImplementCatalog ==
  ASSUME Orderly
  PROVE  Spec => CatalogSpec
<1>1. Init => Catalog!Init
  <2> SUFFICES ASSUME Init PROVE Catalog!Init
    OBVIOUS
  <2>1. \A s \in Servers : rows[s] = Blank /\ rows[s].status = "unborn" /\ rows[s].name \in Names
    BY BlankType DEF Init, Blank, Row
  <2>2. \A r \in Requests : requests[r].op = "none"
    BY IdleType DEF Init
  <2> QED
    BY <2>1, <2>2 DEF Catalog!Init, InTable, Op
<1>2. ScopeInv /\ OrderInv /\ [Next]_vars => (ScopeInv /\ OrderInv)'
  BY ScopeStep, OrderStep DEF Orderly
<1>3. ScopeInv /\ OrderInv /\ [Next]_vars => [Catalog!Next]_(Catalog!vars)
  <2> SUFFICES ASSUME ScopeInv, OrderInv, [Next]_vars PROVE CatalogStep
    BY DEF CatalogStep
  <2>1. CASE UNCHANGED vars
    BY <2>1, CatalogStutters DEF vars, NamesSame, PlacesSame, WantedSame, Place, InTable, Wanting, Op, Srv
  <2>2. ASSUME NEW r \in Requests, Begin(r) \/ Register(r) PROVE CatalogStep
    BY <2>2, BeginArrives, RegisterArrives, CatalogArrives DEF ScopeInv
  <2>3. ASSUME NEW r \in Requests, Step(r) PROVE CatalogStep
    BY <2>3, CatalogIdles, CatalogInserts, CatalogDones, CatalogQuiet, CatalogLists, CatalogSoftDelete,
       CatalogErases, CatalogSyncs DEF Step, ScopeInv
  <2>4. ~Disconnect /\ ~DORestart
    BY DEF Orderly, Disconnect, DORestart
  <2> QED
    BY <2>1, <2>2, <2>3, <2>4, CatalogIdles DEF Next, ScopeInv
<1> QED
  BY <1>1, <1>2, <1>3, OrderInit, ScopeInit, PTL DEF Spec, CatalogSpec, Catalog!Spec
=============================================================================
