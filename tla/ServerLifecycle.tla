-------------------------- MODULE ServerLifecycle --------------------------
(***************************************************************************)
(* The game servers of one agent: their rows in the D1 table servers, the  *)
(* Worker's requests that change them, the Durable Object (DO) that        *)
(* forwards commands to the agent, and the containers and data             *)
(* directories the agent keeps.                                            *)
(*                                                                         *)
(* A request reads a row, writes it, asks the agent for something and      *)
(* writes the row again; each of these is a step, and other requests and   *)
(* the status sync may act in between.  Every write is by id and           *)
(* unconditional.  The agent takes commands off its socket one at a time,  *)
(* and a command is one step of it.  A question that times out, or that    *)
(* the DO forgets in a restart, leaves its command where it is: the agent  *)
(* may still carry it out, unheard.                                        *)
(*                                                                         *)
(* Left out: permissions, ports and images, audit rows, the column         *)
(* data_exists with the round trips that only fill it, moving a server to  *)
(* another data path, adoption.  The agent's row is taken to agree with    *)
(* its connection (AgentPresence says when it does not), and the removal   *)
(* of a container that never started is taken to succeed.                  *)
(***************************************************************************)
EXTENDS Naturals, Sequences

CONSTANTS
  Servers,       \* server ids: one per create request
  Names,         \* server names; they name containers and directories too
  Requests,      \* bound on the requests in progress at once
  MaxRequests,   \* bound on the requests ever received, syncs included
  Overlap,       \* "user": user requests may overlap, "sync": syncs may too
  Faults         \* the faults that may happen, see FaultKinds

\* pull: an image cannot be pulled; docker: another Docker call fails; remove: so
\* does a container's removal; exit: a container stops by itself; late: an answer
\* comes after the timeout; outage: the connection is lost; restart: so is the DO.
FaultKinds == {"pull", "docker", "remove", "exit", "late", "outage", "restart"}

ASSUME ServersAssumption == Servers # {} /\ Names # {}
ASSUME BoundsAssumption  == MaxRequests \in Nat
ASSUME ModesAssumption   == Overlap \subseteq {"user", "sync"} /\ Faults \subseteq FaultKinds

VARIABLES
  rows,         \* the table servers: rows[s] is the row of id s
  online,       \* the agent is registered with the DO
  queue,        \* commands sent and not yet carried out, in order
  containers,   \* the managed containers on the agent's host
  directories,  \* the names that have a data directory there
  born,         \* the id the next container gets
  requests,     \* requests[r]: where request r stands
  received      \* requests received so far

vars == <<rows, online, queue, containers, directories, born, requests, received>>
hostVars == <<containers, directories, born>>

Transient == {"creating", "rebuilding", "restarting"}
Gone == {"purged", "cleaned"}
Statuses == Transient \cup Gone \cup
            {"unborn", "running", "stopped", "failed", "missing", "deleted"}
NoId == 0
Row == [name : Names, container : Nat, status : Statuses, deletedAt : BOOLEAN]
Container == [id : Nat \ {NoId}, server : Servers, name : Names, up : BOOLEAN]

Blank == [name |-> CHOOSE n \in Names : TRUE, container |-> NoId,
          status |-> "unborn", deletedAt |-> FALSE]

InTable(s) == rows[s].status \notin Gone \cup {"unborn"}
Table == {s \in Servers : InTable(s)}
NameTaken(n) == \E s \in Table : rows[s].name = n

WithId(id) == {k \in containers : k.id = id}
Named(n)   == {k \in containers : k.name = n}

\* A request: its operation, where it stands, its server, the row it read, what
\* it asks of the agent and the answer.  A sync keeps the rows it read (table)
\* and the containers listed to it (found); todo holds the rows still to do.
Ops == {"create", "start", "stop", "container", "softDelete", "purge", "restore",
        "rebuild", "apply", "cleanup", "sync"}
Kinds == {"create", "delete", "rebuild", "start", "stop", "restart", "list"}
Request ==
  [op : Ops \cup {"none"}, at : {"idle", "read", "marked", "send", "wait", "done", "rows"},
   server : Servers, read : Row, asks : Kinds, wipe : BOOLEAN,
   answer : {"none", "ok", "error", "gone", "thrown", "unlisted"}, made : Nat,
   table : [Servers -> Row], found : SUBSET Container, todo : SUBSET Servers]
Idle ==
  [op |-> "none", at |-> "idle", server |-> CHOOSE s \in Servers : TRUE,
   read |-> Blank, asks |-> "list", wipe |-> FALSE, answer |-> "none", made |-> NoId,
   table |-> [s \in Servers |-> Blank], found |-> {}, todo |-> {}]

\* A command on its way; heard says whether an answer would still be taken.
Command == [kind : Kinds, request : Requests, heard : BOOLEAN, server : Servers,
            name : Names, container : Nat, wipe : BOOLEAN]

TypeOK ==
  /\ rows \in [Servers -> Row]
  /\ online \in BOOLEAN
  /\ queue \in Seq(Command)
  /\ containers \in SUBSET Container
  /\ directories \in SUBSET Names
  /\ born \in Nat \ {NoId}
  /\ requests \in [Requests -> Request]
  /\ received \in 0 .. MaxRequests

Init ==
  /\ rows = [s \in Servers |-> Blank]
  /\ online = TRUE
  /\ queue = <<>>
  /\ containers = {} /\ directories = {} /\ born = 1
  /\ requests = [r \in Requests |-> Idle]
  /\ received = 0

-----------------------------------------------------------------------------
\* Steps of a request

Op(r)  == requests[r].op
At(r, place) == requests[r].at = place
Srv(r) == requests[r].server
Seen(r) == requests[r].read

Become(r, q) == requests' = [requests EXCEPT ![r] = q]
Finish(r) == Become(r, Idle)
Ask(r, kind) == Become(r, [requests[r] EXCEPT !.at = "send", !.asks = kind])

\* May a request be received while those in progress are in progress?
MayOverlap(op) ==
  \A q \in Requests :
    \/ Op(q) = "none"
    \/ "user" \in Overlap /\ op # "sync" /\ Op(q) # "sync"
    \/ "sync" \in Overlap /\ "sync" \in {op, Op(q)}

Receive(r, q) ==
  /\ received < MaxRequests
  /\ Op(r) = "none"
  /\ MayOverlap(q.op)
  /\ received' = received + 1
  /\ Become(r, q)
  /\ UNCHANGED <<rows, online, queue, hostVars>>

Opened(op, s) == [Idle EXCEPT !.op = op, !.at = "read", !.server = s, !.read = rows[s]]

\* UPDATE servers ... WHERE id = s, of its status or of its whole row.
Write(s, row) == rows' = IF InTable(s) THEN [rows EXCEPT ![s] = row] ELSE rows
SetStatus(s, status) == Write(s, [rows[s] EXCEPT !.status = status])
SetRunning(s, id) == Write(s, [rows[s] EXCEPT !.status = "running", !.container = id])
Erase(s, how) == rows' = IF InTable(s) THEN [rows EXCEPT ![s] = [Blank EXCEPT !.status = how]] ELSE rows

CommandOf(r) ==
  [kind |-> requests[r].asks, request |-> r, heard |-> TRUE, server |-> Srv(r),
   name |-> Seen(r).name, container |-> Seen(r).container, wipe |-> requests[r].wipe]

Answered(r, answer) == [requests[r] EXCEPT !.at = "done", !.answer = answer]

\* Mutant: the agent handles messages concurrently, the latest first.
SendOvertaking(r) ==
  /\ At(r, "send")
  /\ IF online
       THEN /\ queue' = <<CommandOf(r)>> \o queue
            /\ Become(r, [requests[r] EXCEPT !.at = "wait"])
       ELSE Become(r, Answered(r, "error")) /\ UNCHANGED queue
  /\ UNCHANGED <<rows, online, hostVars, received>>

\* The DO forwards a command, or answers 503 when no agent is registered.
Send(r) ==
  /\ At(r, "send")
  /\ IF online
       THEN /\ queue' = Append(queue, CommandOf(r))
            /\ Become(r, [requests[r] EXCEPT !.at = "wait"])
       ELSE Become(r, Answered(r, "error")) /\ UNCHANGED queue
  /\ UNCHANGED <<rows, online, hostVars, received>>

Unheard(cmds, R) ==
  [i \in DOMAIN cmds |-> IF cmds[i].request \in R THEN [cmds[i] EXCEPT !.heard = FALSE] ELSE cmds[i]]
Pending(r) == \E i \in DOMAIN queue : queue[i].request = r /\ queue[i].heard

\* The DO gives up waiting (504).
Timeout(r) ==
  /\ At(r, "wait")
  /\ "late" \in Faults \/ ~Pending(r)
  /\ queue' = Unheard(queue, {r})
  /\ Become(r, Answered(r, "error"))
  /\ UNCHANGED <<rows, online, hostVars, received>>

\* A handler resumes with the answer it asked for.
Resumes(r, op, kind) == At(r, "done") /\ Op(r) = op /\ requests[r].asks = kind
Got(r, answers) == requests[r].answer \in answers

Quiet == UNCHANGED <<online, queue, hostVars, received>>

-----------------------------------------------------------------------------
\* The Worker's routes

\* Accepted only when the agent answers that the ports are free.
BeginCreate(r, s, n) ==
  /\ rows[s].status = "unborn"
  /\ \A q \in Requests : Op(q) = "create" => Srv(q) # s
  /\ ~NameTaken(n) /\ online
  /\ Receive(r, [Opened("create", s) EXCEPT !.read.name = n])

\* INSERT; UNIQUE(agent_id, name) refuses a name taken in the meantime.
CreateInsert(r) ==
  /\ Op(r) = "create" /\ At(r, "read")
  /\ IF NameTaken(Seen(r).name)
       THEN Finish(r) /\ UNCHANGED rows
       ELSE /\ rows' = [rows EXCEPT ![Srv(r)] = [Seen(r) EXCEPT !.status = "creating"]]
            /\ Ask(r, "create")
  /\ Quiet

\* An exception leaves the row as it is.
CreateDone(r) ==
  /\ Resumes(r, "create", "create")
  /\ \/ Got(r, {"ok"}) /\ SetRunning(Srv(r), requests[r].made)
     \/ Got(r, {"error"}) /\ SetStatus(Srv(r), "failed")
     \/ Got(r, {"thrown"}) /\ UNCHANGED rows
  /\ Finish(r) /\ Quiet

BeginStart(r, s) ==
  /\ InTable(s)
  /\ \/ rows[s].status = "stopped" /\ rows[s].container # NoId
     \/ rows[s].status = "missing"
  /\ Receive(r, Opened("start", s))

StartExisting(r) ==
  /\ Op(r) = "start" /\ At(r, "read") /\ Seen(r).status = "stopped"
  /\ Ask(r, "start") /\ UNCHANGED rows /\ Quiet

\* recreateServerContainer, for start, rebuild and restore.
Recreate(r) ==
  /\ \/ Op(r) = "start" /\ At(r, "read") /\ Seen(r).status = "missing"
     \/ Op(r) = "rebuild" /\ At(r, "read") /\ Seen(r).container = NoId
     \/ Op(r) = "restore" /\ At(r, "marked")
  /\ SetStatus(Srv(r), "creating")
  /\ Ask(r, "create") /\ Quiet

RecreateDone(r) ==
  /\ \E op \in {"start", "rebuild", "restore"} : Resumes(r, op, "create")
  /\ IF Got(r, {"ok"}) THEN SetRunning(Srv(r), requests[r].made)
     ELSE SetStatus(Srv(r), IF Op(r) = "rebuild" THEN "failed" ELSE "missing")
  /\ Finish(r) /\ Quiet

StartDone(r) ==
  /\ Resumes(r, "start", "start")
  /\ IF Got(r, {"ok"}) THEN SetStatus(Srv(r), "running") ELSE UNCHANGED rows
  /\ Finish(r) /\ Quiet

BeginStop(r, s) ==
  /\ InTable(s) /\ rows[s].container # NoId /\ rows[s].status = "running"
  /\ Receive(r, Opened("stop", s))

Stop(r) ==
  /\ Op(r) = "stop" /\ At(r, "read")
  /\ Ask(r, "stop") /\ UNCHANGED rows /\ Quiet

\* Mutant: Docker's word for a stopped container is stored.
StopDoneExited(r) ==
  /\ Resumes(r, "stop", "stop")
  /\ IF Got(r, {"ok"}) THEN SetStatus(Srv(r), "exited") ELSE UNCHANGED rows
  /\ Finish(r) /\ Quiet

StopDone(r) ==
  /\ Resumes(r, "stop", "stop")
  /\ IF Got(r, {"ok"}) THEN SetStatus(Srv(r), "stopped") ELSE UNCHANGED rows
  /\ Finish(r) /\ Quiet

\* The container routes, which write no row; any listed container may be started.
BeginContainer(r, s, kind) ==
  /\ InTable(s) /\ rows[s].container # NoId /\ kind \in {"stop", "restart"}
  /\ Receive(r, [Opened("container", s) EXCEPT !.at = "send", !.asks = kind])

BeginContainerStart(r, k) ==
  Receive(r, [Idle EXCEPT !.op = "container", !.at = "send", !.asks = "start",
                          !.read.container = k.id])

ContainerDone(r) ==
  /\ Op(r) = "container" /\ At(r, "done")
  /\ Finish(r) /\ UNCHANGED rows /\ Quiet

BeginSoftDelete(r, s) ==
  /\ InTable(s) /\ rows[s].status # "deleted"
  /\ Receive(r, Opened("softDelete", s))

SoftDelete(r) ==
  /\ Op(r) = "softDelete" /\ At(r, "read")
  /\ Write(Srv(r), [rows[Srv(r)] EXCEPT !.status = "deleted", !.deletedAt = TRUE])
  /\ IF Seen(r).container # NoId THEN Ask(r, "delete") ELSE Finish(r)
  /\ Quiet

\* The answer is not looked at.
SoftDeleteDone(r) ==
  /\ Resumes(r, "softDelete", "delete")
  /\ Finish(r) /\ UNCHANGED rows /\ Quiet

BeginPurge(r, s, removeData) ==
  /\ InTable(s)
  /\ Receive(r, [Opened("purge", s) EXCEPT !.wipe = removeData])

Purge(r) ==
  /\ Op(r) = "purge" /\ At(r, "read")
  /\ IF online THEN Ask(r, "delete")
     ELSE Become(r, Answered(r, "none"))
  /\ UNCHANGED rows /\ Quiet

PurgeDone(r) ==
  /\ Op(r) = "purge" /\ At(r, "done")
  /\ Erase(Srv(r), "purged")
  /\ Finish(r) /\ Quiet

BeginRestore(r, s) ==
  /\ InTable(s) /\ rows[s].status = "deleted" /\ rows[s].deletedAt
  /\ Receive(r, Opened("restore", s))

Restore(r) ==
  /\ Op(r) = "restore" /\ At(r, "read")
  /\ Write(Srv(r), [rows[Srv(r)] EXCEPT !.status = "missing", !.deletedAt = FALSE])
  /\ Become(r, [requests[r] EXCEPT !.at = "marked"])
  /\ Quiet

BeginRebuild(r, s) == InTable(s) /\ Receive(r, Opened("rebuild", s))

BeginApply(r, s) ==
  /\ InTable(s) /\ rows[s].container # NoId /\ rows[s].status # "creating"
  /\ Receive(r, Opened("apply", s))

\* Rebuild of a known container, and apply-config.
Rebuild(r) ==
  /\ At(r, "read") /\ Seen(r).container # NoId
  /\ \/ Op(r) = "rebuild" /\ SetStatus(Srv(r), "rebuilding")
     \/ Op(r) = "apply" /\ SetStatus(Srv(r), "restarting")
  /\ Ask(r, "rebuild") /\ Quiet

\* Mutants: the new container's id is not stored; a rebuild that finds no
\* container leaves the row as it is.
RebuildDoneSameId(r) ==
  /\ Resumes(r, "rebuild", "rebuild")
  /\ \/ Got(r, {"ok"}) /\ SetStatus(Srv(r), "running")
     \/ Got(r, {"error", "gone"}) /\ SetStatus(Srv(r), "failed")
     \/ Got(r, {"thrown"}) /\ UNCHANGED rows
  /\ Finish(r) /\ Quiet
RebuildDoneGoneIgnored(r) ==
  /\ Resumes(r, "rebuild", "rebuild")
  /\ \/ Got(r, {"ok"}) /\ SetRunning(Srv(r), requests[r].made)
     \/ Got(r, {"error"}) /\ SetStatus(Srv(r), "failed")
     \/ Got(r, {"gone", "thrown"}) /\ UNCHANGED rows
  /\ Finish(r) /\ Quiet

\* An exception leaves the row as it is.
RebuildDone(r) ==
  /\ Resumes(r, "rebuild", "rebuild")
  /\ \/ Got(r, {"ok"}) /\ SetRunning(Srv(r), requests[r].made)
     \/ Got(r, {"error", "gone"}) /\ SetStatus(Srv(r), "failed")
     \/ Got(r, {"thrown"}) /\ UNCHANGED rows
  /\ Finish(r) /\ Quiet

\* "No such container" makes apply-config create one.
ApplyDone(r) ==
  /\ \E kind \in {"rebuild", "create"} : Resumes(r, "apply", kind)
  /\ \/ /\ requests[r].asks = "rebuild" /\ Got(r, {"gone"})
        /\ Ask(r, "create") /\ UNCHANGED rows
     \/ Got(r, {"ok"}) /\ SetRunning(Srv(r), requests[r].made) /\ Finish(r)
     \/ Got(r, {"error", "thrown"}) /\ SetStatus(Srv(r), "failed") /\ Finish(r)
  /\ Quiet

BeginCleanup(r) ==
  LET failed == {s \in Table : rows[s].status = "failed"} IN
  /\ failed # {}
  /\ Receive(r, [Idle EXCEPT !.op = "cleanup", !.at = "rows", !.todo = failed])

\* The DELETE it sends has no dataPath: the DO answers 400, and nobody looks.
CleanupNext(r, s) ==
  /\ Op(r) = "cleanup" /\ At(r, "rows") /\ s \in requests[r].todo
  /\ Erase(s, "cleaned")
  /\ LET rest == requests[r].todo \ {s} IN
     IF rest = {} THEN Finish(r) ELSE Become(r, [requests[r] EXCEPT !.todo = rest])
  /\ Quiet

-----------------------------------------------------------------------------
\* Status sync, on request and after every registration

BeginSync(r) == Receive(r, [Idle EXCEPT !.op = "sync", !.at = "read"])

SyncRead(r) ==
  /\ Op(r) = "sync" /\ At(r, "read")
  /\ IF Table = {} THEN Finish(r)
     ELSE Become(r, [requests[r] EXCEPT !.at = "send", !.asks = "list", !.table = rows, !.todo = Table])
  /\ UNCHANGED rows /\ Quiet

\* An error of the agent's is a reply like any other, one without containers: the
\* sync goes on with none.  A timeout, or no agent, ends it.
SyncListed(r) ==
  /\ Resumes(r, "sync", "list")
  /\ IF Got(r, {"ok", "unlisted"}) THEN Become(r, [requests[r] EXCEPT !.at = "rows"]) ELSE Finish(r)
  /\ UNCHANGED rows /\ Quiet

\* Mutants: a failed server keeps its status; a deleted one does not.
SyncStatusFailedKept(row, found) ==
  LET k == {x \in found : x.name = row.name} IN
  IF k # {} THEN (IF \E x \in k : x.up THEN "running" ELSE "stopped")
  ELSE IF row.status \in {"creating", "deleted", "failed"} THEN row.status ELSE "missing"
SyncStatusDeletedMissing(row, found) ==
  LET k == {x \in found : x.name = row.name} IN
  IF k # {} THEN (IF \E x \in k : x.up THEN "running" ELSE "stopped")
  ELSE IF row.status = "creating" THEN row.status ELSE "missing"

SyncStatus(row, found) ==
  LET k == {x \in found : x.name = row.name} IN
  IF k # {} THEN (IF \E x \in k : x.up THEN "running" ELSE "stopped")
  ELSE IF row.status \in {"creating", "deleted"} THEN row.status ELSE "missing"

\* A row is written when its status differs from the status read, or when
\* data_exists does, which is free here.
SyncNext(r, s) ==
  LET status == SyncStatus(requests[r].table[s], requests[r].found)
      rest == requests[r].todo \ {s} IN
  /\ Op(r) = "sync" /\ At(r, "rows") /\ s \in requests[r].todo
  /\ \/ SetStatus(s, status)
     \/ status = requests[r].table[s].status /\ UNCHANGED rows
  /\ IF rest = {} THEN Finish(r) ELSE Become(r, [requests[r] EXCEPT !.todo = rest])
  /\ Quiet

-----------------------------------------------------------------------------
\* The agent

Carries(kinds) == queue # <<>> /\ Head(queue).kind \in kinds

\* The agent is done with the first command; its answer reaches the request
\* that still waits for it.
Reply(answer, made, found) ==
  LET c == Head(queue) IN
  /\ queue' = Tail(queue)
  /\ requests' = IF c.heard
       THEN [requests EXCEPT ![c.request] =
               [@ EXCEPT !.at = "done", !.answer = answer, !.made = made, !.found = found]]
       ELSE requests
  /\ UNCHANGED <<rows, online, received>>

MayFail == "docker" \in Faults
NewContainer(s, n) == [id |-> born, server |-> s, name |-> n, up |-> TRUE]

\* The image, then the directories, then the container: a name in use and a
\* failed start come after the directories exist.
AgentCreate ==
  LET c == Head(queue) IN
  /\ Carries({"create"})
  /\ \/ "pull" \in Faults /\ Reply("error", NoId, {}) /\ UNCHANGED hostVars
     \/ /\ MayFail \/ Named(c.name) # {}
        /\ directories' = directories \cup {c.name}
        /\ Reply("error", NoId, {}) /\ UNCHANGED <<containers, born>>
     \/ /\ Named(c.name) = {}
        /\ directories' = directories \cup {c.name}
        /\ containers' = containers \cup {NewContainer(c.server, c.name)}
        /\ born' = born + 1
        /\ Reply("ok", born, {})

\* A container that does not stop or go is only logged.
AgentDelete ==
  LET c == Head(queue) IN
  /\ Carries({"delete"})
  /\ \/ containers' = containers \ WithId(c.container)
     \/ "remove" \in Faults /\ UNCHANGED containers
     \/ /\ "remove" \in Faults
        /\ containers' = {IF k.id = c.container THEN [k EXCEPT !.up = FALSE] ELSE k : k \in containers}
  /\ \/ /\ directories' = IF c.wipe THEN directories \ {c.name} ELSE directories
        /\ Reply("ok", NoId, {})
     \/ c.wipe /\ MayFail /\ Reply("error", NoId, {}) /\ UNCHANGED directories
  /\ UNCHANGED born

AgentRebuild ==
  LET c == Head(queue)
      old == WithId(c.container) IN
  /\ Carries({"rebuild"})
  /\ \/ old = {} /\ Reply("gone", NoId, {}) /\ UNCHANGED hostVars
     \/ old # {} /\ "pull" \in Faults /\ Reply("error", NoId, {}) /\ UNCHANGED hostVars
     \/ /\ old # {} /\ "remove" \in Faults
        /\ containers' = (containers \ old) \cup {[k EXCEPT !.up = FALSE] : k \in old}
        /\ Reply("error", NoId, {}) /\ UNCHANGED <<directories, born>>
     \/ /\ old # {} /\ MayFail
        /\ containers' = containers \ old
        /\ Reply("error", NoId, {}) /\ UNCHANGED <<directories, born>>
     \/ /\ old # {}
        /\ containers' = (containers \ old) \cup {NewContainer(k.server, k.name) : k \in old}
        /\ born' = born + 1
        /\ Reply("ok", born, {}) /\ UNCHANGED directories

AgentPower ==
  LET c == Head(queue)
      old == WithId(c.container) IN
  /\ Carries({"start", "stop", "restart"})
  /\ \/ /\ old = {} \/ MayFail
        /\ Reply("error", NoId, {}) /\ UNCHANGED containers
     \/ /\ old # {}
        /\ containers' = (containers \ old) \cup {[k EXCEPT !.up = (c.kind # "stop")] : k \in old}
        /\ Reply("ok", NoId, {})
  /\ UNCHANGED <<directories, born>>

AgentList ==
  /\ Carries({"list"})
  /\ Reply("ok", NoId, containers) \/ (MayFail /\ Reply("unlisted", NoId, {}))
  /\ UNCHANGED hostVars

AgentStep == AgentCreate \/ AgentDelete \/ AgentRebuild \/ AgentPower \/ AgentList

ContainerExits(k) ==
  /\ "exit" \in Faults /\ k.up
  /\ containers' = (containers \ {k}) \cup {[k EXCEPT !.up = FALSE]}
  /\ UNCHANGED <<rows, online, queue, directories, born, requests, received>>

-----------------------------------------------------------------------------
\* The connection.  What the agent had read of it is still carried out.

Cut == \E n \in 0 .. Len(queue) : queue' = Unheard(SubSeq(queue, 1, n), Requests)

Disconnect ==
  /\ "outage" \in Faults /\ online
  /\ online' = FALSE /\ Cut
  /\ UNCHANGED <<rows, hostVars, requests, received>>

\* The agent comes back when it is done with what it had read.
Register(r) ==
  /\ ~online /\ queue = <<>>
  /\ received < MaxRequests /\ Op(r) = "none" /\ MayOverlap("sync")
  /\ online' = TRUE
  /\ received' = received + 1
  /\ Become(r, [Idle EXCEPT !.op = "sync", !.at = "read"])
  /\ UNCHANGED <<rows, queue, hostVars>>

\* A restarted DO forgets its questions; its syncs end, the Worker's fetch throws.
DORestart ==
  /\ "restart" \in Faults /\ online
  /\ online' = FALSE /\ Cut
  /\ requests' = [r \in Requests |->
       IF Op(r) = "sync" THEN Idle
       ELSE IF At(r, "wait") THEN Answered(r, "thrown") ELSE requests[r]]
  /\ UNCHANGED <<rows, hostVars, received>>

-----------------------------------------------------------------------------
Begin(r) ==
  \/ \E s \in Servers :
       \/ \E n \in Names : BeginCreate(r, s, n)
       \/ BeginStart(r, s) \/ BeginStop(r, s) \/ BeginSoftDelete(r, s)
       \/ BeginRestore(r, s) \/ BeginRebuild(r, s) \/ BeginApply(r, s)
       \/ \E removeData \in BOOLEAN : BeginPurge(r, s, removeData)
       \/ \E kind \in Kinds : BeginContainer(r, s, kind)
  \/ \E k \in containers : BeginContainerStart(r, k)
  \/ BeginCleanup(r) \/ BeginSync(r)

Step(r) ==
  \/ Send(r)
  \/ CreateInsert(r) \/ CreateDone(r)
  \/ StartExisting(r) \/ StartDone(r) \/ Recreate(r) \/ RecreateDone(r)
  \/ Stop(r) \/ StopDone(r) \/ ContainerDone(r)
  \/ SoftDelete(r) \/ SoftDeleteDone(r) \/ Purge(r) \/ PurgeDone(r) \/ Restore(r)
  \/ Rebuild(r) \/ RebuildDone(r) \/ ApplyDone(r)
  \/ SyncRead(r) \/ SyncListed(r)
  \/ \E s \in Servers : CleanupNext(r, s) \/ SyncNext(r, s)

Next ==
  \/ \E r \in Requests : Begin(r) \/ Step(r) \/ Timeout(r) \/ Register(r)
  \/ AgentStep
  \/ \E k \in containers : ContainerExits(k)
  \/ Disconnect \/ DORestart

Spec == Init /\ [][Next]_vars

Fairness ==
  /\ \A r \in Requests : WF_vars(Step(r)) /\ WF_vars(Timeout(r))
  /\ WF_vars(AgentStep)

FairSpec == Spec /\ Fairness

-----------------------------------------------------------------------------
\* Properties

\* A server shown as running or stopped names its own container, if it has
\* one, so that stop, rebuild and delete reach it.
Controllable ==
  \A s \in Table :
    rows[s].status \in {"running", "stopped"} =>
      \A k \in containers : k.server = s => k.id = rows[s].container

\* What a sync that was told the containers leaves in the table is true of the
\* host, also after one that was told none and wrote missing to every row.
Agrees(s) ==
  IF Named(rows[s].name) = {} THEN rows[s].status \in {"missing", "creating", "deleted"}
  ELSE \A k \in Named(rows[s].name) : rows[s].status = (IF k.up THEN "running" ELSE "stopped")
SyncTellsTruth ==
  [][\A r \in Requests :
       Op(r) = "sync" /\ At(r, "rows") /\ Got(r, {"ok"}) /\ requests'[r].op = "none" =>
         \A s \in Table : Agrees(s)']_vars

\* A purge that takes a data directory, however late the agent gets to it,
\* never takes it from under the container of another server of the table.
PurgeScoped ==
  [][\A n \in directories \ directories' :
       \A k \in Named(n) : InTable(k.server) => k.server = Head(queue).server]_vars

\* A transient status ends, whatever else is going on.
TransitEnds ==
  \A s \in Servers : (rows[s].status \in Transient) ~> (rows[s].status \notin Transient)

\* The servers implement ServerCatalog: whatever fails on the host once
\* the image is there, names stay unique and a deleted server stays
\* deleted until somebody asks for it.
Catalog == INSTANCE ServerCatalog WITH
  place <- [s \in Servers |->
              IF InTable(s) THEN (IF rows[s].status = "deleted" THEN "deleted" ELSE "listed")
              ELSE IF rows[s].status = "unborn" THEN "unborn" ELSE "gone"],
  nameOf <- [s \in Servers |-> rows[s].name],
  wanted <- {s \in Servers : \E r \in Requests : Op(r) \in {"restore", "rebuild", "apply"} /\ Srv(r) = s}
CatalogSpec == Catalog!Spec
=============================================================================
