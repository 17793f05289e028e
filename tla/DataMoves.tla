----------------------------- MODULE DataMoves -----------------------------
(***************************************************************************)
(* A server's data directory: the path in its row, the agent's default     *)
(* path, the mount of its container, and the handler of apply-config that  *)
(* brings them together by having the agent move the data and rebuild the  *)
(* container, with its recovery when the container is missing.             *)
(*                                                                         *)
(* A directory is told apart by the world in it: the newest ("world"), an  *)
(* earlier state of it ("old"), one the game has begun anew ("fresh"), or  *)
(* a part of a copy.  The game saves whenever it runs; what it saves while *)
(* its data are being moved, or after that, is lost, and raced remembers   *)
(* it.  The agent handles one question at a time; the game saves and the   *)
(* handlers go on meanwhile.  Several apply-config requests may be under   *)
(* way: the status "restarting" refuses none.  Left out: the               *)
(* configuration itself, images, progress messages.                        *)
(***************************************************************************)
EXTENDS Naturals, Sequences, FiniteSets

CONSTANTS
  Paths,      \* base data paths of the host
  Default,    \* the agent's default path at first
  Requests,   \* apply-config requests, each used once
  MaxPatches, \* bound on the changes of paths
  MoveFaults  \* a subset of {"copy", "crash", "default", "docker", "forget", "late", "remove"}

ASSUME MovesAssumption ==
  /\ Default \in Paths /\ "default" \notin Paths /\ "none" \notin Paths
  /\ IsFiniteSet(Requests) /\ MaxPatches \in Nat

VARIABLES
  row,        \* the server's row: its own path or "default", its container's id, its status
  agentPath,  \* the default path in the agent's row
  pending,    \* the old path the browser has been told and will apply with, or "none"
  applying,   \* applying[r]: where the handler of r stands
  queue,      \* the questions on their way to the agent
  moving,     \* the move the agent is carrying out, or Still
  dataAt,     \* dataAt[p]: what is in the server's directory under p
  container,  \* the server's container, or NoContainer
  made,       \* the number of containers made
  patches,    \* how often a path has been changed
  raced,      \* the game has saved into data being moved or gone (history)
  marks       \* what has happened: "late", "litter", "unapplied", "forgot", "overlap" (history)

rowVars == <<row, agentPath, pending, patches>>
moveHostVars == <<dataAt, container, made, raced>>
movesVars == <<rowVars, applying, queue, moving, moveHostVars, marks>>

NoContainer == [id |-> 0]
Still == [to |-> "none"]
NotApplied == [at |-> "idle"]
Stages == {"ask", "move", "rebuild", "check", "checkOld", "create"}
MaxMade == 1 + Cardinality(Requests)
Answers == {"waiting", "ok", "no", "missing"}

Question == [op : Stages, request : Requests, from : Paths \cup {"none"}, to : Paths, id : 0 .. MaxMade]

MovesTypeOK ==
  /\ row \in [path : Paths \cup {"default"}, container : 1 .. MaxMade,
              status : {"running", "restarting", "failed"}]
  /\ agentPath \in Paths /\ pending \in Paths \cup {"none"} /\ patches \in 0 .. MaxPatches
  /\ applying \in [Requests -> {NotApplied} \cup
       [at : Stages \cup {"done"}, old : Paths \cup {"none"}, to : Paths, id : 1 .. MaxMade,
        answer : Answers, path : Paths \cup {"none"}, made : 0 .. MaxMade]]
  /\ queue \in Seq(Question)
  /\ moving \in {Still} \cup [request : Requests, from : Paths, to : Paths]
  /\ dataAt \in [Paths -> {"none", "part", "fresh", "old", "world"}]
  /\ container \in {NoContainer} \cup [id : 1 .. MaxMade, path : Paths, runs : BOOLEAN]
  /\ made \in 1 .. MaxMade /\ raced \in BOOLEAN
  /\ marks \subseteq {"late", "litter", "unapplied", "forgot", "overlap"}

MovesInit ==
  /\ row = [path |-> "default", container |-> 1, status |-> "running"]
  /\ agentPath = Default /\ pending = "none" /\ patches = 0
  /\ applying = [r \in Requests |-> NotApplied]
  /\ queue = <<>> /\ moving = Still
  /\ dataAt = [p \in Paths |-> IF p = Default THEN "world" ELSE "none"]
  /\ container \in [id : {1}, path : {Default}, runs : BOOLEAN]
  /\ made = 1 /\ raced = FALSE /\ marks = {}

PathOf(path) == IF path = "default" THEN agentPath ELSE path
Effective == PathOf(row.path)
Exists == container # NoContainer

-----------------------------------------------------------------------------
\* The game

\* What a save does to the directories: a save of the newest world leaves the copies behind.
Saved ==
  LET p == container.path IN
  /\ dataAt' = IF dataAt[p] = "world"
             THEN [q \in Paths |-> IF q # p /\ dataAt[q] = "world" THEN "old" ELSE dataAt[q]] ELSE dataAt
  /\ raced' = (raced \/ dataAt[p] = "none" \/ (moving # Still /\ moving.from = p))

Save ==
  /\ Exists /\ container.runs
  /\ Saved
  /\ UNCHANGED <<rowVars, applying, queue, moving, container, made, marks>>

\* Somebody stops the container, or starts it.
Toggle ==
  /\ Exists /\ container' = [container EXCEPT !.runs = ~@]
  /\ ~container.runs => dataAt[container.path] # "none"
  /\ UNCHANGED <<rowVars, applying, queue, moving, dataAt, made, raced, marks>>

-----------------------------------------------------------------------------
\* The paths

\* An old path yet to be applied with is no longer known: there is none to apply with, or one
\* that the data need not be moved from.
Forgot(next, to) == IF pending # "none" /\ next \in {"none", to} THEN {"forgot"} ELSE {}

\* Mutant: the old path is read after the row has been written.
PatchConfigLate(path) ==
  /\ patches < MaxPatches
  /\ row.path # path \/ "forget" \in MoveFaults
  /\ row' = [row EXCEPT !.path = path]
  /\ pending' = IF row.path # path THEN PathOf(path) ELSE "none"
  /\ patches' = patches + 1
  /\ marks' = marks \cup {"unapplied"} \cup Forgot(pending', PathOf(path))
  /\ UNCHANGED <<agentPath, applying, queue, moving, moveHostVars>>

\* PATCH /config: the answer names the old path if the path has changed, and what the
\* browser had been told is replaced by it.
PatchConfig(path) ==
  /\ patches < MaxPatches
  /\ row.path # path \/ "forget" \in MoveFaults
  /\ row' = [row EXCEPT !.path = path]
  /\ pending' = IF row.path # path THEN Effective ELSE "none"
  /\ patches' = patches + 1
  /\ marks' = marks \cup {"unapplied"} \cup Forgot(pending', PathOf(path))
  /\ UNCHANGED <<agentPath, applying, queue, moving, moveHostVars>>

\* The page is loaded anew.
Forget ==
  /\ "forget" \in MoveFaults /\ pending # "none" /\ pending' = "none"
  /\ marks' = marks \cup {"forgot"}
  /\ UNCHANGED <<row, agentPath, patches, applying, queue, moving, moveHostVars>>

\* PUT /:id/config of the agent: no browser is told of the servers whose path it changes.
SetAgentPath(path) ==
  /\ "default" \in MoveFaults /\ patches < MaxPatches /\ path # agentPath
  /\ agentPath' = path
  /\ patches' = patches + 1
  /\ marks' = IF row.path = "default" THEN marks \cup {"unapplied", "forgot"} ELSE marks
  /\ UNCHANGED <<row, pending, applying, queue, moving, moveHostVars>>

-----------------------------------------------------------------------------
\* The handler of apply-config

\* A question is sent, and its answer waited for.
AskAs(r, req, op) ==
  /\ applying' = [applying EXCEPT ![r] = [req EXCEPT !.at = op, !.answer = "waiting", !.path = "none", !.made = 0]]
  /\ queue' = Append(queue, [op |-> op, request |-> r, from |-> req.old, id |-> req.id,
                             to |-> IF op = "checkOld" THEN req.old ELSE req.to])

Apply(r) ==
  LET req == [at |-> "done", old |-> pending, to |-> Effective, id |-> row.container,
              answer |-> "no", path |-> "none", made |-> 0] IN
  /\ applying[r] = NotApplied
  /\ AskAs(r, req, IF pending \notin {"none", Effective} THEN "ask" ELSE "rebuild")
  /\ row' = [row EXCEPT !.status = "restarting"]
  /\ marks' = IF \E x \in Requests : applying[x].at \in Stages THEN marks \cup {"overlap"} ELSE marks
  /\ UNCHANGED <<agentPath, pending, patches, moving, moveHostVars>>

Stands(r, op, answers) ==
  applying[r].at = op /\ applying[r].answer \in answers

Fail(r) ==
  /\ applying' = [applying EXCEPT ![r].at = "done", ![r].answer = "no"]
  /\ row' = [row EXCEPT !.status = "failed"]
  /\ UNCHANGED <<queue, marks>>

\* The path of the container's mount, if it could be asked for, replaces the one given.
Move(r) ==
  LET req == applying[r] IN
  /\ Stands(r, "ask", {"ok", "no"})
  /\ AskAs(r, IF req.answer = "ok" THEN [req EXCEPT !.old = req.path] ELSE req, "move")
  /\ UNCHANGED <<rowVars, moving, moveHostVars, marks>>

MoveFailed(r) ==
  /\ Stands(r, "move", {"no"})
  /\ Fail(r)
  /\ UNCHANGED <<agentPath, pending, patches, moving, moveHostVars>>

Rebuild(r) ==
  /\ Stands(r, "move", {"ok"})
  /\ AskAs(r, applying[r], "rebuild")
  /\ UNCHANGED <<rowVars, moving, moveHostVars, marks>>

\* The container is missing: where are the data?
Recover(r) ==
  /\ Stands(r, "rebuild", {"missing"})
  /\ AskAs(r, applying[r], "check")
  /\ UNCHANGED <<rowVars, moving, moveHostVars, marks>>

CheckOld(r) ==
  /\ Stands(r, "check", {"missing"}) /\ applying[r].old # "none"
  /\ AskAs(r, applying[r], "checkOld")
  /\ UNCHANGED <<rowVars, moving, moveHostVars, marks>>

\* The server is created where its data are, or where they ought to be.
Create(r) ==
  LET req == applying[r] IN
  /\ \/ /\ \/ Stands(r, "check", {"ok", "no"})
           \/ Stands(r, "check", {"missing"}) /\ req.old = "none"
           \/ Stands(r, "checkOld", {"missing", "no"})
        /\ AskAs(r, req, "create")
        /\ UNCHANGED row
     \/ /\ Stands(r, "checkOld", {"ok"})
        /\ AskAs(r, [req EXCEPT !.to = req.old], "create")
        /\ row' = [row EXCEPT !.path = req.old]
  /\ UNCHANGED <<agentPath, pending, patches, moving, moveHostVars, marks>>

NotRebuilt(r) ==
  /\ Stands(r, "rebuild", {"no"}) \/ Stands(r, "create", {"no"})
  /\ Fail(r)
  /\ UNCHANGED <<agentPath, pending, patches, moving, moveHostVars>>

FinishApply(r) ==
  /\ Stands(r, "rebuild", {"ok"}) \/ Stands(r, "create", {"ok"})
  /\ applying' = [applying EXCEPT ![r].at = "done"]
  /\ row' = [row EXCEPT !.container = applying[r].made, !.status = "running"]
  /\ pending' = "none"
  /\ marks' = IF applying[r].to = Effective THEN marks \ {"unapplied"}
              ELSE marks \cup Forgot("none", Effective)
  /\ UNCHANGED <<agentPath, patches, queue, moving, moveHostVars>>

\* No answer in time: the handler goes on, and the agent will still do what it was asked.
Timeout(r) ==
  /\ "late" \in MoveFaults /\ applying[r].at \in Stages /\ applying[r].answer = "waiting"
  /\ applying' = [applying EXCEPT ![r].answer = "no"]
  /\ marks' = marks \cup {"late"}
  /\ UNCHANGED <<rowVars, queue, moving, moveHostVars>>

-----------------------------------------------------------------------------
\* The agent

Takes(op) == moving = Still /\ queue # <<>> /\ Head(queue).op = op

\* The answer to a question that is no longer waited for finds no inbox.
Reply(q, answer, path, id) ==
  applying' = IF applying[q.request].at = q.op /\ applying[q.request].answer = "waiting"
              THEN [applying EXCEPT ![q.request].answer = answer, ![q.request].path = path, ![q.request].made = id]
              ELSE applying

HandleGetDataPath ==
  LET q == Head(queue) IN
  /\ Takes("ask")
  /\ queue' = Tail(queue)
  /\ IF Exists /\ container.id = q.id
     THEN Reply(q, "ok", container.path, 0) ELSE Reply(q, "no", "none", 0)
  /\ UNCHANGED <<rowVars, moving, moveHostVars, marks>>

HandleCheckData ==
  LET q == Head(queue) IN
  /\ Takes("check") \/ Takes("checkOld")
  /\ queue' = Tail(queue)
  /\ Reply(q, IF dataAt[q.to] = "none" THEN "missing" ELSE "ok", "none", 0)
  /\ UNCHANGED <<rowVars, moving, moveHostVars, marks>>

\* Mutant: no look at what is there.
CanMoveOver(from, to) == dataAt[from] # "none"

CanMove(from, to) == dataAt[from] # "none" /\ dataAt[to] = "none"

\* MoveServerData: the directories are looked at and the copy begins, or the move is refused.
MoveBegins ==
  LET q == Head(queue) IN
  /\ Takes("move")
  /\ queue' = Tail(queue)
  /\ \/ /\ CanMove(q.from, q.to)
        /\ moving' = [request |-> q.request, from |-> q.from, to |-> q.to]
        /\ dataAt' = [dataAt EXCEPT ![q.to] = "part"]
        /\ UNCHANGED applying
     \/ /\ ~CanMove(q.from, q.to)
        /\ Reply(q, "no", "none", 0)
        /\ UNCHANGED <<moving, dataAt>>
  /\ UNCHANGED <<rowVars, container, made, raced, marks>>

EndMove(answer) ==
  /\ Reply([op |-> "move", request |-> moving.request], answer, "none", 0)
  /\ moving' = Still
  /\ UNCHANGED <<rowVars, queue, container, made, raced>>

\* What deleting a directory leaves of it; nobody is told that it has failed.
Leavings == {"none"} \cup (IF "remove" \in MoveFaults THEN {"part"} ELSE {})
Litters(left) == marks' = IF left = "part" THEN marks \cup {"litter"} ELSE marks

\* The copy is verified, then the source deleted.
MoveEnds ==
  /\ moving # Still
  /\ \E left \in Leavings :
       /\ dataAt' = [dataAt EXCEPT ![moving.to] = dataAt[moving.from], ![moving.from] = left]
       /\ Litters(left)
  /\ EndMove("ok")

\* The copy or its verification fails, and the copy is deleted.
MoveFails ==
  /\ moving # Still /\ "copy" \in MoveFaults
  /\ \E left \in Leavings : dataAt' = [dataAt EXCEPT ![moving.to] = left] /\ Litters(left)
  /\ EndMove("no")

\* The agent dies, wherever it is in a move: nobody takes it up again.
AgentDies ==
  /\ "crash" \in MoveFaults /\ moving # Still
  /\ \E copied \in {"part", dataAt[moving.from]}, left \in {"none", "part", dataAt[moving.from]} :
       /\ left # dataAt[moving.from] => copied = dataAt[moving.from]
       /\ dataAt' = [dataAt EXCEPT ![moving.to] = copied, ![moving.from] = left]
  /\ marks' = marks \cup {"litter", "late"}
  /\ moving' = Still /\ queue' = <<>>
  /\ UNCHANGED <<rowVars, applying, container, made, raced>>

MayFail == "docker" \in MoveFaults

\* Docker refuses a bind mount of a directory that does not exist.
New(p) == [id |-> made + 1, path |-> p, runs |-> TRUE]

\* rebuildWithNewConfig: pull, save, stop, remove, create and start.
HandleRebuild ==
  LET q == Head(queue)
      mine == Exists /\ container.id = q.id
  IN
  /\ Takes("rebuild")
  /\ queue' = Tail(queue)
  /\ \/ ~mine /\ Reply(q, "missing", "none", 0) /\ UNCHANGED moveHostVars
     \/ mine /\ MayFail /\ Reply(q, "no", "none", 0) /\ UNCHANGED moveHostVars
     \/ /\ mine
        /\ IF container.runs THEN Saved ELSE UNCHANGED <<dataAt, raced>>
        /\ \/ /\ MayFail
              /\ Reply(q, "no", "none", 0)
              /\ container' = [container EXCEPT !.runs = FALSE]
              /\ UNCHANGED made
           \/ /\ MayFail \/ dataAt[q.to] = "none"
              /\ Reply(q, "no", "none", 0)
              /\ container' = NoContainer
              /\ UNCHANGED made
           \/ /\ dataAt[q.to] # "none"
              /\ Reply(q, "ok", "none", made + 1)
              /\ container' = New(q.to) /\ made' = made + 1
  /\ UNCHANGED <<rowVars, moving, marks>>

\* CreateServer makes the directories before Docker may find the name in use.
HandleCreate ==
  LET q == Head(queue) IN
  /\ Takes("create")
  /\ queue' = Tail(queue)
  /\ \/ MayFail /\ Reply(q, "no", "none", 0) /\ UNCHANGED <<dataAt, container, made>>
     \/ /\ dataAt' = [dataAt EXCEPT ![q.to] = IF @ = "none" THEN "fresh" ELSE @]
        /\ \/ /\ Exists \/ MayFail
              /\ Reply(q, "no", "none", 0)
              /\ UNCHANGED <<container, made>>
           \/ /\ ~Exists
              /\ Reply(q, "ok", "none", made + 1)
              /\ container' = New(q.to) /\ made' = made + 1
  /\ UNCHANGED <<rowVars, moving, raced, marks>>

AgentStep ==
  \/ HandleGetDataPath \/ HandleCheckData \/ MoveBegins \/ MoveEnds \/ MoveFails \/ AgentDies
  \/ HandleRebuild \/ HandleCreate

RequestStep(r) ==
  \/ Apply(r) \/ Move(r) \/ MoveFailed(r) \/ Rebuild(r) \/ Recover(r) \/ CheckOld(r)
  \/ Create(r) \/ NotRebuilt(r) \/ FinishApply(r) \/ Timeout(r)

MovesNext ==
  \/ Save \/ Toggle \/ Forget \/ AgentStep
  \/ \E p \in Paths \cup {"default"} : PatchConfig(p)
  \/ \E p \in Paths : SetAgentPath(p)
  \/ \E r \in Requests : RequestStep(r)

MovesSpec == MovesInit /\ [][MovesNext]_movesVars

-----------------------------------------------------------------------------
\* Properties

Quiet == queue = <<>> /\ moving = Still /\ \A r \in Requests : applying[r].at \in {"idle", "done"}

\* However a move ends, and whoever else moves or rebuilds meanwhile, the newest world is
\* still in some directory, unless the game saved it while it was being moved.
WorldKept == ~raced => \E p \in Paths : dataAt[p] = "world"

\* A server that is said to run, and whose path has not been changed since, has the
\* container of its row, at the path of its row, where its newest world is, unless what a
\* deletion left of an earlier move has been taken for its world.
Placed ==
  Quiet /\ row.status = "running" /\ marks \cap {"late", "unapplied", "forgot", "overlap", "litter"} = {} =>
    /\ container.id = row.container /\ container.path = Effective
    /\ ~raced => dataAt[Effective] = "world"

\* No container is made for a new world while the server's own is there: neither a rebuild
\* nor the recovery takes an empty directory, as long as the requests are made one after the
\* other, the agent answers in time and the browser knows the path to move from.
NeverAnew ==
  [][container'.id > container.id /\ marks \cap {"late", "forgot", "overlap"} = {} =>
       dataAt'[container'.path] # "fresh"]_movesVars

\* A move that failed can be tried again: it leaves no part of a copy in the way.
NoLitter == Quiet /\ "litter" \notin marks => \A p \in Paths : dataAt[p] # "part"

\* What moving a server's data promises of them.
MovesHold == WorldKept /\ Placed /\ NoLitter
=============================================================================
