------------------------------ MODULE Backups ------------------------------
(***************************************************************************)
(* The backups of one game server: their rows in the D1 table backups, the *)
(* Worker's requests, and what the agent does on its host with archives,   *)
(* metadata files, the data directory and the container.                   *)
(*                                                                         *)
(* Requests are numbered.  A backup bears the number of the request that   *)
(* creates it (its id and, no two archives having one name, its file), and *)
(* a job, a goroutine of the agent, the number of the request that asked   *)
(* for it.  A job outlives its request: the DO gives up after five or ten  *)
(* minutes, the job does not.                                              *)
(*                                                                         *)
(* A directory is abstracted to what it holds: nothing, part of a world,   *)
(* all of one but its end, or a whole world.  Worlds are numbered too, and  *)
(* a restore that succeeds begins a new one.                               *)
(*                                                                         *)
(* Left out: permissions, progress messages, sizes and notes, the RCON     *)
(* save before packing, the column status of the server's own row.  The    *)
(* server has a container, and a running server's files can be packed as   *)
(* they are or the packing fails.                                          *)
(***************************************************************************)
EXTENDS Naturals, FiniteSets

CONSTANTS
  MaxRequests,   \* bound on the requests ever received
  Keep,          \* the retention, MaxBackupsPerServer in the code
  Overlap,       \* what may be in progress at once, see Overlaps
  Faults         \* the faults that may happen, see FaultKinds

\* none: one request, and its job, at a time; restoreAlone: any, but no create, no
\* other restore and no start or stop of the server during a restore; free: any.
Overlaps == {"none", "restoreAlone", "free"}

\* pack, extract: the archive cannot be written or read to its end; torn, short: nor
\* can the last of an archive, or of an extracted file, which only its closing tells,
\* and nobody looks; meta: nor its metadata; move: a directory cannot be renamed;
\* docker: a Docker call fails; late: an answer comes after the timeout; lost: a
\* question does not reach the agent; crash: the agent restarts; throw: the DO does,
\* under a request.
FaultKinds == {"pack", "extract", "torn", "short", "meta", "move", "docker", "late", "lost",
               "crash", "throw"}

ASSUME BoundsAssumption == MaxRequests \in Nat \ {0} /\ Keep \in Nat \ {0}
ASSUME ModesAssumption  == Overlap \in Overlaps /\ Faults \subseteq FaultKinds

VARIABLES
  rows,       \* rows[i]: the row of backup i in the table backups
  archives,   \* archives[i]: what the archive of backup i holds
  createdAt,  \* createdAt[i]: the time in the metadata of backup i, zero before
  dirs,       \* dirs[0]: the data directory; dirs[n]: where restore n put it aside
  worlds,     \* the worlds there have been
  up, mount,  \* the container runs; the directory it runs on
  jobs,       \* jobs[n]: the agent's goroutine for request n
  requests,   \* requests[n]: where request n stands
  received    \* requests received so far

vars == <<rows, archives, createdAt, dirs, worlds, up, mount, jobs, requests, received>>
hostVars == <<archives, createdAt, dirs, worlds, up, mount>>

Numbers == 1 .. MaxRequests
Data == 0
Dirs == {Data} \cup Numbers

\* What a directory or an archive holds; a torn archive lacks its end.
Nothing == 0
Part == 1
Torn == 2
World(w) == w + 2
Contents == Nat
Whole(content) == content > Torn

Statuses == {"none", "creating", "complete", "failed"}
InTable(i) == rows[i] # "none"
Complete == {i \in Numbers : rows[i] = "complete"}

Request == [op : {"none", "create", "sync", "delete", "restore"}, backup : Numbers,
            at : {"idle", "ask", "wait", "insert", "prune"},
            answer : {"none", "ok", "error"},
            todo : SUBSET Numbers,    \* backups listed to a sync, or still to insert
            gone : SUBSET Numbers]    \* rows a sync still has to delete
Idle == [op |-> "none", backup |-> 1, at |-> "idle", answer |-> "none",
         todo |-> {}, gone |-> {}]

Job == [op : {"none", "create", "restore"}, backup : Numbers,
        at : {"idle", "begin", "pack", "meta", "prune", "move", "extract", "boot"},
        holds : Contents,   \* what a create found in the data directory, or a
                            \* restore in the archive
        clean : BOOLEAN,    \* nobody else changed the data directory since
        ok : BOOLEAN]       \* what a restore will answer
NoJob == [op |-> "none", backup |-> 1, at |-> "idle", holds |-> Nothing,
          clean |-> TRUE, ok |-> TRUE]

TypeOK ==
  /\ rows \in [Numbers -> Statuses]
  /\ archives \in [Numbers -> Contents]
  /\ createdAt \in [Numbers -> Nat]
  /\ dirs \in [Dirs -> Contents]
  /\ worlds \in Nat
  /\ up \in BOOLEAN /\ mount \in Dirs
  /\ jobs \in [Numbers -> Job]
  /\ requests \in [Numbers -> Request]
  /\ received \in 0 .. MaxRequests

Init ==
  /\ rows = [i \in Numbers |-> "none"]
  /\ archives = [i \in Numbers |-> Nothing]
  /\ createdAt = [i \in Numbers |-> 0]
  /\ worlds = 1
  /\ dirs = [d \in Dirs |-> IF d = Data THEN World(1) ELSE Nothing]
  /\ up \in BOOLEAN /\ mount = Data
  /\ jobs = [n \in Numbers |-> NoJob]
  /\ requests = [n \in Numbers |-> Idle]
  /\ received = 0

\* What ListBackups returns; it sorts the backups by the time in their metadata, which
\* createdAt keeps when the file is gone.
Listed == {i \in Numbers : createdAt[i] # 0 /\ archives[i] # Nothing}
Newer(set, i) == {j \in set : createdAt[j] > createdAt[i]}

-----------------------------------------------------------------------------
\* The Worker and the DO

Op(n) == requests[n].op
At(n, place) == requests[n].at = place
InProgress(ops) == \E n \in Numbers : Op(n) \in ops \/ jobs[n].op \in ops
Conflicting(op) == CASE op = "restore" -> {"create", "restore"}
                     [] op = "create" -> {"restore"}
                     [] OTHER -> {}

MayBegin(op) ==
  \/ ~InProgress({"create", "sync", "delete", "restore"})
  \/ Overlap = "restoreAlone" /\ ~InProgress(Conflicting(op))
  \/ Overlap = "free"

Become(n, q) == requests' = [requests EXCEPT ![n] = q]
Finish(n) == Become(n, Idle)

Receive(op, i) ==
  /\ received < MaxRequests
  /\ MayBegin(op)
  /\ received' = received + 1
  /\ Become(received + 1, [Idle EXCEPT !.op = op, !.backup = i, !.at = "ask"])
  /\ UNCHANGED <<hostVars, jobs>>

BeginCreate ==
  /\ Receive("create", received + 1)
  /\ rows' = [rows EXCEPT ![received + 1] = "creating"]

BeginSync == Receive("sync", 1) /\ UNCHANGED rows

BeginDelete(i) == InTable(i) /\ Receive("delete", i) /\ UNCHANGED rows

\* A row that is not complete has no filename, and without one no route of the DO
\* matches: such a restore changes nothing.
BeginRestore(i) == i \in Complete /\ Receive("restore", i) /\ UNCHANGED rows

\* The DO sends the question.  A create or a restore becomes a job at the agent.
Send(n) ==
  /\ At(n, "ask")
  /\ Become(n, [requests[n] EXCEPT !.at = "wait"])
  /\ jobs' = IF Op(n) \in {"create", "restore"}
             THEN [jobs EXCEPT ![n] = [NoJob EXCEPT !.op = Op(n), !.at = "begin",
                                                    !.backup = requests[n].backup]]
             ELSE jobs
  /\ UNCHANGED <<rows, hostVars, received>>

\* The agent is not connected, or the connection takes the question with it.
Lose(n) ==
  /\ "lost" \in Faults
  /\ At(n, "ask")
  /\ Become(n, [requests[n] EXCEPT !.at = "wait", !.answer = "error"])
  /\ UNCHANGED <<rows, hostVars, jobs, received>>

Waits(n) == At(n, "wait") /\ requests[n].answer = "none"

\* The requests after an answer to request n; unheard if it no longer waits.
Answer(n, answer) ==
  IF Waits(n) THEN [requests EXCEPT ![n].answer = answer] ELSE requests

GiveUp(n) ==
  /\ Waits(n)
  /\ \/ "late" \in Faults
     \/ Op(n) \in {"create", "restore"} /\ jobs[n].op = "none"
  /\ requests' = Answer(n, "error")
  /\ UNCHANGED <<rows, hostVars, jobs, received>>

\* The fetch of the DO throws: the handler's catch answers 500 and no more.
Throw(n) ==
  /\ "throw" \in Faults
  /\ Op(n) # "none" /\ requests[n].at \in {"ask", "wait"}
  /\ requests[n].answer = "none"
  /\ Finish(n)
  /\ UNCHANGED <<rows, hostVars, jobs, received>>

\* UPDATE backups ... WHERE id = i.
SetStatus(i, status) == rows' = IF InTable(i) THEN [rows EXCEPT ![i] = status] ELSE rows

\* Mutant: the agent's answer is stored as the status.
CreateDoneRaw(n) ==
  /\ Op(n) = "create" /\ requests[n].answer # "none"
  /\ SetStatus(n, requests[n].answer)
  /\ Finish(n)
  /\ UNCHANGED <<hostVars, jobs, received>>

CreateDone(n) ==
  /\ Op(n) = "create" /\ requests[n].answer # "none"
  /\ SetStatus(n, IF requests[n].answer = "ok" THEN "complete" ELSE "failed")
  /\ Finish(n)
  /\ UNCHANGED <<hostVars, jobs, received>>

\* The DO takes the question for the removal of the server, which comes first among
\* its routes: with no container and no volumes named the agent has nothing to do.
\* The row goes whatever the answer.
DeleteDone(n) ==
  /\ Op(n) = "delete" /\ At(n, "wait")
  /\ SetStatus(requests[n].backup, "none")
  /\ Finish(n)
  /\ UNCHANGED <<hostVars, jobs, received>>

RestoreDone(n) ==
  /\ Op(n) = "restore" /\ requests[n].answer # "none"
  /\ Finish(n)
  /\ UNCHANGED <<rows, hostVars, jobs, received>>

SyncRefused(n) ==
  /\ Op(n) = "sync" /\ At(n, "wait") /\ requests[n].answer = "error"
  /\ Finish(n)
  /\ UNCHANGED <<rows, hostVars, jobs, received>>

\* Mutant: the rows are compared by id: a row without its filename passes for the file.
SyncReadById(n) ==
  /\ Op(n) = "sync" /\ At(n, "wait") /\ requests[n].answer = "ok"
  /\ Become(n, [requests[n] EXCEPT
       !.at = "insert",
       !.todo = {i \in @ : ~InTable(i)},
       !.gone = Complete \ requests[n].todo])
  /\ UNCHANGED <<rows, hostVars, jobs, received>>

\* SELECT the rows and compare them, by filename, with what was listed.
SyncRead(n) ==
  /\ Op(n) = "sync" /\ At(n, "wait") /\ requests[n].answer = "ok"
  /\ Become(n, [requests[n] EXCEPT
       !.at = "insert",
       !.todo = @ \ Complete,
       !.gone = Complete \ requests[n].todo])
  /\ UNCHANGED <<rows, hostVars, jobs, received>>

\* INSERT the rows that are missing, newest first, under the id in the metadata.
\* The id may be in the table with no filename: the insertion fails, the sync too.
SyncInsert(n, i) ==
  /\ At(n, "insert")
  /\ i \in requests[n].todo /\ Newer(requests[n].todo, i) = {}
  /\ IF InTable(i)
     THEN Finish(n) /\ UNCHANGED rows
     ELSE /\ rows' = [rows EXCEPT ![i] = "complete"]
          /\ Become(n, [requests[n] EXCEPT !.todo = @ \ {i}])
  /\ UNCHANGED <<hostVars, jobs, received>>

SyncInserted(n) ==
  /\ At(n, "insert") /\ requests[n].todo = {}
  /\ Become(n, [requests[n] EXCEPT !.at = "prune"])
  /\ UNCHANGED <<rows, hostVars, jobs, received>>

\* DELETE the complete rows read whose file was not listed.
SyncPrune(n, i) ==
  /\ At(n, "prune") /\ i \in requests[n].gone
  /\ SetStatus(i, "none")
  /\ Become(n, [requests[n] EXCEPT !.gone = @ \ {i}])
  /\ UNCHANGED <<hostVars, jobs, received>>

SyncDone(n) ==
  /\ At(n, "prune") /\ requests[n].gone = {}
  /\ Finish(n)
  /\ UNCHANGED <<rows, hostVars, jobs, received>>

Manager ==
  \/ BeginCreate \/ BeginSync
  \/ \E i \in Numbers : BeginDelete(i) \/ BeginRestore(i)
  \/ \E n \in Numbers :
       \/ Send(n) \/ Lose(n) \/ GiveUp(n) \/ Throw(n)
       \/ CreateDone(n) \/ DeleteDone(n) \/ RestoreDone(n)
       \/ SyncRefused(n) \/ SyncRead(n) \/ SyncInserted(n) \/ SyncDone(n)
       \/ \E i \in Numbers : SyncInsert(n, i) \/ SyncPrune(n, i)

-----------------------------------------------------------------------------
\* The agent

JobAt(n, op, place) == jobs[n].op = op /\ jobs[n].at = place
Go(n, place) == jobs' = [jobs EXCEPT ![n].at = place]
End(n, answer) == jobs' = [jobs EXCEPT ![n] = NoJob] /\ requests' = Answer(n, answer)

AgentList(n) ==
  /\ Op(n) = "sync" /\ Waits(n)
  /\ Become(n, [requests[n] EXCEPT !.answer = "ok", !.todo = Listed])
  /\ UNCHANGED <<rows, hostVars, jobs, received>>

\* CreateBackup up to the archive's first byte.
CreateBegin(n) ==
  /\ JobAt(n, "create", "begin")
  /\ IF dirs[Data] = Nothing
     THEN End(n, "error") /\ UNCHANGED archives
     ELSE /\ archives' = [archives EXCEPT ![n] = Part]
          /\ jobs' = [jobs EXCEPT ![n].at = "pack", ![n].holds = dirs[Data]]
          /\ UNCHANGED requests
  /\ UNCHANGED <<rows, createdAt, dirs, worlds, up, mount, received>>

\* createTarGz reaches the end.  It does not notice a directory that was replaced
\* under it, unless a file it has seen is gone, nor that the writers' Close failed.
CreatePack(n) ==
  /\ JobAt(n, "create", "pack")
  /\ \/ archives' = [archives EXCEPT ![n] = IF jobs[n].clean THEN jobs[n].holds ELSE Part]
     \/ "torn" \in Faults /\ archives' = [archives EXCEPT ![n] = Torn]
  /\ Go(n, "meta")
  /\ UNCHANGED <<rows, createdAt, dirs, worlds, up, mount, requests, received>>

\* Mutant: the error of createTarGz is logged only.
CreateFailLogged(n) ==
  /\ JobAt(n, "create", "pack")
  /\ "pack" \in Faults \/ ~jobs[n].clean
  /\ Go(n, "meta")
  /\ UNCHANGED <<rows, hostVars, requests, received>>

CreateFail(n) ==
  /\ JobAt(n, "create", "pack")
  /\ "pack" \in Faults \/ ~jobs[n].clean
  /\ archives' = [archives EXCEPT ![n] = Nothing]
  /\ End(n, "error")
  /\ UNCHANGED <<rows, createdAt, dirs, worlds, up, mount, received>>

\* The metadata is written; a failure is logged and no more.
CreateMeta(n) ==
  /\ JobAt(n, "create", "meta")
  /\ \/ createdAt' = [createdAt EXCEPT ![n] = 1 + Cardinality({i \in Numbers : createdAt[i] # 0})]
     \/ "meta" \in Faults /\ UNCHANGED createdAt
  /\ Go(n, "prune")
  /\ UNCHANGED <<rows, archives, dirs, worlds, up, mount, requests, received>>

\* Mutant: the oldest goes, if there is one too many.
SurplusOne == {i \in Listed : Cardinality(Listed) = Keep + 1 /\ Newer(Listed, i) = Listed \ {i}}

\* Mutant: the listing is taken to be sorted the other way.
SurplusNewest == {i \in Listed : Cardinality({j \in Listed : createdAt[j] < createdAt[i]}) >= Keep}

\* enforceRetention, and the answer.
Surplus == {i \in Listed : Cardinality(Newer(Listed, i)) >= Keep}
CreatePrune(n) ==
  /\ JobAt(n, "create", "prune")
  /\ archives' = [i \in Numbers |-> IF i \in Surplus THEN Nothing ELSE archives[i]]
  /\ End(n, "ok")
  /\ UNCHANGED <<rows, createdAt, dirs, worlds, up, mount, received>>

\* The container is stopped; a failure is logged and no more.
RestoreBegin(n) ==
  /\ JobAt(n, "restore", "begin")
  /\ IF archives[jobs[n].backup] = Nothing
     THEN End(n, "error") /\ UNCHANGED up
     ELSE /\ Go(n, "move") /\ UNCHANGED requests
          /\ \/ up' = FALSE
             \/ "docker" \in Faults /\ UNCHANGED up
  /\ mount' = IF up' THEN mount ELSE Data
  /\ UNCHANGED <<rows, archives, createdAt, dirs, worlds, received>>

\* The data directory changes under job n: the other jobs that use it are spoilt.
Spoil(n) ==
  [m \in Numbers |-> IF m # n /\ jobs[m].at \in {"pack", "extract"}
                     THEN [jobs[m] EXCEPT !.clean = FALSE] ELSE jobs[m]]
Alone(n) == \A m \in Numbers \ {n} : ~JobAt(m, "restore", "extract")

\* The data directory, if there is one, is renamed, and the extraction begins.  A
\* container that still runs goes with its directory.
RestoreMove(n) ==
  /\ JobAt(n, "restore", "move")
  /\ LET content == archives[jobs[n].backup] IN
     /\ dirs' = [dirs EXCEPT ![n] = dirs[Data],
                             ![Data] = IF content = Nothing THEN Nothing ELSE Part]
     /\ jobs' = [Spoil(n) EXCEPT ![n].at = "extract", ![n].holds = content,
                                 ![n].clean = Alone(n)]
  /\ mount' = IF up /\ mount = Data /\ dirs[Data] # Nothing THEN n ELSE mount
  /\ UNCHANGED <<rows, archives, createdAt, worlds, up, requests, received>>

RestoreMoveFail(n) ==
  /\ "move" \in Faults
  /\ JobAt(n, "restore", "move") /\ dirs[Data] # Nothing
  /\ jobs' = [jobs EXCEPT ![n].at = "boot", ![n].ok = FALSE]
  /\ UNCHANGED <<rows, hostVars, requests, received>>

\* extractTarGz reaches the end.  It does not look at a file's Close.
RestoreExtract(n) ==
  /\ JobAt(n, "restore", "extract")
  /\ jobs[n].holds \notin {Nothing, Torn}
  /\ LET whole == jobs[n].clean /\ Whole(jobs[n].holds) IN
     \/ whole /\ worlds' = worlds + 1 /\ dirs' = [dirs EXCEPT ![Data] = World(worlds + 1)]
     \/ (~whole \/ "short" \in Faults) /\ UNCHANGED worlds /\ dirs' = [dirs EXCEPT ![Data] = Part]
  /\ jobs' = [Spoil(n) EXCEPT ![n].at = "boot"]
  /\ UNCHANGED <<rows, archives, createdAt, up, mount, requests, received>>

\* Mutant: nothing is brought back.
RestoreFailForward(n) ==
  /\ JobAt(n, "restore", "extract")
  /\ "extract" \in Faults \/ ~jobs[n].clean \/ jobs[n].holds \in {Nothing, Torn}
  /\ jobs' = [Spoil(n) EXCEPT ![n].at = "boot", ![n].ok = FALSE]
  /\ UNCHANGED <<rows, hostVars, requests, received>>

\* It does not: what was put aside, if anything was, is brought back.  A container
\* that runs on the extracted files is left with a removed directory, which dirs[n]
\* then stands for.
RestoreFail(n) ==
  /\ JobAt(n, "restore", "extract")
  /\ "extract" \in Faults \/ ~jobs[n].clean \/ jobs[n].holds \in {Nothing, Torn}
  /\ IF dirs[n] = Nothing
     THEN UNCHANGED <<dirs, mount>>
     ELSE /\ \/ dirs' = [dirs EXCEPT ![Data] = dirs[n], ![n] = Nothing]
             \/ "move" \in Faults /\ dirs' = [dirs EXCEPT ![Data] = Nothing]
          /\ mount' = CASE ~up -> Data
                        [] up /\ mount = Data -> n
                        [] up /\ mount = n /\ dirs'[n] = Nothing -> Data
                        [] OTHER -> mount
  /\ jobs' = [Spoil(n) EXCEPT ![n].at = "boot", ![n].ok = FALSE]
  /\ UNCHANGED <<rows, archives, createdAt, worlds, up, requests, received>>

\* Mutant: the directory put aside is cleaned up at the end.
RestoreBootTidy(n) ==
  /\ JobAt(n, "restore", "boot")
  /\ \/ up' = (up \/ dirs[Data] # Nothing)
     \/ "docker" \in Faults /\ UNCHANGED up
  /\ dirs' = [dirs EXCEPT ![n] = Nothing]
  /\ End(n, IF jobs[n].ok THEN "ok" ELSE "error")
  /\ UNCHANGED <<rows, archives, createdAt, worlds, mount, received>>

\* The container is started, on the data directory; a failure is logged and no more.
RestoreBoot(n) ==
  /\ JobAt(n, "restore", "boot")
  /\ \/ up' = (up \/ dirs[Data] # Nothing)
     \/ "docker" \in Faults /\ UNCHANGED up
  /\ End(n, IF jobs[n].ok THEN "ok" ELSE "error")
  /\ UNCHANGED <<rows, archives, createdAt, dirs, worlds, mount, received>>

\* The agent restarts: its goroutines are gone, what they did is not.
Crash ==
  /\ "crash" \in Faults
  /\ \E n \in Numbers : jobs[n].op # "none"
  /\ jobs' = [n \in Numbers |-> NoJob]
  /\ UNCHANGED <<rows, hostVars, requests, received>>

\* The server is started or stopped by the operations of ServerLifecycle.
Power ==
  /\ Overlap # "free" => ~InProgress({"restore"})
  /\ \/ up /\ up' = FALSE /\ mount' = Data
     \/ ~up /\ dirs[Data] # Nothing /\ up' = TRUE /\ UNCHANGED mount
  /\ UNCHANGED <<rows, archives, createdAt, dirs, worlds, jobs, requests, received>>

Agent ==
  \/ \E n \in Numbers :
       \/ AgentList(n)
       \/ CreateBegin(n) \/ CreatePack(n) \/ CreateFail(n) \/ CreateMeta(n) \/ CreatePrune(n)
       \/ RestoreBegin(n) \/ RestoreMove(n) \/ RestoreMoveFail(n)
       \/ RestoreExtract(n) \/ RestoreFail(n) \/ RestoreBoot(n)
  \/ Crash \/ Power

Next == Manager \/ Agent

Spec == Init /\ [][Next]_vars

-----------------------------------------------------------------------------
\* Properties

\* No world is lost: each one the server has had since the first is in the data
\* directory or in one that a restore put aside (RestoreFromBackup).
WorldsKept == \A w \in 1 .. worlds : \E d \in Dirs : dirs[d] = World(w)

\* The server never runs on a data directory that is part of a world: the
\* container is started again only after the extraction or after the rollback.
NeverRunsOnPart == up /\ mount = Data => dirs[Data] # Part

\* A backup that becomes listed holds what the data directory holds (CreateBackup: a
\* failed archive is removed before it gets its metadata), unless the last of it
\* could not be written, which nobody notices before it is to be restored.
BackupsFaithful ==
  [][\A i \in Listed' \ Listed :
       archives'[i] = dirs[Data] \/ ("torn" \in Faults /\ archives'[i] = Torn)]_vars

\* When a sync ends well, the complete rows are the backups on disk.
SyncMirrors ==
  \A n \in Numbers : At(n, "prune") /\ requests[n].gone = {} => Complete = Listed

\* A backup disappears from disk only if Keep newer ones remain (enforceRetention),
\* however many creates end at once.
RetentionSpares ==
  [][\A i \in Listed \ Listed' : Cardinality(Newer(Listed', i)) >= Keep]_vars

\* There are never more backups than Keep and the creates that have yet to prune.
ShelfBounded ==
  Cardinality(Listed) <= Keep + Cardinality({n \in Numbers : JobAt(n, "create", "prune")})

\* What requests that overlap and fail at the Worker, while their goroutines go on, may not
\* bring about on the host.
BackupsHold == NeverRunsOnPart /\ ShelfBounded
=============================================================================
