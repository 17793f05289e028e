----------------------------- MODULE Placement -----------------------------
(***************************************************************************)
(* How a server gets its name, its ports and its container: the creation   *)
(* of a new server and the adoption of a container somebody else has made, *)
(* as the Worker's handlers carry them out against the rows, the agent's   *)
(* look at the host's ports, Docker, and the data on the host.             *)
(*                                                                         *)
(* Ports are small numbers; First stands for 16261.  A new container's id  *)
(* is the request that made it; "old" is the container that may be adopted.*)
(* A place is the standard directory of a name, the directory "own" that   *)
(* the old container brings along, or "inside" it: a place is told apart   *)
(* by the world in it as in DataMoves.  Names of removed servers, which    *)
(* stay taken, images, the configuration and the RCON port on the host,    *)
(* which is never bound there, are left out.                               *)
(***************************************************************************)
EXTENDS Naturals, Sequences, FiniteSets, FiniteSetsExt

CONSTANTS
  Names,     \* server names
  Requests,  \* requests to create or to adopt, each used once
  First,     \* the first game port
  Games,     \* game ports a request may name
  Udps,      \* UDP ports a request may name
  Foreign,   \* ports other processes may take
  Mounts,    \* where the old container may have its data
  Faults     \* a subset of {"copy", "docker", "late", "stop", "throw"}

PlacementAssumption ==
  /\ First \in Nat \ {0} /\ Games \subseteq Nat \ {0} /\ Udps \subseteq Nat \ {0}
  /\ Mounts \subseteq Names \cup {"own", "inside"} /\ Names \cap {"own", "inside"} = {}
  /\ {"old", "none"} \cap Requests = {}

VARIABLES
  rows,       \* rows[r]: the row that request r has inserted, or NoRow
  requests,   \* requests[r]: where its handler stands
  queue,      \* the questions on their way to the agent
  adopting,   \* the adoption the agent is carrying out, or Nobody
  containers, \* containers[c]: a container of the host, or Gone
  bound,      \* the ports other processes have bound
  dirs,       \* dirs[p]: the world at the place p
  marks       \* what has happened: "late", "mountless", "raced", "shared" (history)

hostVars == <<containers, bound, dirs>>
placementVars == <<rows, requests, queue, adopting, hostVars, marks>>

NoRow == [status |-> "none"]
Nobody == [of |-> "nobody"]
Gone == [place |-> "none"]
Idle == [at |-> "idle"]
Ids == Requests \cup {"old"}
Places == Names \cup {"own", "inside"}
Stages == {"picked", "check", "inspect", "inserting", "create", "adopt"}

TypeOK ==
  /\ rows \in [Requests -> {NoRow} \cup
       [status : {"creating", "adopting", "running", "failed"}, name : Names, game : Nat \ {0}, udp : Nat \ {0},
        rcon : Nat, container : Ids \cup {"none"}, seen : SUBSET Requests]]
  /\ requests \in [Requests -> {Idle} \cup
       [at : Stages \cup {"done"}, kind : {"create", "adopt"}, name : Names, game : Nat, udp : Nat,
        rcon : Nat, seen : SUBSET Requests, answer : {"waiting", "ok", "no"}]]
  /\ queue \in Seq({"check", "inspect", "create", "adopt"} \X Requests)
  /\ adopting \in {Nobody} \cup [of : Requests, runs : BOOLEAN]
  /\ containers \in [Ids -> {Gone} \cup [place : Places, game : Nat, udp : Nat, runs : BOOLEAN]]
  /\ bound \subseteq Foreign
  /\ dirs \in [Places -> {"none", "empty", "part", "fresh", "old", "world"}]
  /\ marks \subseteq {"late", "mountless", "raced", "shared"}

PlacementInit ==
  /\ rows = [r \in Requests |-> NoRow] /\ requests = [r \in Requests |-> Idle]
  /\ queue = <<>> /\ adopting = Nobody /\ bound = {}
  /\ \E mount \in Mounts, game \in Games, runs \in BOOLEAN :
       /\ containers = [c \in Ids |->
            IF c = "old" THEN [place |-> mount, game |-> game, udp |-> game + 1, runs |-> runs] ELSE Gone]
       /\ dirs = [p \in Places |-> IF p = mount THEN "world" ELSE "none"]
       /\ marks = IF mount = "inside" THEN {"mountless"} ELSE {}

-----------------------------------------------------------------------------
\* The host

\* The ports somebody listens on: those of a stopped container are not among them.
Listening(host) ==
  bound \cup UNION {{host[c].game, host[c].udp} : c \in {x \in Ids : host[x] # Gone /\ host[x].runs}}

Alive(c) == containers[c] # Gone /\ containers[c].runs

\* Another process takes a port, or gives it back.
Bind(p) ==
  /\ p \in bound \/ p \notin Listening(containers)
  /\ bound' = IF p \in bound THEN bound \ {p} ELSE bound \cup {p}
  /\ UNCHANGED <<rows, requests, queue, adopting, containers, dirs, marks>>

\* A game saves: an empty directory gets a world of its own, and a save of the newest
\* world leaves the copies behind.
Save(c) ==
  LET p == containers[c].place IN
  /\ Alive(c) /\ dirs[p] \in {"empty", "world"}
  /\ dirs' = IF dirs[p] = "empty" THEN [dirs EXCEPT ![p] = "fresh"]
             ELSE [q \in Places |-> IF q # p /\ dirs[q] = "world" THEN "old" ELSE dirs[q]]
  /\ marks' = IF c = "old" /\ adopting # Nobody THEN marks \cup {"raced"} ELSE marks
  /\ UNCHANGED <<rows, requests, queue, adopting, containers, bound>>

\* Somebody stops the old container.
StopOld ==
  /\ Alive("old") /\ adopting = Nobody
  /\ containers' = [containers EXCEPT !["old"].runs = FALSE]
  /\ UNCHANGED <<rows, requests, queue, adopting, bound, dirs, marks>>

-----------------------------------------------------------------------------
\* The ports

Rows == {r \in Requests : rows[r] # NoRow}
NameTaken(name) == \E r \in Rows : rows[r].name = name

\* Game ports are compared with game ports, and UDP ports with UDP ports.
Conflict(game, udp) == \E r \in Rows : rows[r].game = game \/ rows[r].udp = udp

NextGame == IF Rows = {} THEN First ELSE Max({rows[r].game : r \in Rows}) + 2
NextRcon == IF Rows = {} THEN 0 ELSE Max({rows[r].rcon : r \in Rows}) + 1

Allocated == UNION {{rows[r].game, rows[r].udp} : r \in Rows}

-----------------------------------------------------------------------------
\* The handlers

Goes(r, at) == requests' = [requests EXCEPT ![r].at = at, ![r].answer = "waiting"]
Asks(r, op) == Goes(r, op) /\ queue' = Append(queue, <<op, r>>)
At(r, at, answer) == requests[r].at = at /\ requests[r].answer = answer

\* POST /servers: the name is looked up and the ports are picked.
BeginCreate(r, name, game, udp) ==
  LET picked == IF game = 0 THEN NextGame ELSE game IN
  /\ requests[r] = Idle /\ ~NameTaken(name)
  /\ requests' = [requests EXCEPT ![r] =
       [at |-> "picked", kind |-> "create", name |-> name, game |-> picked,
        udp |-> IF udp = 0 THEN picked + 1 ELSE udp, rcon |-> NextRcon, seen |-> {}, answer |-> "waiting"]]
  /\ UNCHANGED <<rows, queue, adopting, hostVars, marks>>

\* POST /servers/adopt: the name is looked up and the container is inspected; its RCON port,
\* which is kept, is the first.
BeginAdopt(r, name, game) ==
  /\ requests[r] = Idle /\ ~NameTaken(name)
  /\ requests' = [requests EXCEPT ![r] =
       [at |-> "inspect", kind |-> "adopt", name |-> name, game |-> game,
        udp |-> 0, rcon |-> 0, seen |-> {}, answer |-> "waiting"]]
  /\ queue' = Append(queue, <<"inspect", r>>)
  /\ UNCHANGED <<rows, adopting, hostVars, marks>>

\* The rows are compared; the host is asked about a creation only.
CheckRows(r) ==
  /\ requests[r].at = "picked" \/ At(r, "inspect", "ok")
  /\ \/ /\ Conflict(requests[r].game, requests[r].udp)
        /\ Goes(r, "done")
        /\ UNCHANGED queue
     \/ /\ ~Conflict(requests[r].game, requests[r].udp)
        /\ requests' = [requests EXCEPT ![r].seen = Rows,
             ![r].at = IF @ = "picked" THEN "check" ELSE "inserting",
             ![r].answer = IF requests[r].at = "picked" THEN "waiting" ELSE "ok"]
        /\ queue' = IF requests[r].at = "picked" THEN Append(queue, <<"check", r>>) ELSE queue
  /\ UNCHANGED <<rows, adopting, hostVars, marks>>

GiveUp(r) ==
  /\ At(r, "check", "no") \/ At(r, "inspect", "no")
  /\ Goes(r, "done")
  /\ UNCHANGED <<rows, queue, adopting, hostVars, marks>>

\* UNIQUE (agent_id, name) and UNIQUE (agent_id, game_port).
Unique(r) == \A x \in Rows : rows[x].name # requests[r].name /\ rows[x].game # requests[r].game

Insert(r) ==
  LET req == requests[r] IN
  /\ At(r, "check", "ok") \/ At(r, "inserting", "ok")
  /\ \/ ~Unique(r) /\ Goes(r, "done") /\ UNCHANGED <<rows, queue>>
     \/ /\ Unique(r)
        /\ rows' = [rows EXCEPT ![r] =
             [status |-> IF req.kind = "create" THEN "creating" ELSE "adopting", name |-> req.name,
              game |-> req.game, udp |-> req.udp, rcon |-> req.rcon, container |-> "none", seen |-> req.seen]]
        /\ Asks(r, req.kind)
  /\ UNCHANGED <<adopting, hostVars, marks>>

\* Mutant: the container's id is not kept.
FinishUnrecorded(r) ==
  /\ requests[r].at \in {"create", "adopt"} /\ requests[r].answer # "waiting"
  /\ Goes(r, "done")
  /\ rows' = [rows EXCEPT ![r].status = IF requests[r].answer = "ok" THEN "running" ELSE "failed"]
  /\ UNCHANGED <<queue, adopting, hostVars, marks>>

Finish(r) ==
  /\ requests[r].at \in {"create", "adopt"} /\ requests[r].answer # "waiting"
  /\ Goes(r, "done")
  /\ rows' = IF requests[r].answer = "ok"
             THEN [rows EXCEPT ![r].status = "running", ![r].container = r]
             ELSE [rows EXCEPT ![r].status = "failed"]
  /\ UNCHANGED <<queue, adopting, hostVars, marks>>

\* No answer in time: the agent will still do what it was asked.
Timeout(r) ==
  /\ "late" \in Faults /\ requests[r].at \in {"check", "inspect", "create", "adopt"}
  /\ requests[r].answer = "waiting"
  /\ requests' = [requests EXCEPT ![r].answer = "no"]
  /\ marks' = marks \cup {"late"}
  /\ UNCHANGED <<rows, queue, adopting, hostVars>>

\* A statement fails: the handler answers 500 and leaves the row as it is.
Throw(r) ==
  /\ "throw" \in Faults /\ requests[r].at \in Stages
  /\ Goes(r, "done")
  /\ marks' = marks \cup {"late"}
  /\ UNCHANGED <<rows, queue, adopting, hostVars>>

-----------------------------------------------------------------------------
\* The agent

MayFail == "docker" \in Faults
Takes(op, r) == adopting = Nobody /\ queue # <<>> /\ Head(queue) = <<op, r>> /\ queue' = Tail(queue)

Reply(op, r, answer) ==
  requests' = IF requests[r].at = op /\ requests[r].answer = "waiting"
              THEN [requests EXCEPT ![r].answer = answer] ELSE requests

\* If neither Docker nor /proc can be read, every port is available.
CheckPortAvailability(r) ==
  /\ Takes("check", r)
  /\ \E seen \in {Listening(containers)} \cup (IF MayFail THEN {{}} ELSE {}) :
       Reply("check", r, IF {requests[r].game, requests[r].udp} \cap seen = {} THEN "ok" ELSE "no")
  /\ UNCHANGED <<rows, adopting, hostVars, marks>>

\* Mutant: the ports the request has not named stay unknown.
InspectContainerOnly(r) ==
  /\ Takes("inspect", r)
  /\ Reply("inspect", r, IF containers["old"] = Gone THEN "no" ELSE "ok")
  /\ UNCHANGED <<rows, adopting, hostVars, marks>>

\* The ports the request has not named are those of the container.
InspectContainer(r) ==
  /\ Takes("inspect", r)
  /\ \/ containers["old"] = Gone /\ Reply("inspect", r, "no")
     \/ /\ containers["old"] # Gone /\ At(r, "inspect", "waiting")
        /\ requests' = [requests EXCEPT ![r].answer = "ok", ![r].udp = containers["old"].udp,
             ![r].game = IF @ = 0 THEN containers["old"].game ELSE @]
     \/ containers["old"] # Gone /\ ~At(r, "inspect", "waiting") /\ UNCHANGED requests
  /\ UNCHANGED <<rows, adopting, hostVars, marks>>

Made(r, host) == [host EXCEPT ![r] = [place |-> requests[r].name, game |-> requests[r].game,
                                      udp |-> requests[r].udp, runs |-> TRUE]]

\* Docker starts a container on ports nobody listens on; one that does not start is removed.
Starts(r, op, host) ==
  \/ /\ {requests[r].game, requests[r].udp} \cap Listening(host) = {} /\ requests[r].game # requests[r].udp
     /\ containers' = Made(r, host)
     /\ Reply(op, r, "ok")
  \/ /\ MayFail \/ {requests[r].game, requests[r].udp} \cap Listening(host) # {} \/ requests[r].game = requests[r].udp
     /\ containers' = host
     /\ Reply(op, r, "no")

Directory(name) == [dirs EXCEPT ![name] = IF @ = "none" THEN "empty" ELSE @]

\* What is in the directory already is taken for the server's own.
CreateServer(r) ==
  /\ Takes("create", r)
  /\ \/ MayFail /\ Reply("create", r, "no") /\ UNCHANGED <<containers, dirs, marks>>
     \/ /\ dirs' = Directory(requests[r].name)
        /\ marks' = IF dirs[requests[r].name] \in {"none", "empty"} THEN marks ELSE marks \cup {"shared"}
        /\ Starts(r, "create", containers)
  /\ UNCHANGED <<rows, adopting, bound>>

\* AdoptServer: inspect, make the directories, save and stop; a failure to stop is a warning.
AdoptBegins(r) ==
  /\ Takes("adopt", r)
  /\ \/ /\ containers["old"] = Gone
        /\ Reply("adopt", r, "no")
        /\ UNCHANGED <<adopting, containers, dirs>>
     \/ /\ containers["old"] # Gone
        /\ dirs' = Directory(requests[r].name)
        /\ \E runs \in {FALSE} \cup (IF "stop" \in Faults THEN {containers["old"].runs} ELSE {}) :
             /\ containers' = [containers EXCEPT !["old"].runs = runs]
             /\ adopting' = [of |-> r, runs |-> runs]
        /\ UNCHANGED requests
  /\ UNCHANGED <<rows, bound, marks>>

\* Nothing is copied in place, nor out of a container that has no mount.
Migrates(r) == containers["old"].place \notin {requests[r].name, "inside"}

\* The copy fails: the old container stays, stopped.
CopyFails(r) ==
  /\ "copy" \in Faults /\ adopting # Nobody /\ adopting.of = r /\ Migrates(r)
  /\ dirs' = [dirs EXCEPT ![requests[r].name] = "part"]
  /\ adopting' = Nobody
  /\ Reply("adopt", r, "no")
  /\ UNCHANGED <<rows, queue, containers, bound, marks>>

\* The data are copied, the old container is removed with what is inside it, and a new one
\* is made in the standard place.  If it cannot be removed it stays, stopped.
AdoptEnds(r) ==
  LET old == containers["old"]
      copied == IF "raced" \in marks THEN "part" ELSE dirs[old.place]
      kept == [dirs EXCEPT ![requests[r].name] = IF Migrates(r) THEN copied ELSE @]
  IN
  /\ adopting # Nobody /\ adopting.of = r
  /\ adopting' = Nobody
  /\ \/ MayFail /\ Reply("adopt", r, "no") /\ dirs' = kept /\ UNCHANGED containers
     \/ /\ dirs' = [kept EXCEPT !["inside"] = "none"]
        /\ Starts(r, "adopt", [containers EXCEPT !["old"] = Gone])
  /\ UNCHANGED <<rows, queue, bound, marks>>

AgentStep(r) ==
  \/ CheckPortAvailability(r) \/ InspectContainer(r) \/ CreateServer(r)
  \/ AdoptBegins(r) \/ CopyFails(r) \/ AdoptEnds(r)

HandlerStep(r) ==
  \/ \E name \in Names, game \in Games \cup {0} :
       BeginAdopt(r, name, game) \/ \E udp \in Udps \cup {0} : BeginCreate(r, name, game, udp)
  \/ CheckRows(r) \/ GiveUp(r) \/ Insert(r) \/ Finish(r) \/ Timeout(r) \/ Throw(r)

PlacementNext ==
  \/ \E p \in Foreign : Bind(p)
  \/ \E c \in Ids : Save(c)
  \/ StopOld
  \/ \E r \in Requests : HandlerStep(r) \/ AgentStep(r)

PlacementSpec == PlacementInit /\ [][PlacementNext]_placementVars

-----------------------------------------------------------------------------
\* Properties

\* Two rows never have the same name or the same game port, even if both were looked up
\* before either was inserted; they may have the same UDP port only then.
PortsApart ==
  \A a, b \in Rows : a # b =>
    /\ rows[a].name # rows[b].name /\ rows[a].game # rows[b].game
    /\ rows[a].udp = rows[b].udp => a \notin rows[b].seen /\ b \notin rows[a].seen

\* The ports that are picked are no server's, be it a game port or a UDP port, as long as
\* every server has the UDP port after its game port.
PicksFit ==
  (\A r \in Rows : rows[r].udp = rows[r].game + 1) => {NextGame, NextGame + 1} \cap Allocated = {}

\* A container that the agent has made is that of a row that says so, or of a row whose
\* handler is still to write it, unless that handler has stopped waiting.
Owned ==
  "late" \notin marks =>
    \A r \in Requests : containers[r] # Gone =>
      rows[r].container = r \/ requests[r].at \in {"create", "adopt"}

\* The new container of an adopted server stands on the newest world the old one had, if the
\* old one had stopped, had its data in a directory of the host, and shared it with nobody.
AdoptedWhole ==
  \A r \in Requests : (containers[r] # Gone /\ requests[r].kind = "adopt") =>
    marks \cap {"mountless", "raced", "shared"} # {} \/ dirs[containers[r].place] = "world"

\* "Game data is preserved in place": an adoption that moves nothing leaves the world of
\* the container where it can be found.
DataPreserved == "raced" \notin marks => \E p \in Places : dirs[p] = "world"
=============================================================================
