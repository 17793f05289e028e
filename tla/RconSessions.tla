---------------------------- MODULE RconSessions ----------------------------
(***************************************************************************)
(* RCON: the agent's table of sessions with game servers and the sweep of  *)
(* the idle ones, the Durable Object that relays the questions of          *)
(* terminals, remembers which server a session is for and records the      *)
(* commands in the audit log, and the one-shot command, which connects,    *)
(* asks and disconnects by itself.                                         *)
(*                                                                         *)
(* The agent handles one question at a time; only its sweep runs beside    *)
(* it.  A question is answered, or given up after its timeout, its late    *)
(* answer then finding no inbox.  The connection to the agent may break    *)
(* (what is on its way is lost), the agent may be restarted (its sessions  *)
(* are lost), the DO may hibernate when nothing is pending or be restarted *)
(* (rconSessions is lost).  A browser keeps its terminal's socket when     *)
(* connecting has failed, and never retries on it.  Time is in minutes,    *)
(* and the 5 seconds a command may take are less than two of them.         *)
(***************************************************************************)
EXTENDS Naturals, FiniteSets, Sequences

CONSTANTS
  Servers, Sessions,   \* game servers; the ids of sessions
  Terminals,     \* the consoles opened in browsers
  Requests,      \* what they ask, each used once
  Shots,         \* one-shot commands
  Idle,          \* the minutes a session may be idle: 5 in the code
  Faults         \* bound on breaks, restarts and hibernations

RconAssumption ==
  /\ Idle \in Nat \ {0} /\ Faults \in Nat
  /\ Requests \cap Shots = {} /\ "none" \notin Servers \cup Sessions \cup Terminals
  /\ "nobody" \notin Requests \cup Shots

VARIABLES
  sessions,    \* sessions[s]: the agent's session s, or Gone
  drawn,       \* the session ids drawn so far
  busy,        \* the command the agent is executing, or Free
  toAgent, toManager,   \* questions and answers on their way
  terminals,   \* terminals[t]: where the console of a browser stands
  requests,    \* requests[r]: what became of a terminal's request, or NoRequest
  shots,       \* shots[k]: where a one-shot command stands
  rconSessions,  \* rconSessions[s]: the server the DO remembers for s, or "none"
  audit,       \* audit[r]: the server in the audit row of request r, or "none"
  faults,      \* how many faults there have been
  ran,         \* ran[r]: the server that has carried out request r, or "none" (history)
  forgotten    \* the sessions the DO has forgotten, or failed to record a command of (history)

agentVars == <<sessions, drawn, busy, ran>>
askVars == <<terminals, requests, shots>>
rconVars == <<agentVars, toAgent, toManager, askVars, rconSessions, audit, faults, forgotten>>

Gone == [server |-> "none"]
Free == [at |-> "free"]
NoRequest == [op |-> "none", at |-> "none"]
Askers == Requests \cup Shots \cup {"nobody"}
Question ==
  [op : {"connect"}, server : Servers, from : Askers]
  \cup [op : {"command", "disconnect"}, session : Sessions, from : Askers]
Answer == [op : {"connect", "command", "disconnect"}, from : Askers, ok : BOOLEAN,
           session : Sessions \cup {"none"}]
Request == {NoRequest} \cup
  [op : {"connect", "command", "disconnect"}, by : Terminals, session : Sessions \cup {"none"},
   server : Servers, at : {"asked", "auditing", "done"}, ok : BOOLEAN]

TypeOK ==
  /\ sessions \in [Sessions -> {Gone} \cup [server : Servers, idle : 0 .. Idle + 1]]
  /\ drawn \subseteq Sessions
  /\ busy \in {Free} \cup [at : {"found", "using"}, session : Sessions, from : Askers,
                           held : BOOLEAN, ticked : BOOLEAN]
  /\ toAgent \in Seq(Question) /\ toManager \in Seq(Answer)
  /\ terminals \in [Terminals -> [at : {"off", "open", "left"}, server : Servers, session : Sessions \cup {"none"}]]
  /\ requests \in [Requests -> Request]
  /\ shots \in [Shots -> [at : {"new", "connect", "command", "done", "lost"}, session : Sessions \cup {"none"}]]
  /\ rconSessions \in [Sessions -> Servers \cup {"none"}]
  /\ {audit, ran} \subseteq [Requests -> Servers \cup {"none"}]
  /\ faults \in 0 .. Faults /\ forgotten \subseteq Sessions

RconInit ==
  /\ sessions = [s \in Sessions |-> Gone] /\ drawn = {} /\ busy = Free
  /\ toAgent = <<>> /\ toManager = <<>>
  /\ terminals \in [Terminals -> [at : {"off"}, server : Servers, session : {"none"}]]
  /\ requests = [r \in Requests |-> NoRequest]
  /\ shots = [k \in Shots |-> [at |-> "new", session |-> "none"]]
  /\ rconSessions = [s \in Sessions |-> "none"]
  /\ audit = [r \in Requests |-> "none"] /\ ran = [r \in Requests |-> "none"]
  /\ faults = 0 /\ forgotten = {}

Live(s) == sessions[s] # Gone

-----------------------------------------------------------------------------
\* The agent

Takes(op) ==
  /\ busy = Free /\ toAgent # <<>> /\ Head(toAgent).op = op
  /\ toAgent' = Tail(toAgent)

\* Without a reply subject nobody waits, and the answer is of no consequence.
Tell(q, ok, session) ==
  toManager' = IF q.from = "nobody" THEN toManager
               ELSE Append(toManager, [op |-> q.op, from |-> q.from, ok |-> ok, session |-> session])

\* Connect holds the lock while it dials.
Connect ==
  LET q == Head(toAgent) IN
  /\ Takes("connect")
  /\ \/ \E s \in Sessions \ drawn :
          /\ sessions' = [sessions EXCEPT ![s] = [server |-> q.server, idle |-> 0]]
          /\ drawn' = drawn \cup {s}
          /\ Tell(q, TRUE, s)
     \/ Tell(q, FALSE, "none") /\ UNCHANGED <<sessions, drawn>>
  /\ UNCHANGED <<busy, ran, askVars, rconSessions, audit, faults, forgotten>>

\* Execute: the session is found, touched and used, each apart from the sweep's lock.
Find ==
  LET q == Head(toAgent) IN
  /\ Takes("command")
  /\ \/ /\ Live(q.session)
        /\ busy' = [at |-> "found", session |-> q.session, from |-> q.from, held |-> FALSE, ticked |-> FALSE]
        /\ UNCHANGED toManager
     \/ ~Live(q.session) /\ Tell(q, FALSE, q.session) /\ UNCHANGED busy
  /\ UNCHANGED <<sessions, drawn, ran, askVars, rconSessions, audit, faults, forgotten>>

\* Mutant: lastUsed is set when the command has been executed.
TouchLater ==
  /\ busy.at = "found"
  /\ busy' = [busy EXCEPT !.at = "using", !.held = Live(busy.session)]
  /\ UNCHANGED sessions
  /\ UNCHANGED <<drawn, ran, toAgent, toManager, askVars, rconSessions, audit, faults, forgotten>>

Touch ==
  /\ busy.at = "found"
  /\ busy' = [busy EXCEPT !.at = "using", !.held = Live(busy.session)]
  /\ sessions' = IF Live(busy.session) THEN [sessions EXCEPT ![busy.session].idle = 0] ELSE sessions
  /\ UNCHANGED <<drawn, ran, toAgent, toManager, askVars, rconSessions, audit, faults, forgotten>>

\* The server carries the command out and may still fail to answer; a connection the sweep
\* has closed carries out nothing.
Execute ==
  LET q == [op |-> "command", from |-> busy.from]
      Done == IF busy.from \in Requests
              THEN [ran EXCEPT ![busy.from] = sessions[busy.session].server] ELSE ran
  IN
  /\ busy.at = "using"
  /\ \/ Live(busy.session) /\ ran' = Done /\ \E ok \in BOOLEAN : Tell(q, ok, busy.session)
     \/ UNCHANGED ran /\ Tell(q, FALSE, busy.session)
  /\ busy' = Free
  /\ UNCHANGED <<sessions, drawn, toAgent, askVars, rconSessions, audit, faults, forgotten>>

Disconnect ==
  LET q == Head(toAgent) IN
  /\ Takes("disconnect")
  /\ Tell(q, Live(q.session), q.session)
  /\ sessions' = [sessions EXCEPT ![q.session] = Gone]
  /\ UNCHANGED <<drawn, busy, ran, askVars, rconSessions, audit, faults, forgotten>>

Minute ==
  /\ \E s \in Sessions : Live(s) /\ sessions[s].idle <= Idle
  /\ busy.at = "using" => ~busy.ticked
  /\ busy' = IF busy.at = "using" THEN [busy EXCEPT !.ticked = TRUE] ELSE busy
  /\ sessions' = [s \in Sessions |->
       IF Live(s) /\ sessions[s].idle <= Idle THEN [sessions[s] EXCEPT !.idle = @ + 1] ELSE sessions[s]]
  /\ UNCHANGED <<drawn, ran, toAgent, toManager, askVars, rconSessions, audit, faults, forgotten>>

\* Mutant: only sessions nobody has used are swept.
CleanupUnused(s) == Live(s) /\ sessions[s].idle > Idle /\ \A r \in Requests : ran[r] = "none"

Cleanup(s) == Live(s) /\ sessions[s].idle > Idle

CleanupIdleSessions ==
  /\ \E s \in Sessions : Cleanup(s)
  /\ sessions' = [s \in Sessions |-> IF Cleanup(s) THEN Gone ELSE sessions[s]]
  /\ UNCHANGED <<drawn, busy, ran, toAgent, toManager, askVars, rconSessions, audit, faults, forgotten>>

-----------------------------------------------------------------------------
\* The Durable Object and the terminals

Ask(q) == toAgent' = Append(toAgent, q)

\* useRcon connects when its console is shown.
Mount(t, r) ==
  /\ terminals[t].at = "off" /\ requests[r] = NoRequest
  /\ terminals' = [terminals EXCEPT ![t].at = "open"]
  /\ requests' = [requests EXCEPT ![r] =
       [op |-> "connect", by |-> t, session |-> "none", server |-> terminals[t].server,
        at |-> "asked", ok |-> FALSE]]
  /\ Ask([op |-> "connect", server |-> terminals[t].server, from |-> r])
  /\ UNCHANGED <<agentVars, toManager, shots, rconSessions, audit, faults, forgotten>>

Relay(t, r, op) ==
  LET s == terminals[t].session IN
  /\ terminals[t].at = "open" /\ s # "none" /\ requests[r] = NoRequest
  /\ requests' = [requests EXCEPT ![r] =
       [op |-> op, by |-> t, session |-> s, server |-> terminals[t].server,
        at |-> "asked", ok |-> FALSE]]
  /\ Ask([op |-> op, session |-> s, from |-> r])

SendCommand(t, r) ==
  /\ Relay(t, r, "command")
  /\ UNCHANGED <<agentVars, toManager, terminals, shots, rconSessions, audit, faults, forgotten>>

\* disconnect(): without a session nothing is sent and the socket stays.
Unmount(t, r) ==
  /\ \/ Relay(t, r, "disconnect")
     \/ /\ terminals[t].at = "open" /\ terminals[t].session = "none"
        /\ UNCHANGED <<requests, toAgent>>
  /\ terminals' = [terminals EXCEPT ![t].at = "left"]
  /\ UNCHANGED <<agentVars, toManager, shots, rconSessions, audit, faults, forgotten>>

Expected(r) == requests[r].at = "asked"

\* A new session is remembered, a closed one forgotten.
Remembered(q, a) ==
  CASE q.op = "connect" /\ a.ok -> [rconSessions EXCEPT ![a.session] = q.server]
    [] q.op = "disconnect" /\ a.ok -> [rconSessions EXCEPT ![q.session] = "none"]
    [] OTHER -> rconSessions

\* handleUIRCONMessage goes on with the answer: the terminal gets it, and a command that
\* succeeded is to be recorded if its session is remembered.
Answered(r, a) ==
  LET q == requests[r]
      audited == q.op = "command" /\ a.ok /\ rconSessions[q.session] # "none"
  IN
  /\ requests' = [requests EXCEPT ![r].ok = a.ok, ![r].at = IF audited THEN "auditing" ELSE "done"]
  /\ terminals' = IF q.op = "connect" /\ a.ok /\ terminals[q.by].at = "open"
                  THEN [terminals EXCEPT ![q.by].session = a.session] ELSE terminals
  /\ rconSessions' = Remembered(q, a)

HandleInboxReply ==
  LET a == Head(toManager) IN
  /\ toManager # <<>> /\ a.from \in Requests
  /\ toManager' = Tail(toManager)
  /\ IF Expected(a.from) THEN Answered(a.from, a)
     ELSE UNCHANGED <<requests, terminals, rconSessions>>
  /\ UNCHANGED <<agentVars, toAgent, shots, audit, faults, forgotten>>

\* The row takes the server of the session as it was remembered when the answer came.
Audit(r) ==
  /\ requests[r].at = "auditing"
  /\ requests' = [requests EXCEPT ![r].at = "done"]
  /\ audit' = [audit EXCEPT ![r] = requests[r].server]
  /\ UNCHANGED <<agentVars, toAgent, toManager, terminals, shots, rconSessions, faults, forgotten>>

Timeout(r) ==
  /\ Expected(r)
  /\ requests' = [requests EXCEPT ![r].at = "done"]
  /\ UNCHANGED <<agentVars, toAgent, toManager, terminals, shots, rconSessions, audit, faults, forgotten>>

-----------------------------------------------------------------------------
\* The one-shot command: handleOneShotRconCommand

OneShot(k) ==
  /\ shots[k].at = "new"
  /\ shots' = [shots EXCEPT ![k].at = "connect"]
  /\ \E server \in Servers : Ask([op |-> "connect", server |-> server, from |-> k])
  /\ UNCHANGED <<agentVars, toManager, terminals, requests, rconSessions, audit, faults, forgotten>>

ShotEnds(k) ==
  /\ shots' = [shots EXCEPT ![k].at = "done"]
  /\ Ask([op |-> "disconnect", session |-> shots[k].session, from |-> "nobody"])

ShotReply ==
  LET a == Head(toManager)
      k == a.from
  IN
  /\ toManager # <<>> /\ k \in Shots
  /\ toManager' = Tail(toManager)
  /\ \/ /\ shots[k].at = "connect" /\ a.op = "connect" /\ a.ok
        /\ shots' = [shots EXCEPT ![k] = [at |-> "command", session |-> a.session]]
        /\ Ask([op |-> "command", session |-> a.session, from |-> k])
     \/ /\ shots[k].at = "connect" /\ a.op = "connect" /\ ~a.ok
        /\ shots' = [shots EXCEPT ![k].at = "done"]
        /\ UNCHANGED toAgent
     \/ shots[k].at = "command" /\ a.op = "command" /\ ShotEnds(k)
     \/ shots[k].at # a.op /\ UNCHANGED <<shots, toAgent>>
  /\ UNCHANGED <<agentVars, terminals, requests, rconSessions, audit, faults, forgotten>>

\* A connection that is answered too late is left to the sweep.
ShotTimeout(k) ==
  /\ \/ shots[k].at = "connect" /\ shots' = [shots EXCEPT ![k].at = "lost"] /\ UNCHANGED toAgent
     \/ shots[k].at = "command" /\ ShotEnds(k)
  /\ UNCHANGED <<agentVars, toManager, terminals, requests, rconSessions, audit, faults, forgotten>>

-----------------------------------------------------------------------------
\* Faults

Fault == faults < Faults /\ faults' = faults + 1

LoseShots == shots' = [k \in Shots |-> IF shots[k].at = "new" THEN shots[k] ELSE [shots[k] EXCEPT !.at = "lost"]]

Break ==
  /\ Fault
  /\ toAgent' = <<>> /\ toManager' = <<>>
  /\ shots' = [k \in Shots |-> IF shots[k].at = "done" THEN [shots[k] EXCEPT !.at = "lost"] ELSE shots[k]]
  /\ UNCHANGED <<agentVars, terminals, requests, rconSessions, audit, forgotten>>

AgentRestart ==
  /\ Fault
  /\ sessions' = [s \in Sessions |-> Gone] /\ busy' = Free
  /\ toAgent' = <<>> /\ toManager' = <<>>
  /\ UNCHANGED <<drawn, ran, askVars, rconSessions, audit, forgotten>>

\* The statements of an audit row fail; the handler goes on.
AuditFails(r) ==
  /\ Fault
  /\ requests[r].at = "auditing"
  /\ requests' = [requests EXCEPT ![r].at = "done"]
  /\ forgotten' = forgotten \cup {requests[r].session}
  /\ UNCHANGED <<agentVars, toAgent, toManager, terminals, shots, rconSessions, audit>>

Forget ==
  /\ rconSessions' = [s \in Sessions |-> "none"]
  /\ forgotten' = forgotten \cup {s \in Sessions : rconSessions[s] # "none"}
       \cup {requests[r].session : r \in {x \in Requests : requests[x].at = "auditing"}}

Hibernate ==
  /\ Fault
  /\ \A r \in Requests : requests[r].at \in {"none", "done"}
  /\ \A k \in Shots : shots[k].at \notin {"connect", "command"}
  /\ Forget
  /\ UNCHANGED <<agentVars, toAgent, toManager, askVars, audit>>

\* Every connection of the DO ends, and what was pending is lost.
ManagerRestart ==
  /\ Fault
  /\ Forget
  /\ toAgent' = <<>> /\ toManager' = <<>>
  /\ requests' = [r \in Requests |->
       IF requests[r] = NoRequest THEN NoRequest ELSE [requests[r] EXCEPT !.at = "done"]]
  /\ terminals' = [t \in Terminals |-> IF terminals[t].at = "open" THEN [terminals[t] EXCEPT !.at = "left"] ELSE terminals[t]]
  /\ LoseShots
  /\ UNCHANGED <<agentVars, audit>>

AgentStep ==
  Connect \/ Find \/ Touch \/ Execute \/ Disconnect \/ CleanupIdleSessions
AskStep ==
  \/ \E t \in Terminals, r \in Requests : Mount(t, r) \/ SendCommand(t, r) \/ Unmount(t, r)
  \/ \E r \in Requests : Audit(r) \/ Timeout(r)
  \/ \E k \in Shots : OneShot(k) \/ ShotTimeout(k)
  \/ HandleInboxReply \/ ShotReply
FaultStep ==
  Break \/ AgentRestart \/ Hibernate \/ ManagerRestart \/ \E r \in Requests : AuditFails(r)

RconNext == AgentStep \/ Minute \/ AskStep \/ FaultStep

RconSpec == RconInit /\ [][RconNext]_rconVars /\ WF_rconVars(AgentStep) /\ WF_rconVars(Minute)

-----------------------------------------------------------------------------
\* Properties

\* The sweep never closes a connection under the command that uses it, although a command
\* runs outside the lock: what was there when it was touched is there when it is used.
SweepSparesUsed == busy.at = "using" /\ busy.held => Live(busy.session)

\* A terminal's command that was answered well is in the audit log under the server that
\* carried it out, unless the DO had forgotten the session by a hibernation or a restart,
\* or has failed to write the row.
Audited ==
  \A r \in Requests :
    LET q == requests[r] IN
    q.op = "command" /\ q.at = "done" /\ q.ok =>
      /\ ran[r] # "none"
      /\ q.session \notin forgotten => audit[r] = ran[r]

\* A one-shot command leaves no session: when it has ended and the agent has nothing left
\* to do, its session is closed, however the command went; only one whose connection was
\* answered too late, or whose disconnection was lost, is left to the sweep.
ShotsTidy ==
  toAgent = <<>> /\ busy = Free =>
    \A k \in Shots : shots[k].at = "done" /\ shots[k].session # "none" => ~Live(shots[k].session)

\* Every session ends, whoever has forgotten it: it is disconnected or swept.
SessionsEnd == \A s \in Sessions : Live(s) ~> ~Live(s)
=============================================================================
