---------------------------- MODULE MCConnection ----------------------------
(***************************************************************************)
(* What goes on over an agent's connection and has to outlive it, for TLC: *)
(* the containers' logs, the agent's own log, the terminals' RCON sessions *)
(* and one-shot commands, and the update of the agent's program.  None of  *)
(* it reads the state of another, so a behaviour is about one of them.     *)
(***************************************************************************)
EXTENDS AgentUpdates

CONSTANTS
  Sockets, Containers, Forwarders, Keep, MaxLine, MaxQueue, Drops, Prompt,  \* LogStreams
  AgentKeep, Channel, Breaks,                                               \* AgentLog
  Servers, Sessions, Terminals, Requests, Shots, Idle                       \* RconSessions, with Faults

VARIABLES
  part,        \* what the behaviour is about
  asked, told, sockets, shown, \* messages on their way, and browsers, of all but AgentUpdates
  \* the rest of LogStreams
  written, attached, streams, forwarders, subs, buffers, drops, unserved, unstopped,
  \* the rest of AgentLog, whose log, connection, subscribers and flag are renamed
  logged, connection, viewers, noticed, reading, history, open, channel, forwarding, leftover,
  sent, streaming, stale, buffer, breaks,
  \* the rest of RconSessions
  sessions, drawn, busy, terminals, requests, shots, rconSessions, audit, mishaps, ran, forgotten

L == INSTANCE LogStreams WITH toAgent <- asked, toManager <- told, link <- attached
A == INSTANCE AgentLog WITH
       toAgent <- asked, toManager <- told, Keep <- AgentKeep, written <- logged,
       link <- connection, subs <- viewers, flag <- streaming
T == INSTANCE RconSessions WITH
       toAgent <- asked, toManager <- told, faults <- mishaps, Shots <- {}
O == INSTANCE RconSessions WITH
       toAgent <- asked, toManager <- told, faults <- mishaps, Terminals <- {}, Requests <- {}

ASSUME ConnectionAssumption ==
  L!LogAssumption /\ A!AgentLogAssumption /\ T!RconAssumption /\ O!RconAssumption

logRest == <<written, attached, streams, forwarders, subs, buffers, drops, unserved, unstopped>>
agentLogRest == <<logged, connection, viewers, noticed, reading, history, open, channel,
                  forwarding, leftover, sent, streaming, stale, buffer, breaks>>
rconRest == <<sessions, drawn, busy, terminals, requests, shots, rconSessions, audit, mishaps,
              ran, forgotten>>
logVars == <<asked, told, sockets, shown, logRest, agentLogRest>>
vars == <<part, logVars, rconRest, updateVars>>

ConnectionInit ==
  /\ part \in {"logs", "agentLog", "terminals", "shots", "updates"}
  /\ L!LogInit /\ A!AgentLogInit /\ UpdatesInit
  /\ IF part = "terminals" THEN T!RconInit ELSE O!RconInit

NoLogs == UNCHANGED logRest
NoAgentLog == UNCHANGED agentLogRest
NoLogAtAll == UNCHANGED <<sockets, shown, logRest, agentLogRest>>
NoRcon == UNCHANGED rconRest
NoUpdate == UNCHANGED <<part, updateVars>>

Terminal(step) == part = "terminals" /\ step /\ NoLogAtAll /\ NoUpdate
Shot(step) == part = "shots" /\ step /\ NoLogAtAll /\ NoUpdate
Update(step) == part = "updates" /\ step /\ UNCHANGED <<part, logVars>> /\ NoRcon

ConnectionNext ==
  \/ part = "logs" /\ L!LogNext /\ NoAgentLog /\ NoRcon /\ NoUpdate
  \/ part = "agentLog" /\ A!AgentLogNext /\ NoLogs /\ NoRcon /\ NoUpdate
  \/ Terminal(T!RconNext)
  \/ Shot(O!RconNext)
  \/ Update(UpdatesNext)

AgentGoesOn == Terminal(T!AgentStep) \/ Shot(O!AgentStep) \/ Update(AgentStep)
Minute == Terminal(T!Minute) \/ Shot(O!Minute)
DoGoesOn == Update(DoStep)

\* Agents carry out what they are asked and what they have begun, and their minutes pass; so
\* does the Durable Object of an update.
ConnectionSpec ==
  ConnectionInit /\ [][ConnectionNext]_vars
  /\ WF_vars(AgentGoesOn) /\ WF_vars(Minute) /\ WF_vars(DoGoesOn)

-----------------------------------------------------------------------------
\* Properties; UpdatesTold and Updated are those of AgentUpdates.

\* The state of each part has its type.
ConnectionTypeOK ==
  CASE part = "logs" -> L!TypeOK
    [] part = "agentLog" -> A!TypeOK
    [] part = "terminals" -> T!TypeOK
    [] part = "shots" -> O!TypeOK
    [] part = "updates" -> TypeOK

\* What an agent streams is what somebody watches: with nothing on its way to the agent, the
\* log of a watched container is being sent and that of no other is, each once and so that it
\* can be stopped; the agent's own log is sent just when the DO believes so, which is
\* when somebody watches it.  LogStreams and AgentLog name what may have come in between.
StreamsFollowViewers ==
  /\ part = "logs" => L!Served /\ L!Wanted /\ L!Cancellable
  /\ part = "agentLog" => A!FlagTrue /\ A!WatchedIsSent

\* Two browsers that watch one log see the same: what one shows, and what the DO would show
\* a newcomer, are the ends of one sequence of lines; and the agent's own log comes in order,
\* no line twice, but for old ones that an earlier subscription has left over.
ViewsAgree ==
  /\ part = "logs" => L!ViewsAgree
  /\ part = "agentLog" => A!AgentViewsAgree /\ A!SentOnce

\* Nothing is carried out on a session that is closed under it, nothing unaudited that a
\* terminal asked and the DO could know the server of, and one-shot commands leave no session.
SessionsKept ==
  /\ part = "terminals" => T!SweepSparesUsed /\ T!Audited
  /\ part = "shots" => O!SweepSparesUsed /\ O!ShotsTidy

\* Every RCON session ends, whoever has forgotten it: it is disconnected or swept.
SessionsEnd == \A s \in Sessions : sessions[s] # T!Gone ~> sessions[s] = T!Gone
=============================================================================
