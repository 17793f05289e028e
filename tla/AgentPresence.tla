--------------------------- MODULE AgentPresence ---------------------------
(***************************************************************************)
(* One agent, the Durable Object (DO) AgentConnection that holds its       *)
(* WebSocket, and the agent's row in the D1 table agents.                  *)
(*                                                                         *)
(* A DO runs its handlers on one thread.  While a handler awaits its own   *)
(* storage no other event is delivered, so consecutive storage operations  *)
(* are one step here; while it awaits D1 or an e-mail call other events    *)
(* are delivered, so every such await ends a step.  A D1 statement is a    *)
(* step of its own (the "Lookup" and "Write" actions): it is executed      *)
(* after the handler issued it and before the handler resumes.             *)
(*                                                                         *)
(* The in-memory flag isRegistered is lost when the DO hibernates and is   *)
(* restored from storage; the sockets survive hibernation but not a        *)
(* restart of the DO.  Replies go to the oldest agent socket, whichever     *)
(* socket the request came from.                                           *)
(*                                                                         *)
(* Left out: the longer grace period after an update push, the update      *)
(* e-mails, agent log streaming, forged or foreign tokens, and a second    *)
(* agent of the same name.  An armed alarm may fire at any later time.     *)
(***************************************************************************)
EXTENDS Naturals, Sequences

CONSTANTS
  MaxConns,        \* bound on the connections the agent opens
  MaxFaults,       \* bound on DO restarts, failed D1 statements and failed disconnections together
  Overlap,         \* may a socket be accepted before the last one is done with?
  MailConfigured   \* RESEND_API_KEY is set and the agent has recipients

ASSUME ConnsAssumption  == MaxConns \in Nat
ASSUME FaultsAssumption == MaxFaults \in Nat
ASSUME FlagsAssumption  == Overlap \in BOOLEAN /\ MailConfigured \in BOOLEAN

Conns == 1 .. MaxConns
NoConn == 0

\* A permanent token is named after the connection it was issued on; an agent
\* that registered before the behaviour starts holds EarlierToken.
EarlierToken == MaxConns + 1
Tokens == 1 .. MaxConns + 1
NoToken == 0

VARIABLES
  \* the agent process
  phase,         \* idle, waiting for the reply to its first message, up, exited
  link,          \* the connection it uses
  token,         \* its permanent token
  ephemeral,     \* is its one-hour registration token still valid?
  \* the network
  dialed,        \* connections opened so far
  hello,         \* hello[c]: the agent's first message on c, not yet delivered
  inbox,         \* inbox[c]: what the DO has sent on c, in order
  \* the Durable Object
  open,          \* agent sockets in the order of getWebSockets (accept order)
  closing,       \* sockets the DO closed, whose close event is still to come
  isRegistered,  \* in memory
  agentIdKept,   \* storage holds agentId and agentName
  disconnected,  \* storage holds disconnectedAt, with or without the agent's id
  alarmSet,      \* an alarm is scheduled
  alertSent,     \* storage holds alertSentAt
  talk,          \* talk[c]: where the register or auth handler of c stands
  shut,          \* shut[c]: where the close handler of c stands
  ring,          \* where the alarm handler stands
  \* D1 and the Worker's request handlers
  row,           \* the agent's row: none, or its status
  rowToken,      \* the token whose hash the row holds
  listing,       \* where a GET /agents stands
  removal,       \* where a DELETE /agents/:id stands
  \* history
  faults,        \* restarts, failed D1 statements and failed disconnections so far
  outages,       \* disconnections recorded so far
  alerts,        \* "is offline" e-mails sent so far
  recoveries,    \* "is back online" e-mails sent so far
  lastAlert      \* the outage the last alert was about

agentVars == <<phase, link, token, ephemeral>>
netVars   == <<dialed, hello, inbox>>
sockVars  == <<open, closing>>
alertVars == <<disconnected, alarmSet, alertSent>>
doVars    == <<isRegistered, agentIdKept, alertVars>>
taskVars  == <<talk, shut, ring>>
rowVars   == <<row, rowToken>>
webVars   == <<listing, removal>>
mailVars  == <<alerts, recoveries, lastAlert>>
histVars  == <<faults, outages, mailVars>>
vars == <<agentVars, netVars, sockVars, doVars, taskVars, rowVars, webVars, histVars>>

TalkPhases ==
  {"none", "regSelect", "regPending", "regFree", "regTaken", "regWritten",
   "authSelect", "authReject", "authAccept", "authRecipients", "authUpdate",
   "authWritten"}
Error == [subject |-> "error", token |-> NoToken]
AuthSuccess == [subject |-> "agent.auth.success", token |-> NoToken]
RegisterSuccess(t) == [subject |-> "agent.register.success", token |-> t]
Replies == {Error, AuthSuccess} \cup {RegisterSuccess(t) : t \in Conns}

TypeOK ==
  /\ phase \in {"idle", "waiting", "up", "exited"}
  /\ link \in Conns \cup {NoConn}
  /\ token \in Tokens \cup {NoToken}
  /\ ephemeral \in BOOLEAN
  /\ dialed \in 0 .. MaxConns
  /\ hello \in [Conns -> {"none", "register", "auth"}]
  /\ inbox \in [Conns -> Seq(Replies)]
  /\ open \subseteq Conns /\ closing \subseteq Conns
  /\ isRegistered \in BOOLEAN /\ agentIdKept \in BOOLEAN
  /\ disconnected \in {"none", "named", "nameless"}
  /\ alarmSet \in BOOLEAN /\ alertSent \in BOOLEAN
  /\ talk \in [Conns -> TalkPhases]
  /\ shut \in [Conns -> {"none", "update", "written"}]
  /\ ring \in {"none", "select", "online", "offline", "mailing"}
  /\ row \in {"none", "pending", "online", "offline"}
  /\ rowToken \in Tokens \cup {NoToken}
  /\ listing \in {"none", "stale", "expired"}
  /\ removal \in {"none", "disconnect", "delete"}
  /\ faults \in Nat /\ outages \in Nat
  /\ alerts \in Nat /\ recoveries \in Nat /\ lastAlert \in Nat

Init ==
  /\ phase = "idle" /\ link = NoConn
  /\ dialed = 0
  /\ hello = [c \in Conns |-> "none"]
  /\ inbox = [c \in Conns |-> <<>>]
  /\ open = {} /\ closing = {}
  /\ isRegistered = FALSE /\ agentIdKept = FALSE
  /\ disconnected = "none" /\ alarmSet = FALSE /\ alertSent = FALSE
  /\ talk = [c \in Conns |-> "none"]
  /\ shut = [c \in Conns |-> "none"]
  /\ ring = "none"
  /\ \/ row = "pending" /\ token = NoToken /\ ephemeral = TRUE
     \/ row = "offline" /\ token = EarlierToken /\ ephemeral = FALSE
  /\ rowToken = token
  /\ listing = "none" /\ removal = "none"
  /\ faults = 0 /\ outages = 0
  /\ alerts = 0 /\ recoveries = 0 /\ lastAlert = 0

-----------------------------------------------------------------------------
\* Predicates and helpers

\* No register, auth or close handler is running.
HandlersDone == \A c \in Conns : talk[c] = "none" /\ shut[c] = "none"

\* getAgentWebSocket: the first socket getWebSockets("agent") returns.  A socket
\* the DO closed is still returned until its close event.
AgentWebSocket ==
  IF open \cup closing = {} THEN NoConn
  ELSE CHOOSE c \in open \cup closing : \A d \in open \cup closing : c <= d

\* send, sendError: without an open first socket the message is lost.
Send(m) ==
  inbox' = [c \in Conns |-> IF c = AgentWebSocket /\ c \in open
                            THEN Append(inbox[c], m) ELSE inbox[c]]

\* The read loops of register() and authenticate() return the first message that
\* is an "error" or has the subject they wait for, and skip the others.
Reads(m, subject) ==
  LET Answers(i) == inbox[link][i].subject \in {"error", subject}
  IN  \E i \in DOMAIN inbox[link] :
        inbox[link][i] = m /\ Answers(i) /\ \A j \in 1 .. i - 1 : ~Answers(j)
Awaited == IF token = NoToken THEN "agent.register.success" ELSE "agent.auth.success"

Resume(c, from, to) == talk[c] = from /\ talk' = [talk EXCEPT ![c] = to]

-----------------------------------------------------------------------------
\* The agent

\* ConnectWithRetry, then the first message of register() or authenticate().
Dial ==
  /\ phase = "idle" /\ dialed < MaxConns
  /\ Overlap \/ (open \cup closing = {} /\ HandlersDone)
  /\ dialed' = dialed + 1
  /\ link' = dialed + 1
  /\ phase' = "waiting"
  /\ open' = open \cup {dialed + 1}
  /\ hello' = [hello EXCEPT ![dialed + 1] = IF token = NoToken THEN "register" ELSE "auth"]
  /\ UNCHANGED <<token, ephemeral, inbox, closing, doVars, taskVars, rowVars, webVars, histVars>>

\* The agent loses its connection: the network, the 30 s timeout of the first
\* message, or the process stopping and being started again.
Disconnect ==
  /\ link # NoConn
  /\ link' = NoConn
  /\ phase' = "idle"
  /\ UNCHANGED <<token, ephemeral, netVars, sockVars, doVars, taskVars, rowVars, webVars, histVars>>

\* An "error" is a permanent rejection: the process exits with code 78, which
\* systemd does not restart.
ReceiveError ==
  /\ phase = "waiting" /\ Reads(Error, Awaited)
  /\ phase' = "exited"
  /\ link' = NoConn
  /\ UNCHANGED <<token, ephemeral, netVars, sockVars, doVars, taskVars, rowVars, webVars, histVars>>

ReceiveAuthSuccess ==
  /\ phase = "waiting" /\ token # NoToken /\ Reads(AuthSuccess, Awaited)
  /\ phase' = "up"
  /\ UNCHANGED <<link, token, ephemeral, netVars, sockVars, doVars, taskVars, rowVars, webVars, histVars>>

ReceiveRegisterSuccess(t) ==
  /\ phase = "waiting" /\ token = NoToken /\ Reads(RegisterSuccess(t), Awaited)
  /\ phase' = "up"
  /\ token' = t
  /\ UNCHANGED <<link, ephemeral, netVars, sockVars, doVars, taskVars, rowVars, webVars, histVars>>

\* An hour after the agent was added in the dashboard.
EphemeralExpires ==
  /\ ephemeral
  /\ ephemeral' = FALSE
  /\ UNCHANGED <<phase, link, token, netVars, sockVars, doVars, taskVars, rowVars, webVars, histVars>>

-----------------------------------------------------------------------------
\* handleAgentRegister

DeliverRegister(c) ==
  /\ c \in open /\ hello[c] = "register"
  /\ hello' = [hello EXCEPT ![c] = "none"]
  /\ IF ephemeral
     THEN talk' = [talk EXCEPT ![c] = "regSelect"] /\ UNCHANGED inbox
     ELSE Send(Error) /\ UNCHANGED talk          \* Invalid or expired token
  /\ UNCHANGED <<agentVars, dialed, sockVars, doVars, shut, ring, rowVars, webVars, histVars>>

RegisterLookup(c) ==
  /\ Resume(c, "regSelect", CASE row = "pending" -> "regPending"
                              [] row = "none" -> "regFree"
                              [] OTHER -> "regTaken")
  /\ UNCHANGED <<agentVars, netVars, sockVars, doVars, shut, ring, rowVars, webVars, histVars>>

\* Agent already registered. Use permanent token to reconnect.
RegisterReject(c) ==
  /\ Resume(c, "regTaken", "none")
  /\ Send(Error)
  /\ UNCHANGED <<agentVars, dialed, hello, sockVars, doVars, shut, ring, rowVars, webVars, histVars>>

\* UPDATE agents SET token_hash, status = 'online' WHERE id: whatever the row is now.
RegisterUpdate(c) ==
  /\ Resume(c, "regPending", "regWritten")
  /\ IF row = "none" THEN UNCHANGED rowVars ELSE row' = "online" /\ rowToken' = c
  /\ UNCHANGED <<agentVars, netVars, sockVars, doVars, shut, ring, webVars, histVars>>

\* INSERT INTO agents: throws when another handler has inserted the id meanwhile.
RegisterInsert(c) ==
  /\ Resume(c, "regFree", IF row = "none" THEN "regWritten" ELSE "none")
  /\ IF row = "none"
     THEN row' = "online" /\ rowToken' = c /\ UNCHANGED inbox
     ELSE Send(Error) /\ UNCHANGED rowVars       \* Registration failed
  /\ UNCHANGED <<agentVars, dialed, hello, sockVars, doVars, shut, ring, webVars, histVars>>

RegisterDone(c) ==
  /\ Resume(c, "regWritten", "none")
  /\ isRegistered' = TRUE /\ agentIdKept' = TRUE
  /\ Send(RegisterSuccess(c))
  /\ UNCHANGED <<agentVars, dialed, hello, sockVars, alertVars, shut, ring, rowVars, webVars, histVars>>

-----------------------------------------------------------------------------
\* handleAgentAuth

DeliverAuth(c) ==
  /\ c \in open /\ hello[c] = "auth"
  /\ hello' = [hello EXCEPT ![c] = "none"]
  /\ talk' = [talk EXCEPT ![c] = "authSelect"]
  /\ UNCHANGED <<agentVars, dialed, inbox, sockVars, doVars, shut, ring, rowVars, webVars, histVars>>

AuthLookupOnline(c) ==
  /\ Resume(c, "authSelect", IF row = "online" /\ rowToken = token THEN "authAccept"
                                                                   ELSE "authReject")
  /\ UNCHANGED <<agentVars, netVars, sockVars, doVars, shut, ring, rowVars, webVars, histVars>>

AuthLookup(c) ==
  /\ Resume(c, "authSelect", IF row # "none" /\ rowToken = token THEN "authAccept"
                                                                 ELSE "authReject")
  /\ UNCHANGED <<agentVars, netVars, sockVars, doVars, shut, ring, rowVars, webVars, histVars>>

\* Agent not found, or Invalid token.
AuthReject(c) ==
  /\ Resume(c, "authReject", "none")
  /\ Send(Error)
  /\ UNCHANGED <<agentVars, dialed, hello, sockVars, doVars, shut, ring, rowVars, webVars, histVars>>

\* Recovery e-mails are due: their recipients are read from D1 first.
RecoveryDue == alertSent /\ disconnected # "none" /\ MailConfigured

AuthAcceptAlarmed(c) ==
  /\ Resume(c, "authAccept", IF RecoveryDue THEN "authRecipients" ELSE "authUpdate")
  /\ isRegistered' = TRUE
  /\ disconnected' = "none"
  /\ agentIdKept' = (agentIdKept \/ ~RecoveryDue)
  /\ UNCHANGED <<agentVars, netVars, sockVars, alarmSet, alertSent, shut, ring, rowVars,
                 webVars, histVars>>

\* The agent counts as registered from here on; the pending alert is cancelled.
AuthAccept(c) ==
  /\ Resume(c, "authAccept", IF RecoveryDue THEN "authRecipients" ELSE "authUpdate")
  /\ isRegistered' = TRUE
  /\ alarmSet' = FALSE /\ disconnected' = "none"
  /\ agentIdKept' = (agentIdKept \/ ~RecoveryDue)
  /\ UNCHANGED <<agentVars, netVars, sockVars, alertSent, shut, ring, rowVars, webVars, histVars>>

AuthRecoveredUnkept(c) ==
  /\ Resume(c, "authRecipients", "authUpdate")
  /\ recoveries' = recoveries + 1
  /\ alertSent' = FALSE
  /\ UNCHANGED <<agentVars, netVars, sockVars, isRegistered, agentIdKept, disconnected, alarmSet,
                 shut, ring, rowVars, webVars, faults, outages, alerts, lastAlert>>

AuthRecoveredAgain(c) ==
  /\ Resume(c, "authRecipients", "authUpdate")
  /\ recoveries' = recoveries + 1
  /\ agentIdKept' = TRUE
  /\ UNCHANGED <<agentVars, netVars, sockVars, isRegistered, alertVars,
                 shut, ring, rowVars, webVars, faults, outages, alerts, lastAlert>>

AuthRecovered(c) ==
  /\ Resume(c, "authRecipients", "authUpdate")
  /\ recoveries' = recoveries + 1
  /\ alertSent' = FALSE
  /\ agentIdKept' = TRUE
  /\ UNCHANGED <<agentVars, netVars, sockVars, isRegistered, disconnected, alarmSet,
                 shut, ring, rowVars, webVars, faults, outages, alerts, lastAlert>>

\* UPDATE agents SET status = 'online', last_seen WHERE id.
AuthUpdate(c) ==
  /\ Resume(c, "authUpdate", "authWritten")
  /\ row' = IF row = "none" THEN row ELSE "online"
  /\ UNCHANGED <<agentVars, netVars, sockVars, doVars, shut, ring, rowToken, webVars, histVars>>

AuthDoneMislabelled(c) ==
  /\ Resume(c, "authWritten", "none")
  /\ Send(RegisterSuccess(NoToken))
  /\ UNCHANGED <<agentVars, dialed, hello, sockVars, doVars, shut, ring, rowVars, webVars, histVars>>

AuthDone(c) ==
  /\ Resume(c, "authWritten", "none")
  /\ Send(AuthSuccess)
  /\ UNCHANGED <<agentVars, dialed, hello, sockVars, doVars, shut, ring, rowVars, webVars, histVars>>

\* A D1 statement of either handler fails: the catch block answers "error".
TalkFails(c) ==
  /\ faults < MaxFaults
  /\ talk[c] \in {"regSelect", "regPending", "regFree",
                  "authSelect", "authRecipients", "authUpdate", "authWritten"}
  /\ talk' = [talk EXCEPT ![c] = "none"]
  /\ Send(Error)
  /\ faults' = faults + 1
  /\ UNCHANGED <<agentVars, dialed, hello, sockVars, doVars, shut, ring, rowVars, webVars,
                 outages, mailVars>>

-----------------------------------------------------------------------------
\* webSocketClose, webSocketError: handleAgentClose

\* The runtime notices that socket c is gone, before or after the agent does.
\* Whichever socket it was, the agent is marked as gone.
CloseEvent(c) ==
  /\ c \in open \cup closing
  /\ open' = open \ {c} /\ closing' = closing \ {c}
  /\ hello' = [hello EXCEPT ![c] = "none"]
  /\ IF isRegistered
     THEN shut' = [shut EXCEPT ![c] = "update"] /\ UNCHANGED agentIdKept
     ELSE agentIdKept' = FALSE /\ UNCHANGED shut
  /\ UNCHANGED <<agentVars, dialed, inbox, isRegistered, alertVars, talk, ring, rowVars,
                 webVars, histVars>>

\* UPDATE agents SET status = 'offline' WHERE id; a failure is logged.
CloseWrite(c) ==
  /\ shut[c] = "update"
  /\ shut' = [shut EXCEPT ![c] = "written"]
  /\ row' = IF row = "none" THEN row ELSE "offline"
  /\ UNCHANGED <<agentVars, netVars, sockVars, doVars, talk, ring, rowToken, webVars, histVars>>

CloseWriteFails(c) ==
  /\ faults < MaxFaults
  /\ shut[c] = "update"
  /\ shut' = [shut EXCEPT ![c] = "written"]
  /\ faults' = faults + 1
  /\ UNCHANGED <<agentVars, netVars, sockVars, doVars, talk, ring, rowVars, webVars,
                 outages, mailVars>>

CloseDoneUnarmed(c) ==
  /\ shut[c] = "written"
  /\ shut' = [shut EXCEPT ![c] = "none"]
  /\ disconnected' = IF isRegistered THEN "named" ELSE "nameless"
  /\ isRegistered' = FALSE /\ agentIdKept' = FALSE
  /\ outages' = outages + 1
  /\ UNCHANGED <<agentVars, netVars, sockVars, alarmSet, alertSent, talk, ring, rowVars, webVars,
                 faults, mailVars>>

\* The alert is armed with the agentId held now, null if another close reset it.
CloseDone(c) ==
  /\ shut[c] = "written"
  /\ shut' = [shut EXCEPT ![c] = "none"]
  /\ disconnected' = IF isRegistered THEN "named" ELSE "nameless"
  /\ alarmSet' = TRUE
  /\ isRegistered' = FALSE /\ agentIdKept' = FALSE
  /\ outages' = outages + 1
  /\ UNCHANGED <<agentVars, netVars, sockVars, alertSent, talk, ring, rowVars, webVars,
                 faults, mailVars>>

-----------------------------------------------------------------------------
\* alarm()

AlarmFires ==
  /\ alarmSet /\ ring = "none"
  /\ alarmSet' = FALSE
  /\ ring' = IF disconnected = "named" THEN "select" ELSE "none"
  /\ UNCHANGED <<agentVars, netVars, sockVars, isRegistered, agentIdKept, disconnected,
                 alertSent, talk, shut, rowVars, webVars, histVars>>

AlarmLookup ==
  /\ ring = "select"
  /\ ring' = IF row = "online" THEN "online" ELSE "offline"
  /\ UNCHANGED <<agentVars, netVars, sockVars, doVars, talk, shut, rowVars, webVars, histVars>>

AlarmSkip ==
  /\ ring = "online"
  /\ ring' = "none"
  /\ disconnected' = "none"
  /\ UNCHANGED <<agentVars, netVars, sockVars, isRegistered, agentIdKept, alarmSet, alertSent,
                 talk, shut, rowVars, webVars, histVars>>

AlarmMail ==
  /\ ring = "offline"
  /\ IF MailConfigured
     THEN ring' = "mailing" /\ alerts' = alerts + 1 /\ lastAlert' = outages
     ELSE ring' = "none" /\ UNCHANGED <<alerts, lastAlert>>
  /\ UNCHANGED <<agentVars, netVars, sockVars, doVars, talk, shut, rowVars, webVars,
                 faults, outages, recoveries>>

AlarmDoneRetried ==
  /\ ring = "mailing"
  /\ ring' = "none"
  /\ alertSent' = TRUE /\ alarmSet' = TRUE
  /\ UNCHANGED <<agentVars, netVars, sockVars, isRegistered, agentIdKept, disconnected,
                 talk, shut, rowVars, webVars, histVars>>

AlarmDone ==
  /\ ring = "mailing"
  /\ ring' = "none"
  /\ alertSent' = TRUE
  /\ UNCHANGED <<agentVars, netVars, sockVars, isRegistered, agentIdKept, disconnected, alarmSet,
                 talk, shut, rowVars, webVars, histVars>>

\* A D1 statement of alarm() throws: the runtime runs the alarm again.
AlarmFails ==
  /\ faults < MaxFaults
  /\ ring \in {"select", "offline"}
  /\ ring' = "none" /\ alarmSet' = TRUE
  /\ faults' = faults + 1
  /\ UNCHANGED <<agentVars, netVars, sockVars, isRegistered, agentIdKept, disconnected,
                 alertSent, talk, shut, rowVars, webVars, outages, mailVars>>

-----------------------------------------------------------------------------
\* Life of the DO

\* No event is being handled: memory is dropped and the next event restores it.
Hibernate ==
  /\ HandlersDone /\ ring = "none"
  /\ isRegistered' = agentIdKept
  /\ UNCHANGED <<agentVars, netVars, sockVars, agentIdKept, alertVars, taskVars, rowVars,
                 webVars, histVars>>

\* The DO is restarted (a deploy, an eviction): the sockets are cut without a
\* close event, running handlers are lost, an interrupted alarm runs again.
Restart ==
  /\ faults < MaxFaults
  /\ faults' = faults + 1
  /\ open' = {} /\ closing' = {}
  /\ hello' = [c \in Conns |-> "none"]
  /\ isRegistered' = agentIdKept
  /\ talk' = [c \in Conns |-> "none"]
  /\ shut' = [c \in Conns |-> "none"]
  /\ ring' = "none"
  /\ alarmSet' = (alarmSet \/ ring # "none")
  /\ UNCHANGED <<agentVars, dialed, inbox, agentIdKept, disconnected, alertSent, rowVars,
                 webVars, outages, mailVars>>

-----------------------------------------------------------------------------
\* The Worker's request handlers

\* An agent that is up sends a heartbeat every 30 s; the DO writes last_seen only
\* while it counts the agent as registered.
Heartbeats == phase = "up" /\ link \in open /\ isRegistered

\* Registration and authentication write last_seen too; two minutes later the
\* agent has read the reply or given up.
LastSeenFresh ==
  \/ Heartbeats
  \/ \E c \in Conns : talk[c] \in {"regWritten", "authWritten"}
  \/ phase = "waiting" /\ inbox[link] # <<>>

ListingReadTrusting ==
  /\ listing = "none"
  /\ \/ row = "online" /\ ~isRegistered /\ listing' = "stale"
     \/ row = "pending" /\ ~ephemeral /\ listing' = "expired"
  /\ UNCHANGED <<agentVars, netVars, sockVars, doVars, taskVars, rowVars, removal, histVars>>

\* GET /agents: an "online" row whose last_seen is two minutes old is stale.
ListingRead ==
  /\ listing = "none"
  /\ \/ row = "online" /\ ~LastSeenFresh /\ listing' = "stale"
     \/ row = "pending" /\ ~ephemeral /\ listing' = "expired"
  /\ UNCHANGED <<agentVars, netVars, sockVars, doVars, taskVars, rowVars, removal, histVars>>

ListingWrite ==
  /\ \/ /\ listing = "stale"
        /\ row' = IF row = "none" THEN row ELSE "offline"
     \/ /\ listing = "expired"
        /\ row' = IF row = "pending" THEN "none" ELSE row
  /\ listing' = "none"
  /\ UNCHANGED <<agentVars, netVars, sockVars, doVars, taskVars, rowToken, removal, histVars>>

\* DELETE /agents/:id disconnects an agent whose row says online, then deletes it.
RemovalRead ==
  /\ removal = "none" /\ row # "none"
  /\ removal' = IF row = "online" THEN "disconnect" ELSE "delete"
  /\ UNCHANGED <<agentVars, netVars, sockVars, doVars, taskVars, rowVars, listing, histVars>>

\* POST /force-disconnect: closes the first socket only; storage.deleteAll() keeps
\* a scheduled alarm.
RemovalDisconnect ==
  /\ removal = "disconnect"
  /\ removal' = "delete"
  /\ open' = open \ {AgentWebSocket}
  /\ closing' = closing \cup (open \cap {AgentWebSocket})
  /\ hello' = [c \in Conns |-> IF c = AgentWebSocket THEN "none" ELSE hello[c]]
  /\ isRegistered' = FALSE /\ agentIdKept' = FALSE
  /\ disconnected' = "none" /\ alertSent' = FALSE
  /\ UNCHANGED <<agentVars, dialed, inbox, alarmSet, taskVars, rowVars, listing, histVars>>

\* The request to the DO fails: the row is deleted all the same, and the agent stays connected.
RemovalDisconnectFails ==
  /\ faults < MaxFaults
  /\ removal = "disconnect"
  /\ removal' = "delete"
  /\ faults' = faults + 1
  /\ UNCHANGED <<agentVars, netVars, sockVars, doVars, taskVars, rowVars, listing, outages, mailVars>>

RemovalDelete ==
  /\ removal = "delete"
  /\ removal' = "none"
  /\ row' = "none" /\ rowToken' = NoToken
  /\ UNCHANGED <<agentVars, netVars, sockVars, doVars, taskVars, listing, histVars>>

-----------------------------------------------------------------------------
Agent == \/ Dial \/ Disconnect \/ ReceiveError \/ ReceiveAuthSuccess
         \/ \E t \in Conns : ReceiveRegisterSuccess(t)
         \/ EphemeralExpires
Register(c) == \/ DeliverRegister(c) \/ RegisterLookup(c) \/ RegisterReject(c)
               \/ RegisterUpdate(c) \/ RegisterInsert(c) \/ RegisterDone(c)
Auth(c) == \/ DeliverAuth(c) \/ AuthLookup(c) \/ AuthReject(c) \/ AuthAccept(c)
           \/ AuthRecovered(c) \/ AuthUpdate(c) \/ AuthDone(c)
Close(c) == CloseEvent(c) \/ CloseWrite(c) \/ CloseDone(c)
Alarm == AlarmFires \/ AlarmLookup \/ AlarmSkip \/ AlarmMail \/ AlarmDone
Platform == \/ Hibernate \/ Restart \/ AlarmFails
            \/ \E c \in Conns : TalkFails(c) \/ CloseWriteFails(c)
Web == \/ ListingRead \/ ListingWrite
       \/ RemovalRead \/ RemovalDisconnect \/ RemovalDisconnectFails \/ RemovalDelete

Next ==
  \/ Agent
  \/ \E c \in Conns : Register(c) \/ Auth(c) \/ Close(c)
  \/ Alarm
  \/ Platform
  \/ Web

Spec == Init /\ [][Next]_vars

\* The runtime runs what it was asked to run, D1 answers, either end notices a
\* connection the other has given up (pings), an alarm fires, and someone keeps
\* the dashboard open.
Fairness ==
  /\ \A c \in Conns : WF_vars(Register(c)) /\ WF_vars(Auth(c))
  /\ \A c \in Conns : /\ WF_vars(link # c /\ CloseEvent(c))
                       /\ WF_vars(CloseWrite(c) \/ CloseDone(c))
  /\ WF_vars(link \notin open /\ Disconnect)
  /\ WF_vars(Alarm)
  /\ WF_vars(ListingRead \/ ListingWrite)
  /\ WF_vars(RemovalDisconnect \/ RemovalDisconnectFails \/ RemovalDelete)

FairSpec == Spec /\ Fairness

-----------------------------------------------------------------------------
\* Properties that hold however the sockets of the agent overlap

\* alarm(): an outage is alerted at most once.  Only a restart of the DO or a
\* failed statement can make an alarm run again.
AlertsBounded == alerts <= outages + faults

\* handleAgentAuth: an outage is closed by at most one recovery e-mail, even when
\* two sockets authenticate while the recipients are being read.
RecoveriesBounded == recoveries <= outages

\* alarm() and handleAgentAuth together: whatever sockets, handlers and faults do,
\* no outage brings two e-mails of a kind.
MailsBounded == AlertsBounded /\ RecoveriesBounded

\* restoreState: once the handlers are done, what hibernation would drop is in
\* storage, so an agent is not forgotten.  A failed statement can break this.
SurvivesHibernation ==
  HandlersDone /\ isRegistered => agentIdKept \/ faults > 0

-----------------------------------------------------------------------------
\* Properties of connections that do not overlap

Quiet == HandlersDone /\ ring = "none" /\ removal = "none"

\* handleAgentAuth, handleAgentClose: an agent that has authenticated on a socket
\* that is still open counts as registered in the DO, and the alarm of its last
\* outage is cancelled.
ReconnectIsComplete ==
  Quiet /\ phase = "up" /\ link \in open /\ token # link /\ row # "none" =>
    isRegistered /\ ~alarmSet

\* ErrAuthFailure: an agent never exits for good while the manager still accepts
\* its permanent token, although replies are sent to the oldest socket.
TokenHonoured ==
  phase = "exited" /\ token # NoToken /\ row # "none" => token # rowToken

\* The e-mails refine the ledger.
Ledger == INSTANCE AlertLedger WITH occasions <- outages + faults
LedgerSpec == Ledger!Spec

-----------------------------------------------------------------------------
\* Liveness

\* handleAgentClose and the sweep of GET /agents: the row of an agent that is
\* gone for good does not say online for ever, not even after a restart.
StatusConverges == <>[](open = {} /\ HandlersDone) => <>[](row # "online")

\* handleAgentClose, alarm(): a recorded outage is alerted unless the agent comes
\* back, is removed or is shown online again.
OutageIsAnswered ==
  \A n \in Conns :
    disconnected = "named" /\ outages = n ~>
      lastAlert >= n \/ isRegistered \/ row # "offline" \/ ring = "online"
=============================================================================
