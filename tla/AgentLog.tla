------------------------------ MODULE AgentLog ------------------------------
(***************************************************************************)
(* The agent's own log, from the agent through the Durable Object to the   *)
(* viewers.  The agent keeps its last lines and, while the DO is           *)
(* subscribed, a channel of the lines that are to be sent.  The DO         *)
(* subscribes at every authentication, to have lines in store, and for     *)
(* every viewer; it unsubscribes after the last viewer.  It believes what  *)
(* its flag isAgentLogStreaming says, which it also keeps in storage.      *)
(*                                                                         *)
(* The connection breaks and comes back; the DO hibernates (it forgets the *)
(* lines) or is restarted (all connections end and no handler runs).  It   *)
(* has noticed the end of a connection before the next is authenticated;   *)
(* AgentPresence is about the other order.  A line is its number.  The     *)
(* agent's forwarding goroutine has taken its channel before the next      *)
(* message is handled; it empties the channel also after it was closed,    *)
(* and so its lines may come after those of the next subscription.         *)
(***************************************************************************)
EXTENDS Naturals, Sequences, SequencesExt

CONSTANTS
  Sockets,      \* the browsers' connections, each used once
  Keep,         \* lines kept by the agent and by the DO: 1000 in the code
  Channel,      \* capacity of the agent's channel: 100 in the code
  MaxLine,      \* bound on the lines the agent logs
  MaxQueue,     \* bound on the messages on their way to the DO
  Breaks        \* bound on broken connections and restarts of the DO

AgentLogAssumption ==
  /\ {Keep, Channel} \subseteq Nat \ {0}
  /\ {MaxLine, MaxQueue, Breaks} \subseteq Nat

VARIABLES
  written,     \* how many lines the agent has logged
  link,        \* "up", "broken" (each side has yet to notice), or "down"
  noticed,     \* the sides that have noticed
  toAgent, toManager,   \* the messages on their way
  reading,     \* whether handleAgentLogsSubscribe has read a history it has yet to send
  history,     \* that history
  open,        \* whether the agent has a channel for the DO
  channel,     \* the lines in it
  forwarding,  \* whether the goroutine that empties the channel is alive
  leftover,    \* what is in the channels that were closed before they were empty
  sent,        \* the last line of its own this subscription has sent (history: no action reads it)
  flag,        \* isAgentLogStreaming
  sockets,     \* sockets[s]: where the connection of a browser stands
  subs,        \* the sockets with a subscription in the DO's storage
  buffer,      \* the DO's last lines
  shown,       \* shown[s]: the lines browser s shows
  breaks,      \* how often a connection has broken or the DO has been restarted
  stale        \* whether the DO was restarted since the flag was last written

agentVars == <<written, reading, history, open, channel, forwarding, leftover, sent>>
doVars == <<flag, sockets, subs, buffer, shown, stale>>
agentLogVars == <<agentVars, link, noticed, toAgent, toManager, doVars, breaks>>

Lines == Seq(1 .. MaxLine)
ToManager == [op : {"history"}, lines : Lines] \cup [op : {"line"}, line : 1 .. MaxLine]
SocketStates == {"unused", "new", "on", "leaving", "closing", "closed"}

AtMost(n, lines) == Len(lines) <= n

TypeOK ==
  /\ written \in 0 .. MaxLine
  /\ link \in {"up", "broken", "down"} /\ noticed \subseteq {"agent", "manager"}
  /\ toAgent \in Seq({"subscribe", "unsubscribe"}) /\ toManager \in Seq(ToManager)
  /\ history \in Lines /\ AtMost(Keep, history)
  /\ channel \in Lines /\ AtMost(Channel, channel) /\ leftover \subseteq Lines \ {<<>>}
  /\ {reading, open, forwarding, flag, stale} \subseteq BOOLEAN /\ sent \in 0 .. MaxLine
  /\ sockets \in [Sockets -> SocketStates] /\ subs \subseteq Sockets
  /\ buffer \in Lines /\ AtMost(Keep, buffer)
  /\ shown \in [Sockets -> Lines] /\ breaks \in 0 .. Breaks

AgentLogInit ==
  /\ written = 0 /\ reading = FALSE /\ history = <<>> /\ open = FALSE /\ channel = <<>>
  /\ forwarding = FALSE /\ leftover = {} /\ sent = 0
  /\ link = "down" /\ noticed = {} /\ toAgent = <<>> /\ toManager = <<>>
  /\ flag = FALSE /\ stale = FALSE /\ subs = {} /\ buffer = <<>> /\ breaks = 0
  /\ sockets = [s \in Sockets |-> "unused"] /\ shown = [s \in Sockets |-> <<>>]

Newest(lines) ==
  IF Len(lines) > Keep THEN SubSeq(lines, Len(lines) - Keep + 1, Len(lines)) ELSE lines
\* Mutant: the last line is left out.
LoggedShort(n) == Newest([i \in 1 .. n - 1 |-> i])

\* What GetHistory returns.
Logged(n) == Newest([i \in 1 .. n |-> i])

-----------------------------------------------------------------------------
\* The agent

\* Mutant: nothing is skipped.
AddLineAlways ==
  /\ written < MaxLine
  /\ written' = written + 1
  /\ channel' = IF open THEN Append(channel, written + 1) ELSE channel
  /\ UNCHANGED <<link, noticed, toAgent, toManager, reading, history, open, forwarding, leftover, sent, doVars, breaks>>

\* A line that finds the channel full is skipped.
AddLine ==
  /\ written < MaxLine
  /\ written' = written + 1
  /\ channel' = IF open /\ Len(channel) < Channel THEN Append(channel, written + 1) ELSE channel
  /\ UNCHANGED <<link, noticed, toAgent, toManager, reading, history, open, forwarding, leftover, sent, doVars, breaks>>

Tell(message) ==
  toManager' = IF link = "up" THEN Append(toManager, message) ELSE toManager
Handles(op) ==
  /\ "agent" \notin noticed /\ ~reading
  /\ toAgent # <<>> /\ Head(toAgent) = op
  /\ toAgent' = Tail(toAgent)

\* handleAgentLogsSubscribe: nothing when there is a channel; else the history is read.
ReadHistory ==
  /\ Handles("subscribe")
  /\ IF open THEN UNCHANGED <<reading, history>>
     ELSE reading' = TRUE /\ history' = Logged(written)
  /\ UNCHANGED <<written, open, channel, forwarding, leftover, sent, link, noticed, toManager, doVars, breaks>>

\* The history is sent if there is one and a channel made; what has been logged since it
\* was read is in neither.
Subscribe ==
  /\ reading /\ Len(toManager) < MaxQueue
  /\ IF history # <<>>
     THEN Tell([op |-> "history", lines |-> history]) /\ sent' = history[Len(history)]
     ELSE UNCHANGED <<toManager, sent>>
  /\ reading' = FALSE /\ history' = <<>>
  /\ open' = TRUE /\ channel' = <<>> /\ forwarding' = TRUE
  /\ UNCHANGED <<written, leftover, link, noticed, toAgent, doVars, breaks>>

\* A closed channel gets no more lines; its goroutine goes on with those it has.
CloseChannel ==
  /\ open' = FALSE /\ channel' = <<>> /\ forwarding' = FALSE /\ sent' = 0
  /\ leftover' = IF forwarding /\ channel # <<>> THEN leftover \cup {channel} ELSE leftover

HandleAgentLogsUnsubscribe ==
  /\ Handles("unsubscribe")
  /\ CloseChannel
  /\ UNCHANGED <<written, reading, history, link, noticed, toManager, doVars, breaks>>

\* A line is sent, lost in a connection that has broken, or refused by it; the goroutine
\* then ends and the channel stays.
Forward ==
  /\ forwarding /\ channel # <<>> /\ Len(toManager) < MaxQueue
  /\ channel' = Tail(channel) /\ sent' = Head(channel)
  /\ \/ Tell([op |-> "line", line |-> Head(channel)]) /\ UNCHANGED forwarding
     \/ link = "broken" /\ forwarding' = FALSE /\ UNCHANGED toManager
  /\ UNCHANGED <<written, reading, history, open, leftover, link, noticed, toAgent, doVars, breaks>>

\* So is a line of a closed channel, whatever connection there is by now.
Drain ==
  /\ Len(toManager) < MaxQueue
  /\ \E lines \in leftover :
       \/ /\ Tell([op |-> "line", line |-> Head(lines)])
          /\ leftover' = (leftover \ {lines}) \cup ({Tail(lines)} \ {<<>>})
       \/ link # "up" /\ leftover' = leftover \ {lines} /\ UNCHANGED toManager
  /\ UNCHANGED <<written, reading, history, open, channel, forwarding, sent, link, noticed, toAgent,
                 doVars, breaks>>

-----------------------------------------------------------------------------
\* The connection

Break ==
  /\ link = "up" /\ breaks < Breaks
  /\ link' = "broken" /\ noticed' = {} /\ breaks' = breaks + 1
  /\ toAgent' = <<>> /\ toManager' = <<>>
  /\ UNCHANGED <<agentVars, doVars>>

Settle(side) ==
  /\ link = "broken" /\ side \notin noticed
  /\ noticed' = noticed \cup {side}
  /\ link' = IF noticed' = {"agent", "manager"} THEN "down" ELSE "broken"

CleanupOnDisconnect ==
  /\ ~reading /\ Settle("agent")
  /\ CloseChannel
  /\ UNCHANGED <<written, reading, history, toAgent, toManager, doVars, breaks>>

HandleAgentClose ==
  /\ Settle("manager")
  /\ flag' = FALSE /\ stale' = FALSE
  /\ UNCHANGED <<agentVars, toAgent, toManager, sockets, subs, buffer, shown, breaks>>

Send(op) == toAgent' = IF link = "up" THEN Append(toAgent, op) ELSE toAgent

HandleAgentAuth ==
  /\ link = "down"
  /\ link' = "up" /\ noticed' = {}
  /\ toAgent' = IF flag THEN <<>> ELSE <<"subscribe">>
  /\ flag' = TRUE
  /\ UNCHANGED <<agentVars, toManager, sockets, subs, buffer, shown, breaks, stale>>

Hibernate ==
  /\ buffer' = <<>>
  /\ UNCHANGED <<agentVars, link, noticed, toAgent, toManager, flag, sockets, subs, shown, breaks, stale>>

\* The DO is restarted: storage is all that stays, and no handler sees the connections end.
Restart ==
  /\ breaks < Breaks
  /\ breaks' = breaks + 1
  /\ buffer' = <<>> /\ stale' = TRUE
  /\ sockets' = [s \in Sockets |-> IF sockets[s] = "unused" THEN "unused" ELSE "closed"]
  /\ toAgent' = <<>> /\ toManager' = <<>>
  /\ noticed' = IF link = "down" THEN noticed ELSE noticed \cup {"manager"}
  /\ link' = IF link = "down" \/ "agent" \in noticed THEN "down" ELSE "broken"
  /\ UNCHANGED <<agentVars, flag, subs, shown>>

-----------------------------------------------------------------------------
\* The DO and the browsers

Rest == <<agentVars, link, noticed, toManager, breaks>>

Move(s, from, to) == sockets[s] \in from /\ sockets' = [sockets EXCEPT ![s] = to]
Open(s) ==
  Move(s, {"unused"}, "new") /\ UNCHANGED <<Rest, toAgent, flag, subs, buffer, shown, stale>>
Leave(s) ==
  Move(s, {"on"}, "leaving") /\ UNCHANGED <<Rest, toAgent, flag, subs, buffer, shown, stale>>
Vanish(s) ==
  Move(s, {"new", "on"}, "closing") /\ UNCHANGED <<Rest, toAgent, flag, subs, buffer, shown, stale>>

\* The lines kept are shown at once; the agent is asked whatever the flag says.
HandleAgentLogSubscribe(s) ==
  /\ Move(s, {"new"}, "on")
  /\ subs' = subs \cup {s}
  /\ shown' = [shown EXCEPT ![s] = buffer]
  /\ Send("subscribe")
  /\ IF link = "down" \/ "manager" \in noticed THEN UNCHANGED <<flag, stale>>
     ELSE flag' = TRUE /\ stale' = FALSE
  /\ UNCHANGED <<Rest, buffer>>

\* What an unsubscription and a close have in common.
Unsubscribe(s) ==
  /\ subs' = subs \ {s}
  /\ IF s \in subs /\ subs' = {} /\ flag
     THEN Send("unsubscribe") /\ flag' = FALSE /\ stale' = FALSE
     ELSE UNCHANGED <<toAgent, flag, stale>>

HandleAgentLogUnsubscribe(s) ==
  Move(s, {"leaving"}, "closing") /\ Unsubscribe(s) /\ UNCHANGED <<Rest, buffer, shown>>
HandleUIClose(s) ==
  Move(s, {"closing"}, "closed") /\ Unsubscribe(s) /\ UNCHANGED <<Rest, buffer, shown>>

\* A browser that has vanished may refuse what it is sent, and loses its subscription.
Broadcast == \E dead \in SUBSET {s \in subs : sockets[s] \in {"closing", "closed"}} : subs' = subs \ dead
Viewers == {s \in subs : sockets[s] = "on"}

HandleAgentLogLine(message) ==
  /\ buffer' = Newest(Append(buffer, message.line))
  /\ shown' = [s \in Sockets |-> IF s \in Viewers THEN Append(shown[s], message.line) ELSE shown[s]]

\* Mutant: the history that comes is taken for a newer one of the DO's own.
HandleAgentLogHistoryShown(message) ==
  /\ shown' = [s \in Sockets |-> IF s \in Viewers THEN message.lines ELSE shown[s]]
  /\ UNCHANGED buffer

\* The history is appended to what is kept, and takes the place of what is shown.
HandleAgentLogHistory(message) ==
  /\ buffer' = Newest(buffer \o message.lines)
  /\ shown' = [s \in Sockets |-> IF s \in Viewers THEN message.lines ELSE shown[s]]

HandleAgentMessage ==
  LET message == Head(toManager) IN
  /\ toManager # <<>>
  /\ toManager' = Tail(toManager)
  /\ \/ message.op = "line" /\ HandleAgentLogLine(message)
     \/ message.op = "history" /\ HandleAgentLogHistory(message)
  /\ Broadcast
  /\ UNCHANGED <<agentVars, link, noticed, toAgent, sockets, flag, breaks, stale>>

AgentLogNext ==
  \/ AddLine \/ ReadHistory \/ Subscribe \/ HandleAgentLogsUnsubscribe \/ Forward \/ Drain
  \/ Break \/ CleanupOnDisconnect \/ HandleAgentClose \/ HandleAgentAuth \/ Hibernate \/ Restart
  \/ \E s \in Sockets :
       \/ Open(s) \/ Leave(s) \/ Vanish(s) \/ HandleAgentLogSubscribe(s)
       \/ HandleAgentLogUnsubscribe(s) \/ HandleUIClose(s)
  \/ HandleAgentMessage

AgentLogSpec == AgentLogInit /\ [][AgentLogNext]_agentLogVars

-----------------------------------------------------------------------------
\* Properties

Sending == open /\ forwarding
Quiet == link = "up" /\ toAgent = <<>> /\ ~reading

\* What the DO believes is what the agent does: with nothing on its way to the agent, it
\* sends its log just when isAgentLogStreaming says so, unless the DO has been restarted
\* and the flag is the one of before.
FlagTrue == Quiet /\ ~stale => (flag <=> Sending)

\* Whoever watches gets the agent's log, from one connection to the next.
WatchedIsSent == Quiet /\ ~stale /\ Viewers # {} => Sending

\* A subscription sends no line twice and none out of order: what is yet to be sent, of the
\* history or of the channel, is newer than what has been sent.
Increasing(lines) == \A i, j \in 1 .. Len(lines) : i < j => lines[i] < lines[j]
SentInOrder == Increasing(<<sent>> \o history) /\ Increasing(<<sent>> \o channel)

\* What comes twice or out of order all the same was left over by an earlier subscription:
\* it is no newer than the history this one has sent, or is about to send.
RepeatsAreOld ==
  \A lines \in leftover : \A i \in 1 .. Len(lines) :
    /\ reading => history # <<>> /\ lines[i] <= history[Len(history)]
    /\ open => lines[i] <= sent

SentOnce == SentInOrder /\ RepeatsAreOld

\* A viewer shows what a newcomer would be shown, and one of them perhaps more that is older.
AgentViewsAgree ==
  \A s \in Viewers :
    LET n == IF Len(buffer) < Len(shown[s]) THEN Len(buffer) ELSE Len(shown[s])
        Ending(lines) == SubSeq(lines, Len(lines) - n + 1, Len(lines))
    IN Ending(buffer) = Ending(shown[s])
=============================================================================
