----------------------------- MODULE LogStreams -----------------------------
(***************************************************************************)
(* The logs of containers, from Docker through the agent and the Durable   *)
(* Object to the viewers in browsers.                                      *)
(*                                                                         *)
(* The DO keeps who watches which container in storage, the last lines of  *)
(* each container in memory, and asks the agent to stream a container for  *)
(* its first viewer and to stop after its last.  Its handlers await only   *)
(* its own storage, so each is one step.  The agent keeps the streams it   *)
(* may cancel in the map logStreams, and a goroutine (a forwarder here)    *)
(* for each stream it has started, that takes itself off the map when it   *)
(* ends.                                                                   *)
(*                                                                         *)
(* The connection to the agent may break and come back: what is on its way *)
(* is lost, subscriptions and streams stay.  A browser may vanish without  *)
(* a word.  The DO hibernates and forgets the lines.  A line is its number *)
(* in the container's log.  Left out: the acknowledgements nobody asks     *)
(* for, and the containers' own properties.                                *)
(***************************************************************************)
EXTENDS Naturals, FiniteSets, Sequences, SequencesExt

CONSTANTS
  Sockets,      \* the browsers' connections, each used once
  Containers,
  Forwarders,   \* the ids of the agent's forwarding goroutines
  Keep,         \* lines kept by the DO, and asked of Docker: 1000 in the code
  MaxLine,      \* bound on the lines a container writes
  MaxQueue,     \* bound on the messages on their way to the DO
  Drops,        \* bound on the times the agent's connection breaks
  Prompt        \* whether a cancelled forwarder has ended when its container is streamed anew

LogAssumption ==
  /\ Keep \in Nat \ {0} /\ MaxLine \in Nat /\ MaxQueue \in Nat /\ Drops \in Nat
  /\ Prompt \in BOOLEAN /\ "none" \notin Containers \cup Forwarders

VARIABLES
  written,     \* written[c]: how many lines container c has written
  link,        \* the agent's connection
  toAgent, toManager,   \* the messages on their way
  streams,     \* streams[c]: the forwarder registered for c in logStreams, or "none"
  forwarders,  \* forwarders[f]: what forwarder f is doing, or Ended
  sockets,     \* sockets[s]: where the connection of a browser stands
  subs,        \* subs[s]: the container s is subscribed to in the DO's storage, or "none"
  buffers,     \* buffers[c]: the DO's last lines of c
  shown,       \* shown[s]: the lines the browser has been given over s
  drops,       \* how often the connection has broken
  unserved,    \* the containers whose stream ended or was lost with nobody to start it anew
  unstopped    \* the containers whose last subscription went without the agent hearing of it

logVars == <<written, link, toAgent, toManager, streams, forwarders, sockets, subs, buffers,
             shown, drops, unserved, unstopped>>
agentVars == <<written, streams, forwarders>>
viewVars == <<sockets, subs, buffers, shown>>

Ended == [container |-> "none"]
Forwarder == {Ended} \cup
  [container : Containers, next : 1 .. MaxLine + 1, cancelled : BOOLEAN]
Lines == Seq(1 .. MaxLine)
ToManager == [op : {"line"}, container : Containers, line : 1 .. MaxLine]
             \cup [op : {"error"}, container : Containers]

\* A new connection's log.subscribe is on its way; a leaving one's log.unsubscribe and its
\* close are; a closing one's close is.
SocketStates == {"unused", "new", "on", "leaving", "closing", "closed"}

TypeOK ==
  /\ written \in [Containers -> 0 .. MaxLine]
  /\ link \in {"up", "down"}
  /\ toAgent \in Seq([op : {"start", "stop"}, container : Containers])
  /\ toManager \in Seq(ToManager)
  /\ streams \in [Containers -> Forwarders \cup {"none"}]
  /\ forwarders \in [Forwarders -> Forwarder]
  /\ sockets \in [Sockets -> SocketStates]
  /\ subs \in [Sockets -> Containers \cup {"none"}]
  /\ buffers \in [Containers -> {lines \in Lines : Len(lines) <= Keep}]
  /\ shown \in [Sockets -> Lines]
  /\ drops \in 0 .. Drops
  /\ unserved \subseteq Containers /\ unstopped \subseteq Containers

LogInit ==
  /\ written = [c \in Containers |-> 0]
  /\ link = "up"
  /\ toAgent = <<>> /\ toManager = <<>>
  /\ streams = [c \in Containers |-> "none"]
  /\ forwarders = [f \in Forwarders |-> Ended]
  /\ sockets = [s \in Sockets |-> "unused"]
  /\ subs = [s \in Sockets |-> "none"]
  /\ buffers = [c \in Containers |-> <<>>]
  /\ shown = [s \in Sockets |-> <<>>]
  /\ drops = 0 /\ unserved = {} /\ unstopped = {}

Ending(lines, n) == SubSeq(lines, Len(lines) - n + 1, Len(lines))

\* The circular buffer of the DO.
Newest(lines) == IF Len(lines) > Keep THEN Ending(lines, Keep) ELSE lines

-----------------------------------------------------------------------------
\* The agent

Write(c) ==
  /\ written[c] < MaxLine
  /\ written' = [written EXCEPT ![c] = @ + 1]
  /\ UNCHANGED <<link, toAgent, toManager, streams, forwarders, viewVars, drops, unserved, unstopped>>

Running(f) == forwarders[f] # Ended
Streamed(c) == \E f \in Forwarders : Running(f) /\ forwarders[f].container = c /\ ~forwarders[f].cancelled

\* What the agent writes reaches the DO, unless the connection is down.
Tell(message) ==
  toManager' = IF link = "up" THEN Append(toManager, message) ELSE toManager
Error(c) == [op |-> "error", container |-> c]

Asked(op, c) == toAgent # <<>> /\ Head(toAgent) = [op |-> op, container |-> c]

\* Docker gives the newest lines first, then follows.
StartForwarder(c, f) ==
  /\ ~Running(f)
  /\ forwarders' = [forwarders EXCEPT ![f] =
       [container |-> c, next |-> IF written[c] > Keep THEN written[c] - Keep + 1 ELSE 1,
        cancelled |-> FALSE]]
  /\ streams' = [streams EXCEPT ![c] = f]

HandleLogStreamStart(c) ==
  /\ Asked("start", c)
  /\ \/ /\ streams[c] # "none"
        /\ Tell(Error(c))
        /\ UNCHANGED <<streams, forwarders>>
     \/ /\ streams[c] = "none"
        /\ Prompt => \A f \in Forwarders : Running(f) => forwarders[f].container # c
        /\ \E f \in Forwarders : StartForwarder(c, f)
        /\ UNCHANGED toManager
  /\ toAgent' = Tail(toAgent)
  /\ unserved' = unserved \ {c}
  /\ UNCHANGED <<written, link, viewVars, drops, unstopped>>

HandleLogStreamStop(c) ==
  /\ Asked("stop", c)
  /\ \/ /\ streams[c] = "none"
        /\ Tell(Error(c))
        /\ UNCHANGED <<streams, forwarders>>
     \/ /\ streams[c] # "none"
        /\ forwarders' = [forwarders EXCEPT ![streams[c]].cancelled = TRUE]
        /\ streams' = [streams EXCEPT ![c] = "none"]
        /\ UNCHANGED toManager
  /\ toAgent' = Tail(toAgent)
  /\ UNCHANGED <<written, link, viewVars, drops, unserved, unstopped>>

\* A line goes to the DO, or into a connection that is not yet known to be broken; a
\* cancelled forwarder may take the line or the cancellation.
Forward(f) ==
  LET w == forwarders[f] IN
  /\ Running(f) /\ w.next <= written[w.container] /\ Len(toManager) < MaxQueue
  /\ Tell([op |-> "line", container |-> w.container, line |-> w.next])
  /\ forwarders' = [forwarders EXCEPT ![f].next = @ + 1]
  /\ UNCHANGED <<written, link, toAgent, streams, viewVars, drops, unserved, unstopped>>

\* The deferred delete takes the container off logStreams, whoever stands there by now.
EndForwarder(f) ==
  LET w == forwarders[f] IN
  /\ forwarders' = [forwarders EXCEPT ![f] = Ended]
  /\ streams' = [streams EXCEPT ![w.container] = "none"]
  /\ unserved' = IF w.cancelled THEN unserved ELSE unserved \cup {w.container}

\* A forwarder ends: its container's log has ended, Docker reports an error (of the
\* cancellation, for instance), it has been cancelled, or a line cannot be sent.
EndOfLog(f) ==
  /\ Running(f) /\ forwarders[f].next > written[forwarders[f].container]
  /\ EndForwarder(f)
  /\ UNCHANGED <<written, link, toAgent, toManager, viewVars, drops, unstopped>>
DockerError(f) ==
  /\ Running(f) /\ Len(toManager) < MaxQueue
  /\ Tell(Error(forwarders[f].container))
  /\ EndForwarder(f)
  /\ UNCHANGED <<written, link, toAgent, viewVars, drops, unstopped>>
Quit(f) ==
  /\ Running(f)
  /\ \/ forwarders[f].cancelled
     \/ link = "down" /\ forwarders[f].next <= written[forwarders[f].container]
  /\ EndForwarder(f)
  /\ UNCHANGED <<written, link, toAgent, toManager, viewVars, drops, unstopped>>

-----------------------------------------------------------------------------
\* The connection to the agent; cleanupOnDisconnect leaves logStreams alone

Drop ==
  LET Lost(op) == {c \in Containers : [op |-> op, container |-> c] \in ToSet(toAgent)} IN
  /\ link = "up" /\ drops < Drops
  /\ link' = "down" /\ drops' = drops + 1
  /\ toAgent' = <<>> /\ toManager' = <<>>
  /\ unserved' = unserved \cup Lost("start")
  /\ unstopped' = unstopped \cup Lost("stop")
  /\ UNCHANGED <<agentVars, viewVars>>

Reconnect ==
  /\ link = "down"
  /\ link' = "up"
  /\ UNCHANGED <<agentVars, toAgent, toManager, viewVars, drops, unserved, unstopped>>

\* The DO's memory goes; storage and connections stay.
Hibernate ==
  /\ buffers' = [c \in Containers |-> <<>>]
  /\ UNCHANGED <<agentVars, link, toAgent, toManager, sockets, subs, shown, drops, unserved, unstopped>>

-----------------------------------------------------------------------------
\* The DO and the browsers

Subscribers(table, c) == {s \in Sockets : table[s] = c}

Send(op, c) ==
  toAgent' = IF link = "up" THEN Append(toAgent, [op |-> op, container |-> c]) ELSE toAgent

Open(s) ==
  /\ sockets[s] = "unused"
  /\ sockets' = [sockets EXCEPT ![s] = "new"]
  /\ UNCHANGED <<agentVars, link, toAgent, toManager, subs, buffers, shown, drops, unserved, unstopped>>

Subscribed(s, c) ==
  /\ sockets[s] = "new"
  /\ sockets' = [sockets EXCEPT ![s] = "on"]
  /\ subs' = [subs EXCEPT ![s] = c]
  /\ shown' = [shown EXCEPT ![s] = buffers[c]]

\* Mutant: the subscribers are counted before the new one is stored.
HandleLogSubscribeEarly(s, c) ==
  LET first == Cardinality(Subscribers(subs, c)) = 1 IN
  /\ Subscribed(s, c)
  /\ IF first THEN Send("start", c) ELSE UNCHANGED toAgent
  /\ unserved' = IF first /\ link = "down" THEN unserved \cup {c} ELSE unserved
  /\ unstopped' = unstopped \ {c}
  /\ UNCHANGED <<agentVars, link, toManager, buffers, drops>>

\* The lines kept are sent, and the stream is asked for when this is the only subscriber;
\* without an agent that one is told so, and later ones are not.
HandleLogSubscribe(s, c) ==
  LET first == Subscribers(subs', c) = {s} IN
  /\ Subscribed(s, c)
  /\ IF first THEN Send("start", c) ELSE UNCHANGED toAgent
  /\ unserved' = IF first /\ link = "down" THEN unserved \cup {c} ELSE unserved
  /\ unstopped' = unstopped \ {c}
  /\ UNCHANGED <<agentVars, link, toManager, buffers, drops>>

\* What an unsubscription and a close have in common.
Unsubscribe(s) ==
  LET c == subs[s] IN
  /\ subs' = [subs EXCEPT ![s] = "none"]
  /\ IF c # "none" /\ Subscribers(subs', c) = {}
     THEN /\ Send("stop", c)
          /\ unstopped' = IF link = "down" THEN unstopped \cup {c} ELSE unstopped
     ELSE UNCHANGED <<toAgent, unstopped>>

Leave(s) ==
  /\ sockets[s] = "on"
  /\ sockets' = [sockets EXCEPT ![s] = "leaving"]
  /\ UNCHANGED <<agentVars, link, toAgent, toManager, subs, buffers, shown, drops, unserved, unstopped>>

Vanish(s) ==
  /\ sockets[s] \in {"new", "on"}
  /\ sockets' = [sockets EXCEPT ![s] = "closing"]
  /\ UNCHANGED <<agentVars, link, toAgent, toManager, subs, buffers, shown, drops, unserved, unstopped>>

HandleLogUnsubscribe(s) ==
  /\ sockets[s] = "leaving"
  /\ sockets' = [sockets EXCEPT ![s] = "closing"]
  /\ Unsubscribe(s)
  /\ UNCHANGED <<agentVars, link, toManager, buffers, shown, drops, unserved>>

HandleUIClose(s) ==
  /\ sockets[s] = "closing"
  /\ sockets' = [sockets EXCEPT ![s] = "closed"]
  /\ Unsubscribe(s)
  /\ UNCHANGED <<agentVars, link, toManager, buffers, shown, drops, unserved>>

\* A message to a browser that has vanished may be refused, and its subscription goes with
\* nothing said to the agent.
Broadcast(c) ==
  \E dead \in SUBSET {s \in Subscribers(subs, c) : sockets[s] = "closing"} :
    /\ subs' = [s \in Sockets |-> IF s \in dead THEN "none" ELSE subs[s]]
    /\ unstopped' = IF dead # {} /\ Subscribers(subs', c) = {} THEN unstopped \cup {c} ELSE unstopped

HandleLogLine(message) ==
  LET c == message.container IN
  /\ buffers' = [buffers EXCEPT ![c] = Newest(Append(@, message.line))]
  /\ Broadcast(c)
  /\ shown' = [s \in Sockets |-> IF subs[s] = c /\ sockets[s] = "on"
                                 THEN Append(shown[s], message.line) ELSE shown[s]]

HandleLogStreamError(message) ==
  /\ Broadcast(message.container)
  /\ UNCHANGED <<buffers, shown>>

HandleAgentMessage ==
  LET message == Head(toManager) IN
  /\ toManager # <<>>
  /\ toManager' = Tail(toManager)
  /\ \/ message.op = "line" /\ HandleLogLine(message)
     \/ message.op = "error" /\ HandleLogStreamError(message)
  /\ UNCHANGED <<agentVars, link, toAgent, sockets, drops, unserved>>

AgentStep ==
  \/ \E c \in Containers : Write(c) \/ HandleLogStreamStart(c) \/ HandleLogStreamStop(c)
  \/ \E f \in Forwarders : Forward(f) \/ EndOfLog(f) \/ DockerError(f) \/ Quit(f)

ViewStep ==
  \/ \E s \in Sockets :
       \/ Open(s) \/ Leave(s) \/ Vanish(s) \/ HandleLogUnsubscribe(s) \/ HandleUIClose(s)
       \/ \E c \in Containers : HandleLogSubscribe(s, c)
  \/ HandleAgentMessage

LogNext == AgentStep \/ ViewStep \/ Drop \/ Reconnect \/ Hibernate

LogSpec == LogInit /\ [][LogNext]_logVars

-----------------------------------------------------------------------------
\* Properties

\* Whoever watches a container gets its lines: with nothing on its way to the agent, a
\* container with a subscriber is being streamed, unless its stream has ended or was lost
\* since it was last asked for.
Served ==
  link = "up" /\ toAgent = <<>> =>
    \A c \in Containers \ unserved : Subscribers(subs, c) # {} => Streamed(c)

\* Nothing is streamed for nobody: with nothing on its way to the agent, a container that
\* is streamed has a subscriber, unless its last one went without the agent hearing of it.
Wanted ==
  link = "up" /\ toAgent = <<>> =>
    \A c \in Containers \ unstopped : Streamed(c) => Subscribers(subs, c) # {}

\* A stream that is not cancelled can be: it is the one that logStreams holds.  So no
\* container is streamed twice and no line is sent twice by two forwarders.
Cancellable ==
  \A f \in Forwarders :
    Running(f) /\ ~forwarders[f].cancelled => streams[forwarders[f].container] = f

\* A browser shows what a newcomer would be shown, and more where one of them began later
\* (the DO has forgotten, or has more than it shows): the shorter of the two is the end of
\* the longer.
ViewsAgree ==
  \A s \in Sockets : sockets[s] = "on" =>
    LET kept == buffers[subs[s]]
        n == IF Len(kept) < Len(shown[s]) THEN Len(kept) ELSE Len(shown[s])
    IN Ending(kept, n) = Ending(shown[s], n)
=============================================================================
