------------------------ MODULE RconSessions_proofs ------------------------
(***************************************************************************)
(* What holds of RconSessions for any sets of servers, sessions, terminals *)
(* and one-shot commands, and any number of faults: the types; that the    *)
(* sweep spares what a command uses; that the audit log says what has been *)
(* carried out; and that one-shot commands leave no session.               *)
(***************************************************************************)
EXTENDS RconSessions, SequenceTheorems, TLAPS

-----------------------------------------------------------------------------
(* The inductive invariant                                                 *)

Elems(queue) == {queue[n] : n \in 1 .. Len(queue)}

\* An id that has been given out is never drawn again.
Drawn ==
  /\ \A s \in Sessions : Live(s) => s \in drawn
  /\ \A q \in Elems(toAgent) : q.op # "connect" => q.session \in drawn
  /\ \A a \in Elems(toManager) : a.ok => a.session \in drawn
  /\ busy # Free => busy.session \in drawn
  /\ \A t \in Terminals : terminals[t].session # "none" => terminals[t].session \in drawn
  /\ \A k \in Shots : /\ shots[k].session # "none" => shots[k].session \in drawn
                      /\ shots[k].at = "command" => shots[k].session # "none"

\* What is used has been idle for a minute at most, for a command takes less than two.
Spared ==
  /\ busy.at = "found" => ~busy.ticked
  /\ busy.at = "using" /\ busy.held =>
       /\ Live(busy.session)
       /\ sessions[busy.session].idle <= IF busy.ticked THEN 1 ELSE 0

\* The DO remembers the session, or has forgotten it.
Known(s) == rconSessions[s] # "none" \/ s \in forgotten

\* A session that a terminal has, and a command of it will find, is one the DO knows, of the
\* terminal's server.
Kept(s, server) == Live(s) => Known(s) /\ sessions[s].server = server

\* What goes to and fro about a request is what was requested.
AskedFor(q) == q.from \in Requests =>
  /\ q.op = requests[q.from].op
  /\ q.op = "connect" => q.server = requests[q.from].server
  /\ q.op # "connect" => q.session = requests[q.from].session
AnsweredFor(a) == a.from \in Requests =>
  /\ a.op = requests[a.from].op
  /\ a.op # "connect" => a.session = requests[a.from].session
WorkedFor(b) == b # Free /\ b.from \in Requests =>
  requests[b.from].op = "command" /\ requests[b.from].session = b.session

Agreed ==
  /\ \A q \in Elems(toAgent) : AskedFor(q)
  /\ WorkedFor(busy)
  /\ \A a \in Elems(toManager) : AnsweredFor(a)
  /\ \A r \in Requests : requests[r].op = "connect" =>
       requests[r].server = terminals[requests[r].by].server

\* A new session is for the terminal's server, and what was carried out has run there.
AnswerKept(a) ==
  /\ a.op = "connect" /\ a.ok /\ a.from \in Requests /\ Live(a.session) =>
       sessions[a.session].server = requests[a.from].server
  /\ a.op = "command" /\ a.ok /\ a.from \in Requests =>
       Known(a.session) /\ ran[a.from] = requests[a.from].server

\* A session is known from the answer to its connection to the one to its disconnection, so
\* a command it will carry out, or has carried out, finds it known.
Remembering ==
  /\ \A t \in Terminals : terminals[t].session # "none" =>
       Kept(terminals[t].session, terminals[t].server)
  /\ \A q \in Elems(toAgent) : q.op = "command" /\ q.from \in Requests =>
       Kept(q.session, requests[q.from].server)
  /\ busy # Free /\ busy.from \in Requests => Kept(busy.session, requests[busy.from].server)
  /\ \A a \in Elems(toManager) : AnswerKept(a)

\* Nothing is carried out on a session after its disconnection.
Last ==
  \A m \in 1 .. Len(toManager) : toManager[m].op = "disconnect" /\ toManager[m].ok =>
    /\ toManager[m].session \in drawn /\ ~Live(toManager[m].session)
    /\ \A n \in m + 1 .. Len(toManager) :
         toManager[n].op = "command" /\ toManager[n].ok => toManager[n].session # toManager[m].session

\* A command that was answered well has run where its row says, or will say.
Recorded ==
  \A r \in Requests :
    LET q == requests[r] IN
    /\ q.op \in {"command", "disconnect"} => q.session # "none"
    /\ q.at = "asked" => ~q.ok
    /\ q.at = "auditing" => q.op = "command" /\ q.ok
    /\ q.op = "command" /\ q.at # "asked" /\ q.ok =>
         /\ ran[r] = q.server
         /\ q.at = "done" /\ q.session \notin forgotten => audit[r] = q.server

\* The disconnection that a one-shot command owes is on its way.
Tidied ==
  \A k \in Shots :
    /\ shots[k].at \in {"new", "connect"} => shots[k].session = "none"
    /\ shots[k].at = "done" /\ shots[k].session # "none" /\ Live(shots[k].session) =>
         \E q \in Elems(toAgent) : q.op = "disconnect" /\ q.session = shots[k].session

RconInv == TypeOK /\ Drawn /\ Spared /\ Agreed /\ Remembering /\ Last /\ Recorded /\ Tidied

-----------------------------------------------------------------------------
(* Queues                                                                  *)

LEMMA Appended ==
  ASSUME NEW S, NEW queue \in Seq(S), NEW e \in S
  PROVE  /\ Append(queue, e) \in Seq(S)
         /\ Elems(Append(queue, e)) = Elems(queue) \cup {e}
<1>1. /\ Append(queue, e) \in Seq(S) /\ Len(Append(queue, e)) = Len(queue) + 1 /\ Len(queue) \in Nat
      /\ \A n \in 1 .. Len(queue) : Append(queue, e)[n] = queue[n]
      /\ Append(queue, e)[Len(queue) + 1] = e
  BY AppendProperties, LenProperties
<1>2. 1 .. Len(queue) + 1 = (1 .. Len(queue)) \cup {Len(queue) + 1}
  BY <1>1
<1> QED BY <1>1, <1>2 DEF Elems

LEMMA Headless ==
  ASSUME NEW S, NEW queue \in Seq(S), queue # <<>>
  PROVE  /\ Tail(queue) \in Seq(S) /\ Head(queue) \in S /\ Head(queue) = queue[1]
         /\ Elems(queue) = Elems(Tail(queue)) \cup {Head(queue)}
<1>1. /\ Tail(queue) \in Seq(S) /\ Head(queue) \in S /\ Len(Tail(queue)) = Len(queue) - 1
      /\ \A n \in 1 .. Len(Tail(queue)) : Tail(queue)[n] = queue[n + 1]
      /\ Len(queue) \in Nat \ {0} /\ Head(queue) = queue[1]
  BY HeadTailProperties, EmptySeq
<1>2. Elems(Tail(queue)) \cup {Head(queue)} \subseteq Elems(queue)
  BY <1>1 DEF Elems
<1>3. ASSUME NEW n \in 1 .. Len(queue)
      PROVE  queue[n] \in Elems(Tail(queue)) \cup {Head(queue)}
  <2>1. CASE n = 1
    BY <1>1, <2>1
  <2>2. CASE n # 1
    <3>1. n - 1 \in 1 .. Len(Tail(queue)) /\ Tail(queue)[n - 1] = queue[n]
      BY <1>1, <2>2
    <3> QED BY <3>1 DEF Elems
  <2> QED BY <2>1, <2>2
<1> QED BY <1>1, <1>2, <1>3 DEF Elems

LEMMA Emptied == Elems(<<>>) = {}
BY DEF Elems

LEMMA ElemsTyped ==
  ASSUME NEW S, NEW queue \in Seq(S)
  PROVE  Elems(queue) \subseteq S /\ Len(queue) \in Nat
BY ElementOfSeq, LenProperties DEF Elems

-----------------------------------------------------------------------------
(* What the steps do, with the queues as the sets of what is in them       *)

Working == [at : {"found", "using"}, session : Sessions, from : Askers, held : BOOLEAN, ticked : BOOLEAN]
Open == [server : Servers, idle : 0 .. Idle + 1]
Kinds == {"connect", "command", "disconnect"}

Found(s, from) == [at |-> "found", session |-> s, from |-> from, held |-> FALSE, ticked |-> FALSE]

LEMMA FoundIs ==
  ASSUME NEW s, NEW from
  PROVE  /\ Found(s, from).at = "found" /\ Found(s, from).session = s /\ Found(s, from).from = from
         /\ ~Found(s, from).ticked /\ Found(s, from) # Free
         /\ s \in Sessions /\ from \in Askers => Found(s, from) \in Working
BY DEF Found, Free, Working

Reply(op, from, ok, s) == [op |-> op, from |-> from, ok |-> ok, session |-> s]

\* The answer a is given, or nobody waits for it.
Said(a) ==
  /\ toManager' \in Seq(Answer)
  /\ \/ toManager' = toManager
     \/ toManager' = Append(toManager, a) /\ Elems(toManager') = Elems(toManager) \cup {a}

LEMMA SaidNew ==
  ASSUME NEW op, NEW from, NEW ok, NEW s, Said(Reply(op, from, ok, s))
  PROVE  \A a \in Elems(toManager') : \/ a \in Elems(toManager)
                                      \/ a.op = op /\ a.from = from /\ a.ok = ok /\ a.session = s
BY DEF Said, Reply

LEMMA SaidNo ==
  ASSUME NEW op, NEW from, NEW s, Said(Reply(op, from, FALSE, s))
  PROVE  \A a \in Elems(toManager') : a \in Elems(toManager) \/ (a.op = op /\ ~a.ok)
BY DEF Said, Reply

\* The question q is taken.
Took(q) ==
  /\ toAgent # <<>> /\ q = Head(toAgent) /\ q \in Question
  /\ toAgent' \in Seq(Question) /\ Elems(toAgent) = Elems(toAgent') \cup {q}

LEMMA TellSays ==
  ASSUME TypeOK, NEW op \in Kinds, NEW from \in Askers, NEW ok \in BOOLEAN, NEW s \in Sessions \cup {"none"},
         NEW q, q.op = op, q.from = from, Tell(q, ok, s)
  PROVE  Said(Reply(op, from, ok, s))
<1>1. Reply(op, from, ok, s) \in Answer /\ toManager \in Seq(Answer)
  BY DEF Answer, TypeOK, Kinds, Reply
<1> HIDE DEF Reply
<1>2. \/ toManager' = toManager
      \/ toManager' = Append(toManager, Reply(op, from, ok, s))
  BY DEF Tell, Reply
<1>3. Append(toManager, Reply(op, from, ok, s)) \in Seq(Answer)
      /\ Elems(Append(toManager, Reply(op, from, ok, s))) = Elems(toManager) \cup {Reply(op, from, ok, s)}
  BY <1>1, Appended
<1> QED BY <1>1, <1>2, <1>3 DEF Said

LEMMA TakesTakes ==
  ASSUME TypeOK, NEW op, Takes(op)
  PROVE  busy = Free /\ Took(Head(toAgent)) /\ Head(toAgent).op = op
<1>1. toAgent \in Seq(Question) /\ toAgent # <<>>
  BY DEF TypeOK, Takes
<1> QED BY <1>1, Headless DEF Takes, Took

LEMMA Questions ==
  ASSUME NEW q \in Question
  PROVE  /\ q.from \in Askers /\ q.op \in Kinds
         /\ q.op = "connect" => q.server \in Servers
         /\ q.op # "connect" => q.session \in Sessions
BY DEF Question, Kinds

\* The question q is asked.
Asked(q) ==
  q \in Question /\ toAgent' \in Seq(Question) /\ Elems(toAgent') = Elems(toAgent) \cup {q}

LEMMA AskAsks ==
  ASSUME TypeOK, NEW q \in Question, Ask(q)
  PROVE  Asked(q)
BY Appended DEF TypeOK, Ask, Asked

LEMMA ConnectDoes ==
  ASSUME TypeOK, Connect
  PROVE  /\ busy = Free
         /\ UNCHANGED <<busy, ran, terminals, requests, shots, rconSessions, audit, faults, forgotten>>
         /\ \E q \in Question :
              /\ Took(q) /\ q.op = "connect"
              /\ \/ \E s \in Sessions \ drawn :
                      /\ sessions' = [sessions EXCEPT ![s] = [server |-> q.server, idle |-> 0]]
                      /\ drawn' = drawn \cup {s}
                      /\ Said(Reply("connect", q.from, TRUE, s))
                 \/ Said(Reply("connect", q.from, FALSE, "none")) /\ UNCHANGED <<sessions, drawn>>
<1> DEFINE q == Head(toAgent)
<1>1. busy = Free /\ Took(q) /\ q.op = "connect" /\ q \in Question /\ q.from \in Askers
  BY TakesTakes, Questions DEF Connect, Took
<1>2. ASSUME NEW s \in Sessions \ drawn, Tell(q, TRUE, s)
      PROVE  Said(Reply("connect", q.from, TRUE, s))
  BY <1>1, <1>2, TellSays DEF Kinds
<1>3. ASSUME Tell(q, FALSE, "none")
      PROVE  Said(Reply("connect", q.from, FALSE, "none"))
  BY <1>1, <1>3, TellSays DEF Kinds
<1>4. \/ \E s \in Sessions \ drawn :
           /\ sessions' = [sessions EXCEPT ![s] = [server |-> q.server, idle |-> 0]]
           /\ drawn' = drawn \cup {s}
           /\ Tell(q, TRUE, s)
      \/ Tell(q, FALSE, "none") /\ UNCHANGED <<sessions, drawn>>
  BY DEF Connect
<1>5. UNCHANGED <<busy, ran, terminals, requests, shots, rconSessions, audit, faults, forgotten>>
  BY DEF Connect, askVars
<1> HIDE DEF q
<1> QED BY <1>1, <1>2, <1>3, <1>4, <1>5

LEMMA FindDoes ==
  ASSUME TypeOK, Find
  PROVE  /\ busy = Free
         /\ UNCHANGED <<sessions, drawn, ran, terminals, requests, shots, rconSessions, audit, faults, forgotten>>
         /\ \E q \in Question :
              /\ Took(q) /\ q.op = "command" /\ q.session \in Sessions /\ q.from \in Askers
              /\ \/ /\ Live(q.session) /\ UNCHANGED toManager
                    /\ busy' = Found(q.session, q.from)
                 \/ /\ ~Live(q.session) /\ UNCHANGED busy
                    /\ Said(Reply("command", q.from, FALSE, q.session))
<1> DEFINE q == Head(toAgent)
<1>1. busy = Free /\ Took(q) /\ q.op = "command" /\ q \in Question /\ q.from \in Askers /\ q.session \in Sessions
  BY TakesTakes, Questions DEF Find, Took
<1>2. ASSUME Tell(q, FALSE, q.session)
      PROVE  Said(Reply("command", q.from, FALSE, q.session))
  BY <1>1, <1>2, TellSays DEF Kinds
<1>3. \/ /\ Live(q.session) /\ UNCHANGED toManager
         /\ busy' = Found(q.session, q.from)
      \/ ~Live(q.session) /\ UNCHANGED busy /\ Tell(q, FALSE, q.session)
  BY DEF Find, Found
<1>4. UNCHANGED <<sessions, drawn, ran, terminals, requests, shots, rconSessions, audit, faults, forgotten>>
  BY DEF Find, askVars
<1> HIDE DEF q
<1> QED BY <1>1, <1>2, <1>3, <1>4

LEMMA TouchDoes ==
  ASSUME TypeOK, Touch
  PROVE  /\ busy \in Working /\ busy.at = "found"
         /\ UNCHANGED <<drawn, ran, toAgent, toManager, terminals, requests, shots, rconSessions, audit, faults, forgotten>>
         /\ busy' = [busy EXCEPT !.at = "using", !.held = Live(busy.session)]
         /\ sessions' = IF Live(busy.session) THEN [sessions EXCEPT ![busy.session].idle = 0] ELSE sessions
<1>1. busy \in Working
  BY DEF TypeOK, Touch, Free, Working
<1> QED BY <1>1 DEF Touch, askVars

LEMMA ExecuteDoes ==
  ASSUME TypeOK, Execute
  PROVE  /\ busy \in Working /\ busy.at = "using" /\ busy' = Free
         /\ UNCHANGED <<sessions, drawn, toAgent, terminals, requests, shots, rconSessions, audit, faults, forgotten>>
         /\ \/ /\ Live(busy.session) /\ \E ok \in BOOLEAN : Said(Reply("command", busy.from, ok, busy.session))
               /\ ran' = IF busy.from \in Requests
                         THEN [ran EXCEPT ![busy.from] = sessions[busy.session].server] ELSE ran
            \/ UNCHANGED ran /\ Said(Reply("command", busy.from, FALSE, busy.session))
<1> DEFINE q == [op |-> "command", from |-> busy.from]
<1>1. busy \in Working /\ busy.from \in Askers /\ busy.session \in Sessions
  BY DEF TypeOK, Execute, Free, Working
<1>2. ASSUME NEW ok \in BOOLEAN, Tell(q, ok, busy.session)
      PROVE  Said(Reply("command", busy.from, ok, busy.session))
  <2>1. q.op = "command" /\ q.from = busy.from
    OBVIOUS
  <2> HIDE DEF q
  <2> QED BY <1>1, <1>2, <2>1, TellSays DEF Kinds
<1>3. \/ /\ Live(busy.session) /\ \E ok \in BOOLEAN : Tell(q, ok, busy.session)
         /\ ran' = IF busy.from \in Requests
                   THEN [ran EXCEPT ![busy.from] = sessions[busy.session].server] ELSE ran
      \/ UNCHANGED ran /\ Tell(q, FALSE, busy.session)
  BY DEF Execute
<1>4. /\ UNCHANGED <<sessions, drawn, toAgent, terminals, requests, shots, rconSessions, audit, faults, forgotten>>
      /\ busy.at = "using" /\ busy' = Free
  BY DEF Execute, askVars
<1> HIDE DEF q
<1> QED BY <1>1, <1>2, <1>3, <1>4

LEMMA DisconnectDoes ==
  ASSUME TypeOK, Disconnect
  PROVE  /\ busy = Free
         /\ UNCHANGED <<drawn, busy, ran, terminals, requests, shots, rconSessions, audit, faults, forgotten>>
         /\ \E q \in Question :
              /\ Took(q) /\ q.op = "disconnect" /\ q.session \in Sessions
              /\ sessions' = [sessions EXCEPT ![q.session] = Gone]
              /\ \E ok \in BOOLEAN : Said(Reply("disconnect", q.from, ok, q.session))
<1> DEFINE q == Head(toAgent)
<1>1. busy = Free /\ Took(q) /\ q.op = "disconnect" /\ q \in Question /\ q.from \in Askers /\ q.session \in Sessions
  BY TakesTakes, Questions DEF Disconnect, Took
<1>2. ASSUME NEW ok \in BOOLEAN, Tell(q, ok, q.session)
      PROVE  Said(Reply("disconnect", q.from, ok, q.session))
  BY <1>1, <1>2, TellSays DEF Kinds
<1>3. /\ Tell(q, Live(q.session), q.session) /\ Live(q.session) \in BOOLEAN
      /\ sessions' = [sessions EXCEPT ![q.session] = Gone]
  BY DEF Disconnect, Live
<1>4. UNCHANGED <<drawn, busy, ran, terminals, requests, shots, rconSessions, audit, faults, forgotten>>
  BY DEF Disconnect, askVars
<1> HIDE DEF q
<1> QED BY <1>1, <1>2, <1>3, <1>4

Connecting(t, r) ==
  [op |-> "connect", by |-> t, session |-> "none", server |-> terminals[t].server, at |-> "asked", ok |-> FALSE]
Relaying(t, r, op) ==
  [op |-> op, by |-> t, session |-> terminals[t].session, server |-> terminals[t].server,
   at |-> "asked", ok |-> FALSE]

LEMMA MountDoes ==
  ASSUME TypeOK, NEW t \in Terminals, NEW r \in Requests, Mount(t, r)
  PROVE  /\ terminals[t].at = "off" /\ requests[r] = NoRequest
         /\ terminals' = [terminals EXCEPT ![t].at = "open"]
         /\ requests' = [requests EXCEPT ![r] = Connecting(t, r)]
         /\ Asked([op |-> "connect", server |-> terminals[t].server, from |-> r])
         /\ UNCHANGED <<sessions, drawn, busy, ran, toManager, shots, rconSessions, audit, faults, forgotten>>
<1>1. terminals[t].server \in Servers /\ r \in Askers
  BY DEF TypeOK, Askers
<1>2. [op |-> "connect", server |-> terminals[t].server, from |-> r] \in Question
  BY <1>1 DEF Question
<1>3. Ask([op |-> "connect", server |-> terminals[t].server, from |-> r])
  BY DEF Mount
<1>4. Asked([op |-> "connect", server |-> terminals[t].server, from |-> r])
  BY <1>2, <1>3, AskAsks
<1> QED BY <1>4 DEF Mount, agentVars, Connecting

LEMMA RelayDoes ==
  ASSUME TypeOK, NEW t \in Terminals, NEW r \in Requests, NEW op \in {"command", "disconnect"}, Relay(t, r, op)
  PROVE  /\ terminals[t].at = "open" /\ requests[r] = NoRequest
         /\ terminals[t].session # "none" /\ terminals[t].session \in Sessions
         /\ requests' = [requests EXCEPT ![r] = Relaying(t, r, op)]
         /\ Asked([op |-> op, session |-> terminals[t].session, from |-> r])
<1>1. terminals[t].session \in Sessions /\ r \in Askers
  BY DEF TypeOK, Askers, Relay
<1>2. [op |-> op, session |-> terminals[t].session, from |-> r] \in Question
  BY <1>1 DEF Question
<1>3. Ask([op |-> op, session |-> terminals[t].session, from |-> r])
  BY DEF Relay
<1>4. Asked([op |-> op, session |-> terminals[t].session, from |-> r])
  BY <1>2, <1>3, AskAsks
<1> QED BY <1>1, <1>4 DEF Relay, Relaying

\* A session is closed for nobody who waits.
Parting(k) == [op |-> "disconnect", session |-> shots[k].session, from |-> "nobody"]

LEMMA EndsDoes ==
  ASSUME TypeOK, Drawn, NEW k \in Shots, shots[k].at = "command", ShotEnds(k)
  PROVE  /\ shots[k].session \in Sessions
         /\ shots' = [shots EXCEPT ![k].at = "done"]
         /\ Asked(Parting(k))
<1>1. shots[k].session \in Sessions
  BY DEF TypeOK, Drawn
<1>2. Parting(k) \in Question
  BY <1>1 DEF Question, Parting, Askers
<1> HIDE DEF Parting
<1>3. Ask(Parting(k))
  BY DEF ShotEnds, Parting
<1> QED BY <1>1, <1>2, <1>3, AskAsks DEF ShotEnds

LEMMA OneShotDoes ==
  ASSUME TypeOK, NEW k \in Shots, OneShot(k)
  PROVE  /\ shots[k].at = "new" /\ shots' = [shots EXCEPT ![k].at = "connect"]
         /\ \E server \in Servers : Asked([op |-> "connect", server |-> server, from |-> k])
         /\ UNCHANGED <<sessions, drawn, busy, ran, toManager, terminals, requests, rconSessions, audit, faults, forgotten>>
<1>1. ASSUME NEW server \in Servers, Ask([op |-> "connect", server |-> server, from |-> k])
      PROVE  Asked([op |-> "connect", server |-> server, from |-> k])
  <2>1. [op |-> "connect", server |-> server, from |-> k] \in Question
    BY DEF Question, Askers
  <2> QED BY <1>1, <2>1, AskAsks
<1> QED BY <1>1 DEF OneShot, agentVars

\* The answer a is read.
Heard(a) ==
  /\ toManager # <<>> /\ a = Head(toManager) /\ a \in Answer /\ a = toManager[1]
  /\ toManager' = Tail(toManager) /\ toManager' \in Seq(Answer)
  /\ Elems(toManager) = Elems(toManager') \cup {a}

LEMMA HeardDoes ==
  ASSUME TypeOK, toManager # <<>>, toManager' = Tail(toManager)
  PROVE  Heard(Head(toManager))
BY Headless DEF TypeOK, Heard

\* A shot goes on to its command, ends, or lets an answer be.
LEMMA ShotReplyDoes ==
  ASSUME TypeOK, Drawn, ShotReply
  PROVE  /\ UNCHANGED <<sessions, drawn, busy, ran, terminals, requests, rconSessions, audit, faults, forgotten>>
         /\ \E a \in Answer :
              /\ Heard(a) /\ a.from \in Shots
              /\ \/ /\ shots[a.from].at = "connect" /\ a.op = "connect" /\ a.ok
                    /\ a.session \in Sessions /\ a.session \in drawn
                    /\ shots' = [shots EXCEPT ![a.from] = [at |-> "command", session |-> a.session]]
                    /\ Asked([op |-> "command", session |-> a.session, from |-> a.from])
                 \/ /\ shots[a.from].at = "connect" /\ shots' = [shots EXCEPT ![a.from].at = "done"]
                    /\ UNCHANGED toAgent
                 \/ /\ shots[a.from].at = "command" /\ shots[a.from].session \in Sessions
                    /\ shots' = [shots EXCEPT ![a.from].at = "done"]
                    /\ Asked(Parting(a.from))
                 \/ UNCHANGED <<shots, toAgent>>
<1> DEFINE a == Head(toManager)
<1>1. Heard(a) /\ a \in Answer /\ a.from \in Shots /\ a \in Elems(toManager)
  <2>1. Heard(a)
    BY HeardDoes DEF ShotReply
  <2> QED BY <2>1 DEF Heard, ShotReply
<1>2. /\ UNCHANGED <<sessions, drawn, busy, ran, terminals, requests, rconSessions, audit, faults, forgotten>>
      /\ \/ /\ shots[a.from].at = "connect" /\ a.op = "connect" /\ a.ok
            /\ shots' = [shots EXCEPT ![a.from] = [at |-> "command", session |-> a.session]]
            /\ Ask([op |-> "command", session |-> a.session, from |-> a.from])
         \/ /\ shots[a.from].at = "connect" /\ shots' = [shots EXCEPT ![a.from].at = "done"]
            /\ UNCHANGED toAgent
         \/ shots[a.from].at = "command" /\ ShotEnds(a.from)
         \/ UNCHANGED <<shots, toAgent>>
  BY DEF ShotReply, agentVars
<1> HIDE DEF a
<1>3. CASE /\ shots[a.from].at = "connect" /\ a.op = "connect" /\ a.ok
           /\ shots' = [shots EXCEPT ![a.from] = [at |-> "command", session |-> a.session]]
           /\ Ask([op |-> "command", session |-> a.session, from |-> a.from])
  <2>1. a.session \in drawn /\ a.session \in Sessions
    BY <1>1, <1>3 DEF Drawn, TypeOK
  <2>2. [op |-> "command", session |-> a.session, from |-> a.from] \in Question
    BY <1>1, <2>1 DEF Question, Askers
  <2>3. Asked([op |-> "command", session |-> a.session, from |-> a.from])
    BY <1>3, <2>2, AskAsks
  <2> QED BY <1>1, <1>2, <1>3, <2>1, <2>3
<1>4. CASE shots[a.from].at = "command" /\ ShotEnds(a.from)
  BY <1>1, <1>2, <1>4, EndsDoes
<1> QED BY <1>1, <1>2, <1>3, <1>4

\* A request is answered, or the answer comes too late.
LEMMA InboxDoes ==
  ASSUME TypeOK, HandleInboxReply
  PROVE  /\ UNCHANGED <<sessions, drawn, busy, ran, toAgent, shots, audit, faults, forgotten>>
         /\ \E a \in Answer :
              /\ Heard(a) /\ a.from \in Requests
              /\ \/ requests[a.from].at = "asked" /\ Answered(a.from, a)
                 \/ UNCHANGED <<requests, terminals, rconSessions>>
<1> DEFINE a == Head(toManager)
<1>1. Heard(a) /\ a \in Answer
  <2>1. Heard(a)
    BY HeardDoes DEF HandleInboxReply
  <2> QED BY <2>1 DEF Heard
<1>2. /\ UNCHANGED <<sessions, drawn, busy, ran, toAgent, shots, audit, faults, forgotten>>
      /\ a.from \in Requests
      /\ \/ requests[a.from].at = "asked" /\ Answered(a.from, a)
         \/ UNCHANGED <<requests, terminals, rconSessions>>
  BY DEF HandleInboxReply, agentVars, Expected
<1> HIDE DEF a
<1> QED BY <1>1, <1>2

-----------------------------------------------------------------------------
(* The types                                                               *)

Made == [op : Kinds, by : Terminals, session : Sessions \cup {"none"},
         server : Servers, at : {"asked", "auditing", "done"}, ok : BOOLEAN]
Console == [at : {"off", "open", "left"}, server : Servers, session : Sessions \cup {"none"}]
Shot == [at : {"new", "connect", "command", "done", "lost"}, session : Sessions \cup {"none"}]

LEMMA Types ==
  TypeOK <=>
  /\ sessions \in [Sessions -> {Gone} \cup Open] /\ drawn \subseteq Sessions
  /\ busy \in {Free} \cup Working
  /\ toAgent \in Seq(Question) /\ toManager \in Seq(Answer)
  /\ terminals \in [Terminals -> Console]
  /\ requests \in [Requests -> {NoRequest} \cup Made]
  /\ shots \in [Shots -> Shot]
  /\ rconSessions \in [Sessions -> Servers \cup {"none"}]
  /\ audit \in [Requests -> Servers \cup {"none"}] /\ ran \in [Requests -> Servers \cup {"none"}]
  /\ faults \in 0 .. Faults /\ forgotten \subseteq Sessions
BY DEF TypeOK, Open, Working, Console, Request, Made, Shot, Kinds

LEMMA AgentTyped ==
  ASSUME RconAssumption, TypeOK, AgentStep \/ Minute
  PROVE  TypeOK'
<1> USE DEF RconAssumption
<1>0. /\ sessions \in [Sessions -> {Gone} \cup Open] /\ busy \in {Free} \cup Working /\ drawn \subseteq Sessions
      /\ toAgent \in Seq(Question) /\ toManager \in Seq(Answer)
      /\ ran \in [Requests -> Servers \cup {"none"}]
  BY Types
<1>1. SUFFICES
        /\ sessions' \in [Sessions -> {Gone} \cup Open] /\ drawn' \subseteq Sessions
        /\ busy' \in {Free} \cup Working
        /\ toAgent' \in Seq(Question) /\ toManager' \in Seq(Answer)
        /\ ran' \in [Requests -> Servers \cup {"none"}]
        /\ UNCHANGED <<terminals, requests, shots, rconSessions, audit, faults, forgotten>>
  BY Types DEF TypeOK, Open, Working
<1>2. CASE Connect
  <2>1. PICK q \in Question :
          /\ Took(q) /\ q.op = "connect"
          /\ \/ \E s \in Sessions \ drawn :
                  /\ sessions' = [sessions EXCEPT ![s] = [server |-> q.server, idle |-> 0]]
                  /\ drawn' = drawn \cup {s}
                  /\ Said(Reply("connect", q.from, TRUE, s))
             \/ Said(Reply("connect", q.from, FALSE, "none")) /\ UNCHANGED <<sessions, drawn>>
    BY <1>2, ConnectDoes
  <2>2. toAgent' \in Seq(Question) /\ toManager' \in Seq(Answer) /\ q.server \in Servers
    BY <2>1, Questions DEF Took, Said
  <2>3. sessions' \in [Sessions -> {Gone} \cup Open] /\ drawn' \subseteq Sessions
    <3>1. [server |-> q.server, idle |-> 0] \in Open
      BY <2>2 DEF Open
    <3> QED BY <1>0, <2>1, <3>1
  <2> QED BY <1>0, <1>2, <2>2, <2>3, ConnectDoes
<1>3. CASE Find
  <2>1. PICK q \in Question :
          /\ Took(q) /\ q.op = "command" /\ q.session \in Sessions /\ q.from \in Askers
          /\ \/ /\ Live(q.session) /\ UNCHANGED toManager
                /\ busy' = Found(q.session, q.from)
             \/ /\ ~Live(q.session) /\ UNCHANGED busy
                /\ Said(Reply("command", q.from, FALSE, q.session))
    BY <1>3, FindDoes
  <2>2. Found(q.session, q.from) \in Working
    BY <2>1, FoundIs
  <2>3. toAgent' \in Seq(Question) /\ toManager' \in Seq(Answer) /\ busy' \in {Free} \cup Working
    BY <1>0, <2>1, <2>2 DEF Took, Said
  <2> QED BY <1>0, <1>3, <2>3, FindDoes
<1>4. CASE Touch
  <2>1. busy \in Working /\ busy' \in Working
    BY <1>4, TouchDoes DEF Working, Live
  <2>2. sessions' \in [Sessions -> {Gone} \cup Open]
    <3>1. ASSUME Live(busy.session)
          PROVE  sessions[busy.session] \in Open /\ [sessions[busy.session] EXCEPT !.idle = 0] \in Open
      BY <1>0, <2>1, <3>1 DEF Working, Live, Open
    <3> QED BY <1>0, <1>4, <3>1, TouchDoes
  <2> QED BY <1>0, <1>4, <2>1, <2>2, TouchDoes
<1>5. CASE Execute
  <2>1. toManager' \in Seq(Answer) /\ busy \in Working
    BY <1>5, ExecuteDoes DEF Said
  <2>2. Live(busy.session) => sessions[busy.session].server \in Servers
    BY <1>0, <2>1 DEF Working, Live, Open
  <2>3. ran' \in [Requests -> Servers \cup {"none"}]
    BY <1>0, <1>5, <2>2, ExecuteDoes
  <2> QED BY <1>0, <1>5, <2>1, <2>3, ExecuteDoes
<1>6. CASE Disconnect
  <2>1. PICK q \in Question :
          /\ Took(q) /\ sessions' = [sessions EXCEPT ![q.session] = Gone]
          /\ \E ok \in BOOLEAN : Said(Reply("disconnect", q.from, ok, q.session))
    BY <1>6, DisconnectDoes
  <2>2. toAgent' \in Seq(Question) /\ toManager' \in Seq(Answer)
    BY <2>1 DEF Took, Said
  <2> QED BY <1>0, <1>6, <2>1, <2>2, DisconnectDoes
<1>7. CASE CleanupIdleSessions
  BY <1>0, <1>7 DEF CleanupIdleSessions, askVars
<1>8. CASE Minute
  <2>1. busy' \in {Free} \cup Working
    <3>1. busy.at = "using" => busy \in Working
      BY <1>0 DEF Free
    <3>2. busy \in Working => [busy EXCEPT !.ticked = TRUE] \in Working
      BY DEF Working
    <3> QED BY <1>0, <1>8, <3>1, <3>2 DEF Minute
  <2>2. ASSUME NEW s \in Sessions, Live(s), sessions[s].idle <= Idle
        PROVE  [sessions[s] EXCEPT !.idle = @ + 1] \in Open
    BY <1>0, <2>2 DEF Live, Open
  <2>3. sessions' \in [Sessions -> {Gone} \cup Open]
    BY <1>0, <1>8, <2>2 DEF Minute
  <2> QED BY <1>0, <1>8, <2>1, <2>3 DEF Minute, askVars
<1> QED BY <1>2, <1>3, <1>4, <1>5, <1>6, <1>7, <1>8 DEF AgentStep

LEMMA AnsweredTyped ==
  ASSUME RconAssumption, TypeOK, Drawn, NEW r \in Requests, requests[r].at = "asked",
         NEW a \in Answer, Answered(r, a), a \in Elems(toManager)
  PROVE  /\ requests' \in [Requests -> {NoRequest} \cup Made]
         /\ terminals' \in [Terminals -> Console]
         /\ rconSessions' \in [Sessions -> Servers \cup {"none"}]
<1>1. /\ requests \in [Requests -> {NoRequest} \cup Made] /\ terminals \in [Terminals -> Console]
      /\ rconSessions \in [Sessions -> Servers \cup {"none"}]
  BY Types
<1>2. requests[r] \in Made
  BY <1>1 DEF NoRequest
<1>3. a.ok \in BOOLEAN /\ a.session \in Sessions \cup {"none"}
  BY DEF Answer
<1>4. requests' \in [Requests -> {NoRequest} \cup Made]
  <2>1. \E at \in {"auditing", "done"} : requests' = [requests EXCEPT ![r] = [@ EXCEPT !.ok = a.ok, !.at = at]]
    BY <1>1, <1>2 DEF Answered, Made
  <2>2. ASSUME NEW at \in {"auditing", "done"}
        PROVE  [requests[r] EXCEPT !.ok = a.ok, !.at = at] \in Made
    BY <1>2, <1>3 DEF Made
  <2> QED BY <1>1, <2>1, <2>2
<1>5. terminals' \in [Terminals -> Console]
  <2>1. requests[r].by \in Terminals /\ [terminals[requests[r].by] EXCEPT !.session = a.session] \in Console
    BY <1>1, <1>2, <1>3 DEF Made, Console
  <2> QED BY <1>1, <2>1 DEF Answered
<1>6. rconSessions' \in [Sessions -> Servers \cup {"none"}]
  <2>1. requests[r].server \in Servers
    BY <1>2 DEF Made
  <2> QED BY <1>1, <2>1 DEF Answered, Remembered
<1> QED BY <1>4, <1>5, <1>6

LEMMA AskTyped ==
  ASSUME RconAssumption, TypeOK, Drawn, AskStep
  PROVE  TypeOK'
<1>0. /\ toAgent \in Seq(Question) /\ toManager \in Seq(Answer)
      /\ terminals \in [Terminals -> Console]
      /\ requests \in [Requests -> {NoRequest} \cup Made]
      /\ shots \in [Shots -> Shot]
      /\ rconSessions \in [Sessions -> Servers \cup {"none"}]
      /\ audit \in [Requests -> Servers \cup {"none"}]
  BY Types
<1>1. ASSUME
        /\ toAgent' \in Seq(Question) /\ toManager' \in Seq(Answer)
        /\ terminals' \in [Terminals -> Console]
        /\ requests' \in [Requests -> {NoRequest} \cup Made]
        /\ shots' \in [Shots -> Shot]
        /\ rconSessions' \in [Sessions -> Servers \cup {"none"}]
        /\ audit' \in [Requests -> Servers \cup {"none"}]
        /\ UNCHANGED <<sessions, drawn, busy, ran, faults, forgotten>>
      PROVE  TypeOK'
  BY <1>1, Types DEF TypeOK, Console, Request, Made, Shot, Kinds
<1>2. ASSUME NEW t \in Terminals, NEW r \in Requests, Mount(t, r)
      PROVE  TypeOK'
  <2>1. Connecting(t, r) \in Made /\ [terminals[t] EXCEPT !.at = "open"] \in Console
    BY <1>0 DEF Connecting, Made, Console, Kinds
  <2>2. /\ terminals' = [terminals EXCEPT ![t].at = "open"]
        /\ requests' = [requests EXCEPT ![r] = Connecting(t, r)]
        /\ toAgent' \in Seq(Question)
        /\ UNCHANGED <<sessions, drawn, busy, ran, toManager, shots, rconSessions, audit, faults, forgotten>>
    BY <1>2, MountDoes DEF Asked
  <2>3. terminals' \in [Terminals -> Console] /\ requests' \in [Requests -> {NoRequest} \cup Made]
    BY <1>0, <2>1, <2>2
  <2> QED BY <1>0, <1>1, <2>2, <2>3
<1>3. ASSUME NEW t \in Terminals, NEW op \in {"command", "disconnect"}, NEW r \in Requests, Relay(t, r, op)
      PROVE  requests' \in [Requests -> {NoRequest} \cup Made] /\ toAgent' \in Seq(Question)
  <2>1. Relaying(t, r, op) \in Made
    BY <1>0 DEF Relaying, Made, Console, Kinds
  <2>2. requests' = [requests EXCEPT ![r] = Relaying(t, r, op)] /\ toAgent' \in Seq(Question)
    BY <1>3, RelayDoes DEF Asked
  <2> QED BY <1>0, <2>1, <2>2
<1>4. ASSUME NEW t \in Terminals, NEW r \in Requests, SendCommand(t, r) \/ Unmount(t, r)
      PROVE  TypeOK'
  <2>1. requests' \in [Requests -> {NoRequest} \cup Made] /\ toAgent' \in Seq(Question)
    BY <1>0, <1>3, <1>4 DEF SendCommand, Unmount
  <2>2. [terminals[t] EXCEPT !.at = "left"] \in Console
    BY <1>0 DEF Console
  <2>3. terminals' \in [Terminals -> Console]
    BY <1>0, <1>4, <2>2 DEF SendCommand, Unmount
  <2>4. UNCHANGED <<sessions, drawn, busy, ran, toManager, shots, rconSessions, audit, faults, forgotten>>
    BY <1>4 DEF SendCommand, Unmount, agentVars
  <2> QED BY <1>0, <1>1, <2>1, <2>3, <2>4
<1>5. ASSUME NEW r \in Requests, Audit(r) \/ Timeout(r)
      PROVE  TypeOK'
  <2>1. requests[r] \in Made
    BY <1>0, <1>5 DEF Audit, Timeout, Expected, NoRequest
  <2>2. [requests[r] EXCEPT !.at = "done"] \in Made /\ requests[r].server \in Servers
    BY <2>1 DEF Made
  <2>3. requests' \in [Requests -> {NoRequest} \cup Made] /\ audit' \in [Requests -> Servers \cup {"none"}]
    BY <1>0, <1>5, <2>2 DEF Audit, Timeout
  <2>4. UNCHANGED <<sessions, drawn, busy, ran, toAgent, toManager, terminals, shots, rconSessions, faults, forgotten>>
    BY <1>5 DEF Audit, Timeout, agentVars
  <2> QED BY <1>0, <1>1, <2>3, <2>4
<1>6. ASSUME NEW k \in Shots
      PROVE  \A at \in {"connect", "done", "lost"} : [shots[k] EXCEPT !.at = at] \in Shot
  BY <1>0 DEF Shot
<1>7. ASSUME NEW k \in Shots, OneShot(k) \/ ShotTimeout(k)
      PROVE  TypeOK'
  <2>1. CASE OneShot(k)
    BY <1>0, <1>1, <1>6, <2>1, OneShotDoes DEF Asked
  <2>2. CASE shots[k].at = "connect" /\ ShotTimeout(k)
    BY <1>0, <1>1, <1>6, <2>2 DEF ShotTimeout, agentVars
  <2>3. CASE shots[k].at = "command" /\ ShotEnds(k) /\ ShotTimeout(k)
    BY <1>0, <1>1, <1>6, <2>3, EndsDoes DEF ShotTimeout, agentVars, Asked
  <2> QED BY <1>7, <2>1, <2>2, <2>3 DEF ShotTimeout
<1>8. CASE HandleInboxReply
  <2>1. PICK a \in Answer :
          /\ Heard(a) /\ a.from \in Requests
          /\ \/ requests[a.from].at = "asked" /\ Answered(a.from, a)
             \/ UNCHANGED <<requests, terminals, rconSessions>>
    BY <1>8, InboxDoes
  <2>2. a \in Elems(toManager) /\ toManager' \in Seq(Answer)
    BY <2>1 DEF Heard
  <2> QED BY <1>0, <1>1, <1>8, <2>1, <2>2, InboxDoes, AnsweredTyped
<1>9. CASE ShotReply
  <2>1. /\ toManager' \in Seq(Answer) /\ toAgent' \in Seq(Question)
        /\ shots' \in [Shots -> Shot]
    <3>1. PICK a \in Answer :
              /\ Heard(a) /\ a.from \in Shots
              /\ \/ /\ shots[a.from].at = "connect" /\ a.op = "connect" /\ a.ok
                    /\ a.session \in Sessions /\ a.session \in drawn
                    /\ shots' = [shots EXCEPT ![a.from] = [at |-> "command", session |-> a.session]]
                    /\ Asked([op |-> "command", session |-> a.session, from |-> a.from])
                 \/ /\ shots[a.from].at = "connect" /\ shots' = [shots EXCEPT ![a.from].at = "done"]
                    /\ UNCHANGED toAgent
                 \/ /\ shots[a.from].at = "command" /\ shots[a.from].session \in Sessions
                    /\ shots' = [shots EXCEPT ![a.from].at = "done"]
                    /\ Asked(Parting(a.from))
                 \/ UNCHANGED <<shots, toAgent>>
      BY <1>9, ShotReplyDoes
    <3>2. a.session \in Sessions => [at |-> "command", session |-> a.session] \in Shot
      BY DEF Shot
    <3> QED BY <1>0, <1>6, <3>1, <3>2 DEF Heard, Asked
  <2> QED BY <1>0, <1>1, <1>9, <2>1, ShotReplyDoes
<1> QED BY <1>2, <1>4, <1>5, <1>7, <1>8, <1>9 DEF AskStep

LEMMA FaultTyped ==
  ASSUME RconAssumption, TypeOK, Recorded, FaultStep
  PROVE  TypeOK'
<1>0. /\ sessions \in [Sessions -> {Gone} \cup Open] /\ drawn \subseteq Sessions
      /\ busy \in {Free} \cup Working
      /\ terminals \in [Terminals -> Console]
      /\ requests \in [Requests -> {NoRequest} \cup Made]
      /\ shots \in [Shots -> Shot]
      /\ rconSessions \in [Sessions -> Servers \cup {"none"}]
      /\ faults \in 0 .. Faults /\ Faults \in Nat /\ forgotten \subseteq Sessions
  BY Types DEF RconAssumption
<1>1. ASSUME
        /\ sessions' \in [Sessions -> {Gone} \cup Open] /\ busy' \in {Free} \cup Working
        /\ toAgent' \in Seq(Question) /\ toManager' \in Seq(Answer)
        /\ terminals' \in [Terminals -> Console]
        /\ requests' \in [Requests -> {NoRequest} \cup Made]
        /\ shots' \in [Shots -> Shot]
        /\ rconSessions' \in [Sessions -> Servers \cup {"none"}]
        /\ faults' \in 0 .. Faults /\ forgotten' \subseteq Sessions
        /\ UNCHANGED <<drawn, ran, audit>>
      PROVE  TypeOK'
  BY <1>1, Types DEF TypeOK, Open, Working, Console, Request, Made, Shot, Kinds
<1>2. Fault => faults' \in 0 .. Faults
  BY <1>0 DEF Fault
<1>3. toAgent \in Seq(Question) /\ toManager \in Seq(Answer)
  BY Types
<1>4. <<>> \in Seq(Question) /\ <<>> \in Seq(Answer)
  OBVIOUS
<1>5. ASSUME NEW k \in Shots
      PROVE  [shots[k] EXCEPT !.at = "lost"] \in Shot
  BY <1>0 DEF Shot
<1>6. ASSUME NEW r \in Requests, requests[r] # NoRequest
      PROVE  [requests[r] EXCEPT !.at = "done"] \in Made
  BY <1>0, <1>6 DEF Made
<1>7. ASSUME Forget
      PROVE  rconSessions' \in [Sessions -> Servers \cup {"none"}] /\ forgotten' \subseteq Sessions
  <2>1. ASSUME NEW r \in Requests, requests[r].at = "auditing"
        PROVE  requests[r].session \in Sessions
    <3>1. requests[r] \in Made
      BY <1>0, <2>1 DEF NoRequest
    <3> QED BY <2>1, <3>1 DEF Made, Recorded
  <2> QED BY <1>0, <1>7, <2>1 DEF Forget
<1>8. CASE Break
  BY <1>0, <1>1, <1>2, <1>4, <1>5, <1>8 DEF Break, agentVars
<1>9. CASE AgentRestart
  BY <1>0, <1>1, <1>2, <1>4, <1>9 DEF AgentRestart, askVars
<1>10. CASE Hibernate
  BY <1>0, <1>1, <1>2, <1>3, <1>7, <1>10 DEF Hibernate, agentVars, askVars
<1>11. CASE ManagerRestart
  <2>1. ASSUME NEW t \in Terminals
        PROVE  [terminals[t] EXCEPT !.at = "left"] \in Console
    BY <1>0 DEF Console
  <2>2. /\ terminals' \in [Terminals -> Console] /\ shots' \in [Shots -> Shot]
        /\ requests' \in [Requests -> {NoRequest} \cup Made]
    BY <1>0, <1>5, <1>6, <1>11, <2>1 DEF ManagerRestart, LoseShots
  <2> QED BY <1>0, <1>1, <1>2, <1>4, <1>7, <1>11, <2>2 DEF ManagerRestart, agentVars
<1>12. ASSUME NEW r \in Requests, AuditFails(r)
       PROVE  TypeOK'
  <2>1. requests[r] # NoRequest /\ requests[r] \in Made
    BY <1>0, <1>12 DEF AuditFails, NoRequest
  <2>2. requests[r].session \in Sessions
    BY <1>12, <2>1 DEF AuditFails, Made, Recorded
  <2>3. /\ requests' \in [Requests -> {NoRequest} \cup Made] /\ forgotten' \subseteq Sessions
        /\ faults' \in 0 .. Faults
    BY <1>0, <1>2, <1>6, <1>12, <2>1, <2>2 DEF AuditFails
  <2>4. UNCHANGED <<sessions, drawn, busy, ran, toAgent, toManager, terminals, shots, rconSessions, audit>>
    BY <1>12 DEF AuditFails, agentVars
  <2> QED BY <1>0, <1>1, <1>3, <2>3, <2>4
<1> QED BY <1>8, <1>9, <1>10, <1>11, <1>12 DEF FaultStep

-----------------------------------------------------------------------------
(* The parts of the invariant, one after the other                         *)

\* Who acts leaves the others' variables alone.
LEMMA Apart ==
  /\ AskStep => UNCHANGED <<sessions, drawn, busy, ran, faults, forgotten>>
  /\ AgentStep \/ Minute => UNCHANGED <<terminals, requests, shots, rconSessions, audit, faults, forgotten>>
  /\ FaultStep => UNCHANGED <<drawn, ran, audit>>
<1>1. AskStep => UNCHANGED <<sessions, drawn, busy, ran, faults, forgotten>>
  BY DEF AskStep, Mount, SendCommand, Unmount, Audit, Timeout, OneShot, ShotTimeout, HandleInboxReply,
     ShotReply, agentVars
<1>2. AgentStep \/ Minute => UNCHANGED <<terminals, requests, shots, rconSessions, audit, faults, forgotten>>
  BY DEF AgentStep, Minute, Connect, Find, Touch, Execute, Disconnect, CleanupIdleSessions, askVars
<1>3. FaultStep => UNCHANGED <<drawn, ran, audit>>
  BY DEF FaultStep, Break, AgentRestart, Hibernate, ManagerRestart, AuditFails, agentVars
<1> QED BY <1>1, <1>2, <1>3

LEMMA SparedKept ==
  ASSUME RconAssumption, TypeOK, Spared, [RconNext]_rconVars
  PROVE  Spared'
<1>0. /\ sessions \in [Sessions -> {Gone} \cup Open] /\ busy \in {Free} \cup Working /\ Idle \in Nat \ {0}
  BY Types DEF RconAssumption
<1>1. CASE UNCHANGED <<sessions, busy>>
  BY <1>1 DEF Spared, Live
<1>2. ASSUME busy' = Free
      PROVE  Spared'
  BY <1>2 DEF Spared, Free
<1>3. CASE Find
  <2>1. PICK q : \/ busy' = busy /\ busy = Free
                 \/ busy' = Found(q.session, q.from)
    BY <1>3, FindDoes
  <2>2. CASE busy' = Found(q.session, q.from)
    BY <2>2 DEF Spared, Found
  <2> QED BY <1>2, <2>1, <2>2 DEF Spared
<1>4. CASE Touch
  <2>1. /\ busy' = [busy EXCEPT !.at = "using", !.held = Live(busy.session)] /\ ~busy.ticked
        /\ sessions' = IF Live(busy.session) THEN [sessions EXCEPT ![busy.session].idle = 0] ELSE sessions
        /\ busy \in Working
    BY <1>4, TouchDoes DEF Spared
  <2>2. /\ busy'.at = "using" /\ ~busy'.ticked /\ busy'.session = busy.session /\ busy.session \in Sessions
        /\ busy'.held => Live(busy.session)
    BY <2>1 DEF Working, Live
  <2>3. Live(busy.session) => /\ sessions[busy.session] \in Open
                              /\ sessions'[busy.session] = [sessions[busy.session] EXCEPT !.idle = 0]
    BY <1>0, <2>1, <2>2 DEF Live
  <2>4. Live(busy.session) => sessions'[busy.session] # Gone /\ sessions'[busy.session].idle = 0
    BY <1>0, <2>3 DEF Open, Gone
  <2> QED BY <2>2, <2>4 DEF Spared, Live
<1>5. CASE CleanupIdleSessions
  <2>1. busy' = busy /\ sessions' = [s \in Sessions |-> IF Cleanup(s) THEN Gone ELSE sessions[s]]
    BY <1>5 DEF CleanupIdleSessions
  <2>2. CASE busy.at = "using" /\ busy.held
    <3>1. busy.session \in Sessions /\ busy \in Working
      BY <1>0, <2>2 DEF Free, Working
    <3>2. ~Cleanup(busy.session)
      BY <1>0, <2>2, <3>1 DEF Spared, Cleanup, Live, Open
    <3>3. sessions'[busy.session] = sessions[busy.session]
      BY <2>1, <3>1, <3>2
    <3> QED BY <2>1, <2>2, <3>3 DEF Spared, Live
  <2> QED BY <2>1, <2>2 DEF Spared
<1>6. CASE Minute
  <2>1. /\ busy.at = "using" => ~busy.ticked
        /\ busy' = IF busy.at = "using" THEN [busy EXCEPT !.ticked = TRUE] ELSE busy
        /\ sessions' = [s \in Sessions |->
             IF Live(s) /\ sessions[s].idle <= Idle THEN [sessions[s] EXCEPT !.idle = @ + 1] ELSE sessions[s]]
    BY <1>6 DEF Minute
  <2>2. CASE busy.at = "using"
    <3>1. busy \in Working
      BY <1>0, <2>2 DEF Free
    <3>2. /\ busy.session \in Sessions /\ busy'.ticked /\ busy'.at = "using"
          /\ busy'.session = busy.session /\ busy'.held = busy.held
      BY <2>1, <2>2, <3>1 DEF Working
    <3>3. busy.held => Live(busy.session) /\ sessions[busy.session] \in Open /\ sessions[busy.session].idle = 0
      BY <1>0, <2>1, <2>2, <3>2 DEF Spared, Live, Open
    <3>4. busy.held => sessions'[busy.session] = [sessions[busy.session] EXCEPT !.idle = @ + 1]
      BY <1>0, <2>1, <3>2, <3>3
    <3>5. busy.held => sessions'[busy.session] # Gone /\ sessions'[busy.session].idle = 1
      BY <3>3, <3>4 DEF Open, Gone
    <3> QED BY <3>2, <3>5 DEF Spared, Live
  <2> QED BY <2>1, <2>2 DEF Spared
<1>7. CASE AskStep
  BY <1>1, <1>7, Apart
<1>8. CASE FaultStep
  BY <1>1, <1>2, <1>8 DEF FaultStep, Break, AgentRestart, Hibernate, ManagerRestart, AuditFails, agentVars
<1>9. CASE Connect \/ Execute \/ Disconnect
  BY <1>2, <1>9, ConnectDoes, ExecuteDoes, DisconnectDoes
<1> QED BY <1>1, <1>3, <1>4, <1>5, <1>6, <1>7, <1>8, <1>9 DEF RconNext, AgentStep, rconVars, agentVars

LEMMA DrawnKept ==
  ASSUME RconAssumption, TypeOK, Drawn, [RconNext]_rconVars
  PROVE  Drawn'
<1> USE DEF RconAssumption
<1>0. /\ sessions \in [Sessions -> {Gone} \cup Open] /\ drawn \subseteq Sessions
      /\ busy \in {Free} \cup Working
      /\ terminals \in [Terminals -> Console] /\ shots \in [Shots -> Shot]
  BY Types
<1>1. CASE Connect
  <2>1. PICK q \in Question :
          /\ Took(q)
          /\ \/ \E s \in Sessions \ drawn :
                  /\ sessions' = [sessions EXCEPT ![s] = [server |-> q.server, idle |-> 0]]
                  /\ drawn' = drawn \cup {s}
                  /\ Said(Reply("connect", q.from, TRUE, s))
             \/ Said(Reply("connect", q.from, FALSE, "none")) /\ UNCHANGED <<sessions, drawn>>
    BY <1>1, ConnectDoes
  <2>2. /\ drawn \subseteq drawn'
        /\ \A s \in Sessions : Live(s)' => s \in drawn'
        /\ \A a \in Elems(toManager') : a.ok => a.session \in drawn'
    <3>1. ASSUME NEW s \in Sessions \ drawn,
                 sessions' = [sessions EXCEPT ![s] = [server |-> q.server, idle |-> 0]],
                 drawn' = drawn \cup {s}, Said(Reply("connect", q.from, TRUE, s))
          PROVE  <2>2!1 /\ <2>2!2 /\ <2>2!3
      <4>1. <2>2!1 /\ <2>2!2
        BY <1>0, <3>1 DEF Drawn, Live
      <4>2. \A a \in Elems(toManager') : a \in Elems(toManager) \/ a.session = s
        BY <3>1 DEF Said, Reply
      <4>3. <2>2!3
        BY <3>1, <4>2 DEF Drawn
      <4> QED BY <4>1, <4>3
    <3>2. ASSUME Said(Reply("connect", q.from, FALSE, "none")), UNCHANGED <<sessions, drawn>>
          PROVE  <2>2!1 /\ <2>2!2 /\ <2>2!3
      BY <3>2, SaidNew DEF Drawn, Live
    <3> QED BY <2>1, <3>1, <3>2
  <2>3. /\ UNCHANGED <<busy, terminals, shots>> /\ Elems(toAgent') \subseteq Elems(toAgent)
    BY <1>1, <2>1, ConnectDoes DEF Took
  <2> QED BY <2>2, <2>3 DEF Drawn
<1>2. CASE Find
  <2>1. PICK q \in Question :
          /\ Took(q) /\ q.op = "command"
          /\ \/ /\ UNCHANGED toManager
                /\ busy' = Found(q.session, q.from)
             \/ /\ UNCHANGED busy
                /\ Said(Reply("command", q.from, FALSE, q.session))
    BY <1>2, FindDoes
  <2>2. /\ UNCHANGED <<sessions, drawn, terminals, shots>> /\ Elems(toAgent') \subseteq Elems(toAgent)
        /\ q \in Elems(toAgent)
    BY <1>2, <2>1, FindDoes DEF Took
  <2>3. \A a \in Elems(toManager') : a \in Elems(toManager) \/ a.session = q.session
    BY <2>1 DEF Said, Reply
  <2>5. q.session \in drawn
    BY <2>1, <2>2 DEF Drawn
  <2>4. busy' # Free => busy'.session \in drawn
    <3>1. q.session \in drawn
      BY <2>1, <2>2 DEF Drawn
    <3>2. Found(q.session, q.from).session = q.session
      BY DEF Found
    <3> QED BY <2>1, <3>1, <3>2 DEF Drawn
  <2> QED BY <2>2, <2>3, <2>4, <2>5 DEF Drawn, Live
<1>3. CASE Touch
  <2>1. busy' # Free => busy'.session \in drawn
    BY <1>3, TouchDoes DEF Drawn, Working, Free
  <2>2. \A s \in Sessions : Live(s)' => Live(s)
    BY <1>0, <1>3, TouchDoes DEF Live, Working
  <2> QED BY <1>3, <2>1, <2>2, TouchDoes DEF Drawn
<1>4. CASE Execute
  <2>1. \E ok \in BOOLEAN : Said(Reply("command", busy.from, ok, busy.session))
    BY <1>4, ExecuteDoes
  <2>2. \A a \in Elems(toManager') : a \in Elems(toManager) \/ a.session = busy.session
    BY <2>1, SaidNew
  <2>3. busy.session \in drawn
    BY <1>4, ExecuteDoes DEF Drawn, Working, Free
  <2> QED BY <1>4, <2>2, <2>3, ExecuteDoes DEF Drawn, Live
<1>5. CASE Disconnect
  <2>1. PICK q \in Question :
          /\ Took(q) /\ sessions' = [sessions EXCEPT ![q.session] = Gone] /\ q.op = "disconnect"
          /\ \E ok \in BOOLEAN : Said(Reply("disconnect", q.from, ok, q.session))
    BY <1>5, DisconnectDoes
  <2>2. \A a \in Elems(toManager') : a \in Elems(toManager) \/ a.session = q.session
    BY <2>1, SaidNew
  <2>5. q.session \in drawn
    BY <2>1 DEF Drawn, Took
  <2>3. \A s \in Sessions : Live(s)' => Live(s)
    BY <1>0, <2>1 DEF Live
  <2>4. Elems(toAgent') \subseteq Elems(toAgent)
    BY <2>1 DEF Took
  <2> QED BY <1>5, <2>2, <2>3, <2>4, <2>5, DisconnectDoes DEF Drawn
<1>6. CASE CleanupIdleSessions \/ Minute
  <2>1. \A s \in Sessions : Live(s)' => Live(s)
    BY <1>0, <1>6 DEF CleanupIdleSessions, Cleanup, Minute, Live
  <2>2. busy' # Free => busy # Free /\ busy'.session = busy.session
    BY <1>0, <1>6 DEF CleanupIdleSessions, Minute, Free, Working
  <2>3. UNCHANGED <<drawn, toAgent, toManager, terminals, shots>>
    BY <1>6 DEF CleanupIdleSessions, Minute, askVars
  <2> QED BY <2>1, <2>2, <2>3 DEF Drawn
<1>7. ASSUME NEW t \in Terminals, NEW r \in Requests, Mount(t, r) \/ SendCommand(t, r) \/ Unmount(t, r)
      PROVE  Drawn'
  <2>1. \A q \in Elems(toAgent') : q \notin Elems(toAgent) /\ q.op # "connect" => q.session \in drawn
    <3>1. CASE Mount(t, r)
      <4>1. Asked([op |-> "connect", server |-> terminals[t].server, from |-> r])
        BY <3>1, MountDoes
      <4> QED BY <4>1 DEF Asked
    <3>2. ASSUME NEW op \in {"command", "disconnect"}, Relay(t, r, op)
          PROVE  \A q \in Elems(toAgent') : q \notin Elems(toAgent) /\ q.op # "connect" => q.session \in drawn
      <4>1. terminals[t].session # "none" /\ Asked([op |-> op, session |-> terminals[t].session, from |-> r])
        BY <3>2, RelayDoes
      <4>2. terminals[t].session \in drawn
        BY <4>1 DEF Drawn
      <4> QED BY <4>1, <4>2 DEF Asked
    <3> QED BY <1>7, <3>1, <3>2 DEF SendCommand, Unmount
  <2>2. \A u \in Terminals : terminals'[u].session = terminals[u].session
    BY <1>0, <1>7 DEF Mount, SendCommand, Unmount, Console
  <2>3. UNCHANGED <<sessions, drawn, busy, toManager, shots>>
    BY <1>7 DEF Mount, SendCommand, Unmount, agentVars
  <2> QED BY <2>1, <2>2, <2>3 DEF Drawn, Live
<1>8. ASSUME NEW r \in Requests, Audit(r) \/ Timeout(r)
      PROVE  Drawn'
  BY <1>8 DEF Audit, Timeout, agentVars, Drawn, Live
<1>9. ASSUME NEW k \in Shots, OneShot(k) \/ ShotTimeout(k)
      PROVE  Drawn'
  <2>1. /\ \A j \in Shots : shots'[j].session = shots[j].session
        /\ \A j \in Shots : shots'[j].at = "command" => shots[j].at = "command"
        /\ \A q \in Elems(toAgent') : q \notin Elems(toAgent) /\ q.op # "connect" => q.session \in drawn
    <3>1. CASE OneShot(k)
      <4>1. PICK server \in Servers : Asked([op |-> "connect", server |-> server, from |-> k])
        BY <3>1, OneShotDoes
      <4>2. shots' = [shots EXCEPT ![k].at = "connect"]
        BY <3>1, OneShotDoes
      <4> QED BY <1>0, <4>1, <4>2 DEF Asked, Shot
    <3>2. CASE shots[k].at = "connect" /\ shots' = [shots EXCEPT ![k].at = "lost"] /\ UNCHANGED toAgent
      BY <1>0, <3>2 DEF Shot
    <3>3. CASE shots[k].at = "command" /\ ShotEnds(k)
      <4>1. shots[k].session \in drawn /\ shots' = [shots EXCEPT ![k].at = "done"] /\ Asked(Parting(k))
        BY <3>3, EndsDoes DEF Drawn
      <4> QED BY <1>0, <4>1 DEF Asked, Parting, Shot
    <3> QED BY <1>9, <3>1, <3>2, <3>3 DEF ShotTimeout
  <2>2. UNCHANGED <<sessions, drawn, busy, toManager, terminals>>
    BY <1>9 DEF OneShot, ShotTimeout, agentVars
  <2> QED BY <2>1, <2>2 DEF Drawn, Live
<1>10. CASE HandleInboxReply
  <2>1. PICK a \in Answer :
          /\ Heard(a) /\ a.from \in Requests
          /\ \/ requests[a.from].at = "asked" /\ Answered(a.from, a)
             \/ UNCHANGED <<requests, terminals, rconSessions>>
    BY <1>10, InboxDoes
  <2>2. \A t \in Terminals : \/ terminals'[t].session = terminals[t].session
                             \/ a.ok /\ terminals'[t].session = a.session
    BY <1>0, <2>1 DEF Answered, Console
  <2>3. a \in Elems(toManager) /\ Elems(toManager') \subseteq Elems(toManager)
    BY <2>1 DEF Heard
  <2> QED BY <1>10, <2>2, <2>3, InboxDoes DEF Drawn, Live
<1>11. CASE ShotReply
  <2>1. PICK a \in Answer :
            /\ Heard(a) /\ a.from \in Shots
            /\ \/ /\ a.session \in Sessions /\ a.session \in drawn
                  /\ shots' = [shots EXCEPT ![a.from] = [at |-> "command", session |-> a.session]]
                  /\ Asked([op |-> "command", session |-> a.session, from |-> a.from])
               \/ /\ shots' = [shots EXCEPT ![a.from].at = "done"]
                  /\ UNCHANGED toAgent
               \/ /\ shots[a.from].session \in Sessions
                  /\ shots' = [shots EXCEPT ![a.from].at = "done"]
                  /\ Asked(Parting(a.from))
               \/ UNCHANGED <<shots, toAgent>>
    BY <1>11, ShotReplyDoes
  <2>2. Elems(toManager') \subseteq Elems(toManager)
    BY <2>1 DEF Heard
  <2>3. /\ \A q \in Elems(toAgent') : q \notin Elems(toAgent) => q.session \in drawn
        /\ \A k \in Shots : /\ shots'[k].session # "none" => shots'[k].session \in drawn
                            /\ shots'[k].at = "command" => shots'[k].session # "none"
    BY <1>0, <2>1 DEF Asked, Parting, Drawn, Shot
  <2> QED BY <1>11, <2>2, <2>3, ShotReplyDoes DEF Drawn, Live
<1>12. CASE FaultStep
  <2>1. drawn' = drawn
    BY <1>12, Apart
  <2>2. \A s \in Sessions : Live(s)' => Live(s)
    BY <1>0, <1>12 DEF FaultStep, Break, AgentRestart, Hibernate, ManagerRestart, AuditFails, agentVars, Live
  <2>3. Elems(toAgent') \subseteq Elems(toAgent) /\ Elems(toManager') \subseteq Elems(toManager)
    BY <1>12, Emptied DEF FaultStep, Break, AgentRestart, Hibernate, ManagerRestart, AuditFails
  <2>4. busy' \in {busy, Free}
    BY <1>12 DEF FaultStep, Break, AgentRestart, Hibernate, ManagerRestart, AuditFails, agentVars
  <2>5. \A t \in Terminals : terminals'[t].session = terminals[t].session
    BY <1>0, <1>12 DEF FaultStep, Break, AgentRestart, Hibernate, ManagerRestart, AuditFails, askVars, Console
  <2>6. \A k \in Shots : /\ shots'[k].session = shots[k].session
                         /\ shots'[k].at = "command" => shots[k].at = "command"
    BY <1>0, <1>12 DEF FaultStep, Break, AgentRestart, Hibernate, ManagerRestart, AuditFails, askVars,
       LoseShots, Shot
  <2> QED BY <2>1, <2>2, <2>3, <2>4, <2>5, <2>6 DEF Drawn
<1>13. CASE UNCHANGED rconVars
  BY <1>13 DEF rconVars, agentVars, askVars, Drawn, Live
<1> QED BY <1>1, <1>2, <1>3, <1>4, <1>5, <1>6, <1>7, <1>8, <1>9, <1>10, <1>11, <1>12, <1>13
        DEF RconNext, AgentStep, AskStep

\* What was requested stays so, and a terminal stays with its server.
LEMMA Firm ==
  ASSUME TypeOK, [RconNext]_rconVars
  PROVE  /\ \A r \in Requests : requests[r].op # "none" =>
              /\ requests'[r].op = requests[r].op /\ requests'[r].by = requests[r].by
              /\ requests'[r].session = requests[r].session /\ requests'[r].server = requests[r].server
         /\ \A t \in Terminals : terminals'[t].server = terminals[t].server
<1>0. /\ requests \in [Requests -> {NoRequest} \cup Made] /\ terminals \in [Terminals -> Console]
      /\ NoRequest.op = "none"
  BY Types DEF NoRequest
<1>1. CASE UNCHANGED <<requests, terminals>>
  BY <1>1
<1>2. ASSUME NEW t \in Terminals, NEW r \in Requests, Mount(t, r) \/ SendCommand(t, r) \/ Unmount(t, r)
      PROVE  /\ \A x \in Requests \ {r} : requests'[x] = requests[x]
             /\ requests[r].op # "none" => requests' = requests
             /\ \A u \in Terminals : terminals'[u].server = terminals[u].server
  BY <1>0, <1>2 DEF Mount, SendCommand, Unmount, Relay, Console
<1>3. ASSUME NEW r \in Requests, Audit(r) \/ Timeout(r) \/ AuditFails(r)
      PROVE  requests' = [requests EXCEPT ![r].at = "done"] /\ UNCHANGED terminals
             /\ requests[r] \in Made
  BY <1>0, <1>3 DEF Audit, Timeout, AuditFails, Expected, NoRequest
<1>4. ASSUME HandleInboxReply
      PROVE  \A t \in Terminals : terminals'[t].server = terminals[t].server
  BY <1>0, <1>4 DEF HandleInboxReply, Answered, Console
<1>5. ASSUME HandleInboxReply, requests' # requests
      PROVE  \E r \in Requests, ok \in BOOLEAN, at \in {"auditing", "done"} :
               requests[r] \in Made /\ requests' = [requests EXCEPT ![r].ok = ok, ![r].at = at]
  <2>1. PICK a \in Answer : a.from \in Requests /\ requests[a.from].at = "asked" /\ Answered(a.from, a)
    BY <1>5, InboxDoes
  <2>2. requests[a.from] \in Made /\ a.ok \in BOOLEAN
    BY <1>0, <2>1 DEF NoRequest, Answer
  <2> QED BY <2>1, <2>2 DEF Answered
<1>6. CASE HandleInboxReply
  <2>1. CASE requests' = requests
    BY <1>4, <1>6, <2>1
  <2>2. CASE requests' # requests
    <3>1. PICK r \in Requests, ok \in BOOLEAN, at \in {"auditing", "done"} :
            requests[r] \in Made /\ requests' = [requests EXCEPT ![r].ok = ok, ![r].at = at]
      BY <1>5, <1>6, <2>2
    <3>2. requests'[r] = [requests[r] EXCEPT !.ok = ok, !.at = at] /\ \A x \in Requests \ {r} : requests'[x] = requests[x]
      BY <1>0, <3>1
    <3>3. /\ requests'[r].op = requests[r].op /\ requests'[r].by = requests[r].by
          /\ requests'[r].session = requests[r].session /\ requests'[r].server = requests[r].server
      <4>1. /\ [requests[r] EXCEPT !.ok = ok] \in Made
            /\ [requests[r] EXCEPT !.ok = ok].op = requests[r].op
            /\ [requests[r] EXCEPT !.ok = ok].by = requests[r].by
            /\ [requests[r] EXCEPT !.ok = ok].session = requests[r].session
            /\ [requests[r] EXCEPT !.ok = ok].server = requests[r].server
        BY <3>1 DEF Made
      <4> QED BY <3>2, <4>1 DEF Made
    <3> QED BY <1>4, <1>6, <3>2, <3>3
  <2> QED BY <2>1, <2>2
<1>7. CASE FaultStep /\ ~\E r \in Requests : AuditFails(r)
  <2>1. CASE ManagerRestart
    <3>1. ASSUME NEW r \in Requests, requests[r].op # "none"
          PROVE  requests[r] \in Made /\ requests'[r] = [requests[r] EXCEPT !.at = "done"]
      BY <1>0, <2>1, <3>1 DEF ManagerRestart
    <3>2. \A t \in Terminals : terminals'[t].server = terminals[t].server
      BY <1>0, <2>1 DEF ManagerRestart, Console
    <3> QED BY <3>1, <3>2 DEF Made
  <2>2. CASE ~ManagerRestart
    BY <1>1, <1>7, <2>2 DEF FaultStep, Break, AgentRestart, Hibernate, askVars
  <2> QED BY <2>1, <2>2
<1>8. CASE \E k \in Shots : OneShot(k) \/ ShotTimeout(k)
  BY <1>1, <1>8 DEF OneShot, ShotTimeout
<1>9. CASE ShotReply
  BY <1>1, <1>9 DEF ShotReply
<1>10. CASE \E t \in Terminals, r \in Requests : Mount(t, r) \/ SendCommand(t, r) \/ Unmount(t, r)
  BY <1>0, <1>2, <1>10
<1>11. CASE \E r \in Requests : Audit(r) \/ Timeout(r) \/ AuditFails(r)
  BY <1>0, <1>3, <1>11 DEF Made
<1>12. CASE AgentStep \/ Minute
  BY <1>1, <1>12, Apart
<1> QED BY <1>1, <1>6, <1>7, <1>8, <1>9, <1>10, <1>11, <1>12 DEF RconNext, AskStep, FaultStep, rconVars, askVars

\* So what agreed goes on agreeing.
LEMMA FirmAgreed ==
  ASSUME TypeOK, Agreed, [RconNext]_rconVars
  PROVE  /\ \A q \in Elems(toAgent) : AskedFor(q)'
         /\ WorkedFor(busy)' \/ busy' # busy
         /\ \A a \in Elems(toManager) : AnsweredFor(a)'
         /\ \A r \in Requests : requests[r].op = "connect" =>
              requests'[r].server = terminals'[requests'[r].by].server
<1>0. /\ requests \in [Requests -> {NoRequest} \cup Made] /\ NoRequest.op = "none"
      /\ toAgent \in Seq(Question) /\ toManager \in Seq(Answer)
  BY Types DEF NoRequest
<1>1. /\ \A q \in Elems(toAgent) : q.op # "none"
      /\ \A a \in Elems(toManager) : a.op # "none"
  <2>1. Elems(toAgent) \subseteq Question /\ Elems(toManager) \subseteq Answer
    BY <1>0, ElemsTyped
  <2> QED BY <2>1 DEF Question, Answer
<1>2. \A q \in Elems(toAgent) : AskedFor(q)'
  BY <1>1, Firm DEF Agreed, AskedFor
<1>3. \A a \in Elems(toManager) : AnsweredFor(a)'
  BY <1>1, Firm DEF Agreed, AnsweredFor
<1>4. WorkedFor(busy)' \/ busy' # busy
  BY Firm DEF Agreed, WorkedFor
<1>5. ASSUME NEW r \in Requests, requests[r].op = "connect"
      PROVE  requests'[r].server = terminals'[requests'[r].by].server
  <2>1. requests[r].by \in Terminals
    BY <1>0, <1>5 DEF Made
  <2> QED BY <1>5, <2>1, Firm DEF Agreed
<1> QED BY <1>2, <1>3, <1>4, <1>5

LEMMA AgreedKept ==
  ASSUME RconAssumption, TypeOK, Drawn, Agreed, [RconNext]_rconVars
  PROVE  Agreed'
<1> USE DEF RconAssumption
<1>0. /\ requests \in [Requests -> {NoRequest} \cup Made] /\ terminals \in [Terminals -> Console]
      /\ busy \in {Free} \cup Working
  BY Types
<1>1. ASSUME \A q \in Elems(toAgent') \ Elems(toAgent) : AskedFor(q)',
             busy' = busy \/ WorkedFor(busy)',
             \A a \in Elems(toManager') \ Elems(toManager) : AnsweredFor(a)',
             \A r \in Requests : requests'[r].op = "connect" /\ requests[r].op # "connect" =>
               requests'[r].server = terminals'[requests'[r].by].server
      PROVE  Agreed'
  <2>1. WorkedFor(busy)'
    BY <1>1, FirmAgreed
  <2>2. \A q \in Elems(toAgent') : AskedFor(q)'
    BY <1>1, FirmAgreed
  <2>3. \A a \in Elems(toManager') : AnsweredFor(a)'
    BY <1>1, FirmAgreed
  <2>4. \A r \in Requests : requests'[r].op = "connect" => requests'[r].server = terminals'[requests'[r].by].server
    BY <1>1, FirmAgreed
  <2> QED BY <2>1, <2>2, <2>3, <2>4 DEF Agreed
<1>2. CASE Connect
  <2>1. PICK q \in Question :
          /\ Took(q) /\ q.op = "connect"
          /\ \E ok \in BOOLEAN : \E s : Said(Reply("connect", q.from, ok, s))
    BY <1>2, ConnectDoes
  <2>2. AskedFor(q) /\ Elems(toAgent') \subseteq Elems(toAgent)
    BY <2>1 DEF Took, Agreed
  <2>3. \A a \in Elems(toManager') \ Elems(toManager) : a.op = "connect" /\ a.from = q.from
    BY <2>1, SaidNew
  <2>4. UNCHANGED <<busy, requests, terminals>>
    BY <1>2, ConnectDoes
  <2>5. \A a \in Elems(toManager') \ Elems(toManager) : AnsweredFor(a)'
    BY <2>1, <2>2, <2>3, <2>4 DEF AskedFor, AnsweredFor
  <2> QED BY <1>1, <2>2, <2>4, <2>5
<1>3. CASE Find
  <2>1. PICK q \in Question :
          /\ Took(q) /\ q.op = "command"
          /\ \/ UNCHANGED toManager /\ busy' = Found(q.session, q.from)
             \/ UNCHANGED busy /\ \E ok \in BOOLEAN : Said(Reply("command", q.from, ok, q.session))
    BY <1>3, FindDoes
  <2>2. AskedFor(q) /\ Elems(toAgent') \subseteq Elems(toAgent)
    BY <2>1 DEF Took, Agreed
  <2>3. \A a \in Elems(toManager') \ Elems(toManager) :
          a.op = "command" /\ a.from = q.from /\ a.session = q.session
    BY <2>1, SaidNew
  <2>4. UNCHANGED <<requests, terminals>>
    BY <1>3, FindDoes
  <2>5. \A a \in Elems(toManager') \ Elems(toManager) : AnsweredFor(a)'
    BY <2>1, <2>2, <2>3, <2>4 DEF AskedFor, AnsweredFor
  <2>6. busy' = busy \/ WorkedFor(busy)'
    BY <2>1, <2>2, <2>4 DEF AskedFor, WorkedFor, Found
  <2> QED BY <1>1, <2>2, <2>4, <2>5, <2>6
<1>4. CASE Touch
  <2>1. busy' # Free => busy # Free /\ busy'.from = busy.from /\ busy'.session = busy.session
    BY <1>4, TouchDoes DEF Working, Free
  <2>2. UNCHANGED <<requests, terminals, toAgent, toManager>>
    BY <1>4, TouchDoes
  <2>3. WorkedFor(busy)'
    BY <2>1, <2>2 DEF Agreed, WorkedFor
  <2> QED BY <1>1, <2>2, <2>3
<1>5. CASE Execute
  <2>1. PICK ok \in BOOLEAN : Said(Reply("command", busy.from, ok, busy.session))
    BY <1>5, ExecuteDoes
  <2>2. \A a \in Elems(toManager') \ Elems(toManager) :
          a.op = "command" /\ a.from = busy.from /\ a.session = busy.session
    BY <2>1, SaidNew
  <2>3. UNCHANGED <<requests, terminals, toAgent>> /\ busy' = Free /\ busy # Free
    BY <1>5, ExecuteDoes DEF Working, Free
  <2>4. \A a \in Elems(toManager') \ Elems(toManager) : AnsweredFor(a)'
    BY <2>2, <2>3 DEF Agreed, WorkedFor, AnsweredFor
  <2>5. WorkedFor(busy)'
    BY <2>3 DEF WorkedFor
  <2> QED BY <1>1, <2>3, <2>4, <2>5
<1>6. CASE Disconnect
  <2>1. PICK q \in Question :
          /\ Took(q) /\ q.op = "disconnect"
          /\ \E ok \in BOOLEAN : Said(Reply("disconnect", q.from, ok, q.session))
    BY <1>6, DisconnectDoes
  <2>2. AskedFor(q) /\ Elems(toAgent') \subseteq Elems(toAgent)
    BY <2>1 DEF Took, Agreed
  <2>3. \A a \in Elems(toManager') \ Elems(toManager) :
          a.op = "disconnect" /\ a.from = q.from /\ a.session = q.session
    BY <2>1, SaidNew
  <2>4. UNCHANGED <<busy, requests, terminals>>
    BY <1>6, DisconnectDoes
  <2>5. \A a \in Elems(toManager') \ Elems(toManager) : AnsweredFor(a)'
    BY <2>1, <2>2, <2>3, <2>4 DEF AskedFor, AnsweredFor
  <2> QED BY <1>1, <2>2, <2>4, <2>5
<1>7. CASE CleanupIdleSessions \/ Minute
  <2>1. busy' # Free => busy # Free /\ busy'.session = busy.session /\ busy'.from = busy.from
    BY <1>0, <1>7 DEF CleanupIdleSessions, Minute, Free, Working
  <2>2. UNCHANGED <<requests, toAgent, toManager, terminals>>
    BY <1>7 DEF CleanupIdleSessions, Minute, askVars
  <2>3. WorkedFor(busy)'
    BY <2>1, <2>2 DEF Agreed, WorkedFor
  <2> QED BY <1>1, <2>2, <2>3
<1>8. ASSUME NEW t \in Terminals, NEW r \in Requests, Mount(t, r)
      PROVE  Agreed'
  <2>1. /\ UNCHANGED <<busy, toManager>>
        /\ requests' = [requests EXCEPT ![r] = Connecting(t, r)]
        /\ terminals' = [terminals EXCEPT ![t].at = "open"]
        /\ Asked([op |-> "connect", server |-> terminals[t].server, from |-> r])
    BY <1>8, MountDoes
  <2>2. /\ requests'[r].op = "connect" /\ requests'[r].server = terminals[t].server /\ requests'[r].by = t
        /\ \A x \in Requests \ {r} : requests'[x] = requests[x]
        /\ terminals'[t].server = terminals[t].server
    BY <1>0, <2>1 DEF Connecting, Console
  <2>3. \A q \in Elems(toAgent') \ Elems(toAgent) : AskedFor(q)'
    BY <2>1, <2>2 DEF Asked, AskedFor
  <2> QED BY <1>1, <2>1, <2>2, <2>3
<1>9. ASSUME NEW t \in Terminals, NEW r \in Requests, SendCommand(t, r) \/ Unmount(t, r)
      PROVE  Agreed'
  <2>1. UNCHANGED <<busy, toManager>>
    BY <1>9 DEF SendCommand, Unmount, agentVars
  <2>2. CASE UNCHANGED <<requests, toAgent>>
    BY <1>1, <2>1, <2>2
  <2>3. ASSUME NEW op \in {"command", "disconnect"}, Relay(t, r, op)
        PROVE  Agreed'
    <3>1. /\ requests' = [requests EXCEPT ![r] = Relaying(t, r, op)]
          /\ Asked([op |-> op, session |-> terminals[t].session, from |-> r])
      BY <2>3, RelayDoes
    <3>2. /\ requests'[r].op = op /\ requests'[r].session = terminals[t].session
          /\ \A x \in Requests \ {r} : requests'[x] = requests[x]
      BY <1>0, <3>1 DEF Relaying
    <3>3. \A q \in Elems(toAgent') \ Elems(toAgent) : AskedFor(q)'
      BY <3>1, <3>2 DEF Asked, AskedFor
    <3> QED BY <1>1, <2>1, <3>2, <3>3
  <2> QED BY <1>9, <2>2, <2>3 DEF SendCommand, Unmount
<1>10. ASSUME UNCHANGED busy, Elems(toManager') \subseteq Elems(toManager),
              \A q \in Elems(toAgent') \ Elems(toAgent) : q.from \in Shots \cup {"nobody"},
              \A r \in Requests : requests'[r].op = requests[r].op
       PROVE  Agreed'
  <2>1. \A q \in Elems(toAgent') \ Elems(toAgent) : AskedFor(q)'
    BY <1>10 DEF AskedFor
  <2> QED BY <1>1, <1>10, <2>1
<1>11. ASSUME NEW k \in Shots, OneShot(k) \/ ShotTimeout(k)
       PROVE  Agreed'
  <2>1. \A q \in Elems(toAgent') \ Elems(toAgent) : q.from \in Shots \cup {"nobody"}
    <3>1. CASE OneShot(k)
      <4>1. PICK server \in Servers : Asked([op |-> "connect", server |-> server, from |-> k])
        BY <3>1, OneShotDoes
      <4> QED BY <4>1 DEF Asked
    <3>2. CASE shots[k].at = "command" /\ ShotEnds(k)
      <4>1. Asked(Parting(k))
        BY <3>2, EndsDoes
      <4> QED BY <4>1 DEF Asked, Parting
    <3> QED BY <1>11, <3>1, <3>2 DEF ShotTimeout
  <2> QED BY <1>10, <1>11, <2>1 DEF OneShot, ShotTimeout, agentVars
<1>12. CASE ShotReply
  <2>1. PICK a \in Answer :
            /\ Heard(a) /\ a.from \in Shots
            /\ \/ Asked([op |-> "command", session |-> a.session, from |-> a.from])
               \/ Asked(Parting(a.from))
               \/ UNCHANGED toAgent
    BY <1>12, ShotReplyDoes
  <2>2. \A q \in Elems(toAgent') \ Elems(toAgent) : q.from \in Shots \cup {"nobody"}
    BY <2>1 DEF Asked, Parting
  <2>3. Elems(toManager') \subseteq Elems(toManager)
    BY <2>1 DEF Heard
  <2> QED BY <1>10, <1>12, <2>2, <2>3, ShotReplyDoes
<1>13. ASSUME NEW r \in Requests, Audit(r) \/ Timeout(r)
       PROVE  Agreed'
  <2>1. \A x \in Requests : requests'[x].op = requests[x].op
    <3>1. requests[r] \in Made /\ requests' = [requests EXCEPT ![r].at = "done"]
      BY <1>0, <1>13 DEF Audit, Timeout, Expected, NoRequest
    <3> QED BY <1>0, <3>1 DEF Made
  <2> QED BY <1>10, <1>13, <2>1 DEF Audit, Timeout, agentVars
<1>14. CASE HandleInboxReply
  <2>1. PICK a \in Answer :
          /\ Heard(a) /\ a.from \in Requests
          /\ \/ requests[a.from].at = "asked" /\ Answered(a.from, a)
             \/ UNCHANGED <<requests, terminals, rconSessions>>
    BY <1>14, InboxDoes
  <2>2. \A x \in Requests : requests'[x].op = requests[x].op
    <3>1. CASE UNCHANGED requests
      BY <3>1
    <3>2. CASE requests[a.from].at = "asked" /\ Answered(a.from, a)
      <4>1. requests[a.from] \in Made
        BY <1>0, <2>1, <3>2 DEF NoRequest
      <4> QED BY <1>0, <3>2, <4>1 DEF Answered, Made
    <3> QED BY <2>1, <3>1, <3>2
  <2>3. Elems(toManager') \subseteq Elems(toManager)
    BY <2>1 DEF Heard
  <2> QED BY <1>10, <1>14, <2>2, <2>3, InboxDoes
<1>15. CASE FaultStep
  <2>1. Elems(toAgent') \subseteq Elems(toAgent) /\ Elems(toManager') \subseteq Elems(toManager)
    BY <1>15, Emptied DEF FaultStep, Break, AgentRestart, Hibernate, ManagerRestart, AuditFails
  <2>2. busy' \in {busy, Free}
    BY <1>15 DEF FaultStep, Break, AgentRestart, Hibernate, ManagerRestart, AuditFails, agentVars
  <2>3. \A x \in Requests : requests'[x].op = requests[x].op
    <3>1. CASE UNCHANGED requests
      BY <3>1
    <3>2. CASE ManagerRestart
      BY <1>0, <3>2 DEF ManagerRestart, Made
    <3>3. ASSUME NEW r \in Requests, AuditFails(r)
          PROVE  <2>3
      <4>1. requests[r] \in Made /\ requests' = [requests EXCEPT ![r].at = "done"]
        BY <1>0, <3>3 DEF AuditFails, NoRequest
      <4> QED BY <1>0, <4>1 DEF Made
    <3> QED BY <1>15, <3>1, <3>2, <3>3 DEF FaultStep, Break, AgentRestart, Hibernate, askVars
  <2>4. busy' = busy \/ WorkedFor(busy)'
    BY <2>2 DEF WorkedFor
  <2> QED BY <1>1, <2>1, <2>3, <2>4
<1>16. CASE UNCHANGED rconVars
  BY <1>1, <1>16 DEF rconVars, agentVars, askVars
<1> QED BY <1>2, <1>3, <1>4, <1>5, <1>6, <1>7, <1>8, <1>9, <1>11, <1>12, <1>13, <1>14, <1>15, <1>16
        DEF RconNext, AgentStep, AskStep

\* A session that has been drawn stays as it is, or ends.
LEMMA Shrinks ==
  ASSUME RconAssumption, TypeOK, Drawn, [RconNext]_rconVars, NEW s \in drawn
  PROVE  /\ s \in Sessions /\ s \in drawn'
         /\ Live(s)' => Live(s) /\ sessions'[s].server = sessions[s].server
<1>0. /\ sessions \in [Sessions -> {Gone} \cup Open] /\ drawn \subseteq Sessions /\ s \in Sessions
      /\ busy \in {Free} \cup Working
  BY Types
<1>1. CASE UNCHANGED <<sessions, drawn>>
  BY <1>0, <1>1 DEF Live
<1>2. CASE Connect
  <2>1. PICK q \in Question :
             \/ \E x \in Sessions \ drawn :
                  /\ sessions' = [sessions EXCEPT ![x] = [server |-> q.server, idle |-> 0]]
                  /\ drawn' = drawn \cup {x}
             \/ UNCHANGED <<sessions, drawn>>
    BY <1>2, ConnectDoes
  <2> QED BY <1>0, <1>1, <2>1 DEF Live
<1>3. CASE Touch
  <2>1. /\ UNCHANGED drawn
        /\ sessions' = IF Live(busy.session) THEN [sessions EXCEPT ![busy.session].idle = 0] ELSE sessions
    BY <1>3, TouchDoes
  <2>2. Live(s) => [sessions[s] EXCEPT !.idle = 0].server = sessions[s].server
    BY <1>0 DEF Live, Open
  <2>3. busy.session \in Sessions
    BY <1>3, TouchDoes DEF Working
  <2> QED BY <1>0, <2>1, <2>2, <2>3 DEF Live
<1>4. CASE Disconnect
  <2>1. PICK q \in Question : sessions' = [sessions EXCEPT ![q.session] = Gone]
    BY <1>4, DisconnectDoes
  <2> QED BY <1>0, <1>4, <2>1, DisconnectDoes DEF Live
<1>5. CASE Minute
  <2>1. Live(s) => [sessions[s] EXCEPT !.idle = @ + 1].server = sessions[s].server
    BY <1>0 DEF Live, Open
  <2> QED BY <1>0, <1>5, <2>1 DEF Minute, Live
<1>6. CASE CleanupIdleSessions
  BY <1>0, <1>6 DEF CleanupIdleSessions, Live
<1>7. CASE AskStep
  BY <1>1, <1>7, Apart
<1>8. CASE FaultStep
  BY <1>0, <1>8 DEF FaultStep, Break, AgentRestart, Hibernate, ManagerRestart, AuditFails, agentVars, Live
<1>9. CASE Find \/ Execute
  BY <1>1, <1>9, FindDoes, ExecuteDoes
<1> QED BY <1>1, <1>2, <1>3, <1>4, <1>5, <1>6, <1>7, <1>8, <1>9 DEF RconNext, AgentStep, rconVars, agentVars

\* The answer that is being handled says that s is disconnected.
Closing(s) ==
  /\ Heard(Head(toManager)) /\ Head(toManager).op = "disconnect" /\ Head(toManager).ok
  /\ Head(toManager).session = s

\* Only this makes the DO forget a session without a trace.
LEMMA KnownKept ==
  ASSUME RconAssumption, TypeOK, Agreed, [RconNext]_rconVars, NEW s \in Sessions, Known(s)
  PROVE  Known(s)' \/ Closing(s)
<1>0. /\ requests \in [Requests -> {NoRequest} \cup Made]
      /\ rconSessions \in [Sessions -> Servers \cup {"none"}] /\ "none" \notin Servers
  BY Types DEF RconAssumption
<1>1. CASE UNCHANGED <<rconSessions, forgotten>>
  BY <1>1 DEF Known
<1>2. CASE HandleInboxReply
  <2>1. PICK a \in Answer :
          /\ Heard(a) /\ a.from \in Requests
          /\ \/ requests[a.from].at = "asked" /\ Answered(a.from, a)
             \/ UNCHANGED <<requests, terminals, rconSessions>>
    BY <1>2, InboxDoes
  <2>2. a = Head(toManager) /\ a \in Elems(toManager)
    BY <2>1 DEF Heard
  <2>3. CASE requests[a.from].at = "asked" /\ Answered(a.from, a)
    <3>1. requests[a.from] \in Made
      BY <1>0, <2>1, <2>3 DEF NoRequest
    <3>2. rconSessions' = Remembered(requests[a.from], a) /\ requests[a.from].server # "none"
      BY <1>0, <2>3, <3>1 DEF Answered, Made
    <3>3. a.op = requests[a.from].op /\ (a.op # "connect" => a.session = requests[a.from].session)
      BY <2>1, <2>2 DEF Agreed, AnsweredFor
    <3>4. CASE a.op = "disconnect" /\ a.ok /\ a.session = s
      BY <2>1, <2>2, <3>4 DEF Closing
    <3>5. CASE ~(a.op = "disconnect" /\ a.ok /\ a.session = s)
      <4>1. rconSessions[s] # "none" => rconSessions'[s] # "none"
        BY <1>0, <3>2, <3>3, <3>5 DEF Remembered
      <4> QED BY <1>2, <4>1, InboxDoes DEF Known
    <3> QED BY <3>4, <3>5
  <2> QED BY <1>1, <1>2, <2>1, <2>3, InboxDoes
<1>3. CASE AskStep /\ ~HandleInboxReply
  BY <1>1, <1>3 DEF AskStep, Mount, SendCommand, Unmount, Audit, Timeout, OneShot, ShotTimeout, ShotReply
<1>4. CASE FaultStep
  <2>1. CASE Forget
    BY <2>1 DEF Forget, Known
  <2> QED BY <1>4, <2>1 DEF FaultStep, Break, AgentRestart, Hibernate, ManagerRestart, AuditFails, askVars, Known
<1>5. CASE AgentStep \/ Minute
  BY <1>1, <1>5, Apart
<1> QED BY <1>1, <1>2, <1>3, <1>4, <1>5 DEF RconNext, rconVars

\* A session that is disconnected has ended, and so one that is kept stays so.
LEMMA KeptKept ==
  ASSUME RconAssumption, TypeOK, Drawn, Agreed, Last, [RconNext]_rconVars, NEW s \in drawn, NEW server, Kept(s, server)
  PROVE  Kept(s, server)'
<1>1. s \in Sessions /\ (Live(s)' => Live(s) /\ sessions'[s].server = sessions[s].server)
  BY Shrinks
<1>2. Closing(s) => ~Live(s)
  <2>1. toManager # <<>> /\ toManager \in Seq(Answer) => 1 \in 1 .. Len(toManager)
    BY LenProperties, EmptySeq
  <2>2. toManager \in Seq(Answer)
    BY Types
  <2> QED BY <2>1, <2>2 DEF Closing, Heard, Last
<1>3. Live(s) => Known(s)' \/ Closing(s)
  BY <1>1, KnownKept DEF Kept
<1> QED BY <1>1, <1>2, <1>3 DEF Kept

\* What is remembered stays so, if what is new is remembered.
LEMMA RememberedStays ==
  ASSUME RconAssumption, TypeOK, Drawn, Agreed, Remembering, Last, [RconNext]_rconVars,
         \A t \in Terminals : terminals'[t].session # "none" =>
           terminals'[t].session = terminals[t].session \/ Kept(terminals[t].session, terminals[t].server)',
         \A q \in Elems(toAgent') \ Elems(toAgent) : q.op = "command" /\ q.from \in Requests =>
           Kept(q.session, requests[q.from].server)',
         busy' # Free /\ busy'.from \in Requests =>
           \/ busy # Free /\ busy'.from = busy.from /\ busy'.session = busy.session
           \/ Kept(busy.session, requests[busy.from].server)',
         \A a \in Elems(toManager') \ Elems(toManager) : AnswerKept(a)',
         \A r \in Requests : ran'[r] = ran[r] \/ ran'[r] = requests[r].server
  PROVE  Remembering'
<1>0. /\ toAgent \in Seq(Question) /\ toManager \in Seq(Answer)
  BY Types
<1>1. ASSUME NEW t \in Terminals, terminals'[t].session # "none", terminals'[t].session = terminals[t].session
      PROVE  Kept(terminals[t].session, terminals[t].server)'
  <2>1. PICK s, server : s = terminals[t].session /\ server = terminals[t].server
    OBVIOUS
  <2>2. s \in drawn /\ Kept(s, server)
    BY <1>1, <2>1 DEF Drawn, Remembering
  <2>3. Kept(s, server)'
    BY <2>2, KeptKept
  <2>4. terminals'[t].session = s /\ terminals'[t].server = server
    BY <1>1, <2>1, Firm
  <2> QED BY <2>3, <2>4 DEF Kept, Known, Live
<1>2. ASSUME NEW q \in Elems(toAgent), q.op = "command", q.from \in Requests
      PROVE  Kept(q.session, requests[q.from].server)'
  <2>1. PICK s, server : s = q.session /\ server = requests[q.from].server
    OBVIOUS
  <2>2. s \in drawn /\ Kept(s, server)
    BY <1>2, <2>1 DEF Drawn, Remembering
  <2>3. Kept(s, server)'
    BY <2>2, KeptKept
  <2>4. requests'[q.from].server = server
    BY <1>2, <2>1, Firm DEF Agreed, AskedFor
  <2> QED BY <2>1, <2>3, <2>4 DEF Kept, Known, Live
<1>3. ASSUME busy # Free, busy.from \in Requests, busy'.from = busy.from, busy'.session = busy.session
      PROVE  Kept(busy.session, requests[busy.from].server)'
  <2>1. PICK s, server : s = busy.session /\ server = requests[busy.from].server
    OBVIOUS
  <2>2. s \in drawn /\ Kept(s, server)
    BY <1>3, <2>1 DEF Drawn, Remembering
  <2>3. Kept(s, server)'
    BY <2>2, KeptKept
  <2>4. requests'[busy.from].server = server
    BY <1>3, <2>1, Firm DEF Agreed, WorkedFor
  <2> QED BY <1>3, <2>1, <2>3, <2>4 DEF Kept, Known, Live
<1>4. ASSUME NEW a \in Elems(toManager), a \in Elems(toManager')
      PROVE  AnswerKept(a)'
  <2>1. a.ok => a.session \in drawn
    BY DEF Drawn
  <2>2. a.from \in Requests => a.op = requests[a.from].op
    BY DEF Agreed, AnsweredFor
  <2>3. ASSUME a.op = "connect", a.ok, a.from \in Requests, Live(a.session)'
        PROVE  sessions'[a.session].server = requests'[a.from].server
    <3>1. Live(a.session) /\ sessions'[a.session].server = sessions[a.session].server
      BY <2>1, <2>3, Shrinks
    <3>2. requests'[a.from].server = requests[a.from].server
      BY <2>2, <2>3, Firm
    <3> QED BY <2>3, <3>1, <3>2 DEF Remembering, AnswerKept
  <2>4. ASSUME a.op = "command", a.ok, a.from \in Requests
        PROVE  Known(a.session)' /\ ran'[a.from] = requests'[a.from].server
    <3>1. Known(a.session) /\ ran[a.from] = requests[a.from].server
      BY <2>4 DEF Remembering, AnswerKept
    <3>2. requests'[a.from].server = requests[a.from].server
      BY <2>2, <2>4, Firm
    <3>3. ~Closing(a.session)
      <4>1. SUFFICES ASSUME Closing(a.session)
                     PROVE  FALSE
        OBVIOUS
      <4>2. /\ toManager' = Tail(toManager) /\ toManager # <<>> /\ Head(toManager) = toManager[1]
            /\ toManager[1].op = "disconnect" /\ toManager[1].ok /\ toManager[1].session = a.session
        BY <4>1 DEF Closing, Heard
      <4>3. PICK n \in 1 .. Len(toManager') : a = toManager'[n]
        BY <1>4 DEF Elems
      <4>4. /\ n + 1 \in 2 .. Len(toManager) /\ 1 \in 1 .. Len(toManager)
            /\ toManager[n + 1] = a
        BY <1>0, <4>2, <4>3, HeadTailProperties, EmptySeq
      <4> QED BY <2>4, <4>2, <4>4 DEF Last
    <3>4. a.session \in Sessions
      BY <2>1, <2>4, Shrinks
    <3>5. Known(a.session)'
      BY <3>1, <3>3, <3>4, KnownKept
    <3> QED BY <2>4, <3>1, <3>2, <3>5
  <2> QED BY <2>3, <2>4 DEF AnswerKept, Live, Known
<1>5. \A t \in Terminals : (terminals[t].session # "none")' => Kept(terminals[t].session, terminals[t].server)'
  BY <1>1
<1>6. \A q \in Elems(toAgent') : q.op = "command" /\ q.from \in Requests => Kept(q.session, requests[q.from].server)'
  BY <1>2
<1>7. (busy # Free /\ busy.from \in Requests)' => Kept(busy.session, requests[busy.from].server)'
  BY <1>3
<1>8. \A a \in Elems(toManager') : AnswerKept(a)'
  BY <1>4
<1> QED BY <1>5, <1>6, <1>7, <1>8 DEF Remembering

LEMMA RememberingKept ==
  ASSUME RconAssumption, TypeOK, Drawn, Agreed, Remembering, Last, [RconNext]_rconVars
  PROVE  Remembering'
<1> USE DEF RconAssumption
<1>0. /\ sessions \in [Sessions -> {Gone} \cup Open] /\ drawn \subseteq Sessions
      /\ requests \in [Requests -> {NoRequest} \cup Made] /\ terminals \in [Terminals -> Console]
      /\ busy \in {Free} \cup Working
      /\ rconSessions \in [Sessions -> Servers \cup {"none"}]
      /\ ran \in [Requests -> Servers \cup {"none"}]
  BY Types
<1>1. CASE Connect
  <2>1. PICK q \in Question :
          /\ Took(q) /\ q.op = "connect"
          /\ \/ \E s \in Sessions \ drawn :
                  /\ sessions' = [sessions EXCEPT ![s] = [server |-> q.server, idle |-> 0]]
                  /\ Said(Reply("connect", q.from, TRUE, s))
             \/ Said(Reply("connect", q.from, FALSE, "none"))
    BY <1>1, ConnectDoes
  <2>2. Elems(toAgent') \subseteq Elems(toAgent) /\ UNCHANGED <<busy, terminals, requests, ran>> /\ AskedFor(q)
    BY <1>1, <2>1, ConnectDoes DEF Took, Agreed
  <2>3. ASSUME NEW a \in Elems(toManager') \ Elems(toManager)
        PROVE  AnswerKept(a)'
    <3>1. CASE Said(Reply("connect", q.from, FALSE, "none"))
      BY <2>3, <3>1, SaidNo DEF AnswerKept
    <3>2. ASSUME NEW s \in Sessions,
                 sessions' = [sessions EXCEPT ![s] = [server |-> q.server, idle |-> 0]],
                 Said(Reply("connect", q.from, TRUE, s))
          PROVE  AnswerKept(a)'
      <4>1. a.op = "connect" /\ a.from = q.from /\ a.session = s
        BY <2>3, <3>2 DEF Said, Reply
      <4>2. sessions'[s].server = q.server
        BY <1>0, <3>2
      <4>3. a.from \in Requests => requests'[a.from].server = q.server
        BY <2>1, <2>2, <4>1 DEF AskedFor
      <4> QED BY <4>1, <4>2, <4>3 DEF AnswerKept
    <3> QED BY <2>1, <3>1, <3>2
  <2> QED BY <2>2, <2>3, RememberedStays
<1>2. CASE Find
  <2>1. PICK q \in Question :
          /\ Took(q) /\ q.op = "command" /\ q.session \in Sessions
          /\ \/ UNCHANGED toManager /\ busy' = Found(q.session, q.from)
             \/ UNCHANGED busy /\ Said(Reply("command", q.from, FALSE, q.session))
    BY <1>2, FindDoes
  <2>2. /\ Elems(toAgent') \subseteq Elems(toAgent) /\ q \in Elems(toAgent)
        /\ UNCHANGED <<sessions, rconSessions, forgotten, terminals, requests, ran>>
    BY <1>2, <2>1, FindDoes DEF Took
  <2>3. ASSUME NEW a \in Elems(toManager') \ Elems(toManager)
        PROVE  AnswerKept(a)'
    BY <2>1, <2>3, SaidNo DEF AnswerKept
  <2>4. ASSUME busy' # Free, busy'.from \in Requests
        PROVE  \/ busy # Free /\ busy'.from = busy.from /\ busy'.session = busy.session
               \/ Kept(busy.session, requests[busy.from].server)'
    <3>1. CASE busy' = busy
      BY <2>4, <3>1
    <3>2. CASE busy' = Found(q.session, q.from)
      <4>1. busy'.session = q.session /\ busy'.from = q.from
        BY <3>2 DEF Found
      <4>2. Kept(q.session, requests[q.from].server)
        BY <2>1, <2>2, <2>4, <4>1 DEF Remembering
      <4> QED BY <2>2, <4>1, <4>2 DEF Kept, Known, Live
    <3> QED BY <2>1, <3>1, <3>2
  <2> QED BY <2>2, <2>3, <2>4, RememberedStays
<1>3. CASE Touch \/ Minute \/ CleanupIdleSessions
  <2>1. UNCHANGED <<toAgent, toManager, terminals, requests, ran>>
    BY <1>3 DEF Touch, Minute, CleanupIdleSessions, askVars
  <2>2. busy' # Free => busy # Free /\ busy'.from = busy.from /\ busy'.session = busy.session
    <3>1. CASE Touch
      BY <3>1, TouchDoes DEF Working, Free
    <3>2. CASE Minute \/ CleanupIdleSessions
      BY <1>0, <3>2 DEF Minute, CleanupIdleSessions, Free, Working
    <3> QED BY <1>3, <3>1, <3>2
  <2> QED BY <2>1, <2>2, RememberedStays
<1>4. CASE Execute
  <2>0. busy # Free
    BY <1>4, ExecuteDoes DEF Working, Free
  <2>1. /\ busy \in Working /\ busy' = Free
        /\ UNCHANGED <<sessions, toAgent, rconSessions, forgotten, terminals, requests>>
        /\ \/ /\ Live(busy.session) /\ \E ok \in BOOLEAN : Said(Reply("command", busy.from, ok, busy.session))
              /\ ran' = IF busy.from \in Requests
                        THEN [ran EXCEPT ![busy.from] = sessions[busy.session].server] ELSE ran
           \/ UNCHANGED ran /\ Said(Reply("command", busy.from, FALSE, busy.session))
    BY <1>4, ExecuteDoes
  <2>2. busy.from \in Requests /\ Live(busy.session) =>
          Known(busy.session) /\ sessions[busy.session].server = requests[busy.from].server
    BY <2>0 DEF Remembering, Kept
  <2>3. \A r \in Requests : ran'[r] = ran[r] \/ ran'[r] = requests[r].server
    BY <1>0, <2>1, <2>2
  <2>4. ASSUME NEW a \in Elems(toManager') \ Elems(toManager)
        PROVE  AnswerKept(a)'
    <3>1. CASE Live(busy.session) /\ busy.from \in Requests
      <4>1. PICK ok \in BOOLEAN : Said(Reply("command", busy.from, ok, busy.session))
        BY <2>1
      <4>2. a.op = "command" /\ a.from = busy.from /\ a.session = busy.session
        BY <2>4, <4>1, SaidNew
      <4>3. a.ok => ran'[busy.from] = requests[busy.from].server
        <5>1. CASE ran' = [ran EXCEPT ![busy.from] = sessions[busy.session].server]
          BY <1>0, <2>2, <3>1, <5>1
        <5>2. CASE Said(Reply("command", busy.from, FALSE, busy.session))
          BY <2>4, <5>2, SaidNo
        <5> QED BY <2>1, <3>1, <5>1, <5>2
      <4> QED BY <2>1, <2>2, <3>1, <4>2, <4>3 DEF AnswerKept, Known
    <3>2. CASE ~Live(busy.session)
      <4>1. a.op = "command" /\ ~a.ok
        BY <2>1, <2>4, <3>2, SaidNo
      <4> QED BY <4>1 DEF AnswerKept
    <3>3. CASE busy.from \notin Requests
      <4>1. PICK ok \in BOOLEAN : Said(Reply("command", busy.from, ok, busy.session))
        BY <2>1
      <4>2. a.from \notin Requests
        BY <2>4, <3>3, <4>1, SaidNew
      <4> QED BY <4>2 DEF AnswerKept
    <3> QED BY <3>1, <3>2, <3>3
  <2> QED BY <2>0, <2>1, <2>3, <2>4, RememberedStays
<1>5. CASE Disconnect
  <2>1. PICK q \in Question :
          /\ Took(q)
          /\ \E ok \in BOOLEAN : Said(Reply("disconnect", q.from, ok, q.session))
    BY <1>5, DisconnectDoes
  <2>2. Elems(toAgent') \subseteq Elems(toAgent) /\ UNCHANGED <<busy, terminals, requests, ran>>
    BY <1>5, <2>1, DisconnectDoes DEF Took
  <2>3. \A a \in Elems(toManager') \ Elems(toManager) : a.op = "disconnect"
    BY <2>1, SaidNew
  <2>4. \A a \in Elems(toManager') \ Elems(toManager) : AnswerKept(a)'
    BY <2>3 DEF AnswerKept
  <2> QED BY <2>2, <2>4, RememberedStays
<1>6. ASSUME NEW t \in Terminals, NEW r \in Requests, Mount(t, r) \/ SendCommand(t, r) \/ Unmount(t, r)
      PROVE  Remembering'
  <2>1. UNCHANGED <<sessions, drawn, busy, ran, toManager, rconSessions, forgotten>>
    BY <1>6 DEF Mount, SendCommand, Unmount, agentVars
  <2>2. \A u \in Terminals : terminals'[u].session = terminals[u].session
    BY <1>0, <1>6 DEF Mount, SendCommand, Unmount, Console
  <2>3. ASSUME NEW q \in Elems(toAgent') \ Elems(toAgent), q.op = "command", q.from \in Requests
        PROVE  Kept(q.session, requests[q.from].server)'
    <3>1. CASE Mount(t, r)
      <4>1. Asked([op |-> "connect", server |-> terminals[t].server, from |-> r])
        BY <3>1, MountDoes
      <4> QED BY <2>3, <4>1 DEF Asked
    <3>2. ASSUME NEW op \in {"command", "disconnect"}, Relay(t, r, op)
          PROVE  Kept(q.session, requests[q.from].server)'
      <4>1. /\ requests' = [requests EXCEPT ![r] = Relaying(t, r, op)] /\ terminals[t].session # "none"
            /\ Asked([op |-> op, session |-> terminals[t].session, from |-> r])
        BY <3>2, RelayDoes
      <4>2. q.session = terminals[t].session /\ q.from = r
        BY <2>3, <4>1 DEF Asked
      <4>3. requests'[r].server = terminals[t].server
        BY <1>0, <4>1 DEF Relaying
      <4>4. Kept(terminals[t].session, terminals[t].server)
        BY <4>1 DEF Remembering
      <4> QED BY <2>1, <4>2, <4>3, <4>4 DEF Kept, Known, Live
    <3> QED BY <1>6, <2>3, <3>1, <3>2 DEF SendCommand, Unmount
  <2>4. [RconNext]_rconVars
    OBVIOUS
  <2> QED BY <2>1, <2>2, <2>3, RememberedStays
<1>7. ASSUME UNCHANGED <<busy, ran>>, Elems(toManager') \subseteq Elems(toManager),
             \A t \in Terminals : terminals'[t].session = terminals[t].session,
             \A q \in Elems(toAgent') \ Elems(toAgent) : q.from \notin Requests
      PROVE  Remembering'
  BY <1>7, RememberedStays
<1>8. ASSUME NEW k \in Shots, OneShot(k) \/ ShotTimeout(k)
      PROVE  Remembering'
  <2>1. \A q \in Elems(toAgent') \ Elems(toAgent) : q.from \notin Requests
    <3>1. CASE OneShot(k)
      <4>1. PICK server \in Servers : Asked([op |-> "connect", server |-> server, from |-> k])
        BY <3>1, OneShotDoes
      <4> QED BY <4>1 DEF Asked
    <3>2. CASE shots[k].at = "command" /\ ShotEnds(k)
      <4>1. Asked(Parting(k))
        BY <3>2, EndsDoes
      <4> QED BY <4>1 DEF Asked, Parting
    <3> QED BY <1>8, <3>1, <3>2 DEF ShotTimeout
  <2> QED BY <1>7, <1>8, <2>1 DEF OneShot, ShotTimeout, agentVars
<1>9. CASE ShotReply
  <2>1. PICK a \in Answer :
            /\ Heard(a) /\ a.from \in Shots
            /\ \/ Asked([op |-> "command", session |-> a.session, from |-> a.from])
               \/ Asked(Parting(a.from))
               \/ UNCHANGED toAgent
    BY <1>9, ShotReplyDoes
  <2>2. \A q \in Elems(toAgent') \ Elems(toAgent) : q.from \notin Requests
    BY <2>1 DEF Asked, Parting
  <2>3. Elems(toManager') \subseteq Elems(toManager)
    BY <2>1 DEF Heard
  <2> QED BY <1>7, <1>9, <2>2, <2>3, ShotReplyDoes
<1>10. ASSUME NEW r \in Requests, Audit(r) \/ Timeout(r)
       PROVE  Remembering'
  BY <1>7, <1>10 DEF Audit, Timeout, agentVars
<1>11. CASE HandleInboxReply
  <2>1. PICK a \in Answer :
          /\ Heard(a) /\ a.from \in Requests
          /\ \/ requests[a.from].at = "asked" /\ Answered(a.from, a)
             \/ UNCHANGED <<requests, terminals, rconSessions>>
    BY <1>11, InboxDoes
  <2>2. /\ UNCHANGED <<sessions, drawn, busy, ran, toAgent, forgotten>>
        /\ a \in Elems(toManager) /\ Elems(toManager') \subseteq Elems(toManager)
    BY <1>11, <2>1, InboxDoes DEF Heard
  <2>3. CASE UNCHANGED <<requests, terminals, rconSessions>>
    BY <1>7, <2>2, <2>3
  <2>4. CASE requests[a.from].at = "asked" /\ Answered(a.from, a)
    <3>1. requests[a.from] \in Made /\ a.op = requests[a.from].op /\ AnswerKept(a)
      BY <1>0, <2>1, <2>2, <2>4 DEF NoRequest, Agreed, AnsweredFor, Remembering
    <3>2. ASSUME NEW t \in Terminals, terminals'[t].session # "none", terminals'[t].session # terminals[t].session
          PROVE  Kept(terminals[t].session, terminals[t].server)'
      <4>1. /\ requests[a.from].op = "connect" /\ a.ok /\ t = requests[a.from].by
            /\ terminals'[t].session = a.session /\ terminals'[t].server = terminals[t].server
        BY <1>0, <2>4, <3>1, <3>2 DEF Answered, Console, Made
      <4>2. requests[a.from].server = terminals[t].server
        BY <2>1, <4>1 DEF Agreed
      <4>3. a.session \in Sessions
        BY <1>0, <2>2, <4>1 DEF Drawn
      <4>4. rconSessions'[a.session] = requests[a.from].server
        BY <1>0, <2>4, <4>1, <4>3 DEF Answered, Remembered
      <4>5. requests[a.from].server # "none"
        BY <3>1 DEF Made
      <4>6. Live(a.session) => sessions[a.session].server = terminals[t].server
        BY <2>1, <3>1, <4>1, <4>2 DEF AnswerKept
      <4> QED BY <2>2, <4>1, <4>4, <4>5, <4>6 DEF Kept, Known, Live
    <3> QED BY <2>2, <3>2, RememberedStays
  <2> QED BY <2>1, <2>3, <2>4
<1>12. CASE FaultStep
  <2>1. Elems(toAgent') \subseteq Elems(toAgent) /\ Elems(toManager') \subseteq Elems(toManager)
    BY <1>12, Emptied DEF FaultStep, Break, AgentRestart, Hibernate, ManagerRestart, AuditFails
  <2>2. busy' \in {busy, Free}
    BY <1>12 DEF FaultStep, Break, AgentRestart, Hibernate, ManagerRestart, AuditFails, agentVars
  <2>3. \A t \in Terminals : terminals'[t].session = terminals[t].session
    BY <1>0, <1>12 DEF FaultStep, Break, AgentRestart, Hibernate, ManagerRestart, AuditFails, askVars, Console
  <2>4. UNCHANGED ran
    BY <1>12, Apart
  <2> QED BY <2>1, <2>2, <2>3, <2>4, RememberedStays
<1>13. CASE UNCHANGED rconVars
  BY <1>7, <1>13 DEF rconVars, agentVars, askVars
<1> QED BY <1>1, <1>2, <1>3, <1>4, <1>5, <1>6, <1>8, <1>9, <1>10, <1>11, <1>12, <1>13
        DEF RconNext, AgentStep, AskStep

\* What was the last answer of a session stays so, whatever becomes of the queue.
LEMMA LastStays ==
  ASSUME RconAssumption, TypeOK, Drawn, Last, [RconNext]_rconVars,
         \/ toManager' = toManager
         \/ toManager # <<>> /\ toManager' = Tail(toManager)
         \/ toManager' = <<>>
         \/ \E a \in Answer : /\ toManager' = Append(toManager, a)
                              /\ a.op = "command" /\ a.ok => Live(a.session)
                              /\ a.op = "disconnect" /\ a.ok => a.session \in drawn /\ ~Live(a.session)'
  PROVE  Last'
<1>0. toManager \in Seq(Answer) /\ Len(toManager) \in Nat
  BY Types, LenProperties
<1>1. ASSUME NEW s \in drawn, ~Live(s)
      PROVE  ~Live(s)' /\ s \in drawn'
  BY <1>1, Shrinks
<1>2. CASE toManager' = toManager
  BY <1>1, <1>2 DEF Last, Live
<1>3. CASE toManager # <<>> /\ toManager' = Tail(toManager)
  <2>1. ASSUME NEW m \in 1 .. Len(toManager')
        PROVE  /\ m + 1 \in 1 .. Len(toManager) /\ toManager'[m] = toManager[m + 1]
               /\ \A n \in m + 1 .. Len(toManager') :
                    n + 1 \in (m + 1) + 1 .. Len(toManager) /\ toManager'[n] = toManager[n + 1]
    BY <1>0, <1>3, HeadTailProperties, EmptySeq
  <2>2. ASSUME NEW m \in 1 .. Len(toManager'), toManager'[m].op = "disconnect", toManager'[m].ok
        PROVE  /\ toManager'[m].session \in drawn' /\ ~Live(toManager[m].session)'
               /\ \A n \in m + 1 .. Len(toManager') :
                    toManager'[n].op = "command" /\ toManager'[n].ok => toManager'[n].session # toManager'[m].session
    <3>1. /\ toManager[m + 1].session \in drawn /\ ~Live(toManager[m + 1].session)
          /\ \A n \in (m + 1) + 1 .. Len(toManager) :
               toManager[n].op = "command" /\ toManager[n].ok => toManager[n].session # toManager[m + 1].session
      BY <2>1, <2>2 DEF Last
    <3>2. PICK s \in drawn : s = toManager[m + 1].session /\ ~Live(s)
      BY <3>1
    <3>3. ~Live(s)' /\ s \in drawn' /\ toManager'[m].session = s
      BY <1>1, <2>1, <3>2
    <3> QED BY <2>1, <3>1, <3>2, <3>3 DEF Live
  <2> QED BY <2>2 DEF Last
<1>4. CASE toManager' = <<>>
  BY <1>4 DEF Last
<1>5. ASSUME NEW a \in Answer, toManager' = Append(toManager, a),
             a.op = "command" /\ a.ok => Live(a.session),
             a.op = "disconnect" /\ a.ok => a.session \in drawn /\ ~Live(a.session)'
      PROVE  Last'
  <2>1. /\ Len(toManager') = Len(toManager) + 1 /\ toManager'[Len(toManager) + 1] = a
        /\ \A n \in 1 .. Len(toManager) : toManager'[n] = toManager[n]
    BY <1>0, <1>5, AppendProperties
  <2>2. ASSUME NEW m \in 1 .. Len(toManager'), toManager'[m].op = "disconnect", toManager'[m].ok
        PROVE  /\ toManager'[m].session \in drawn' /\ ~Live(toManager[m].session)'
               /\ \A n \in m + 1 .. Len(toManager') :
                    toManager'[n].op = "command" /\ toManager'[n].ok => toManager'[n].session # toManager'[m].session
    <3>1. CASE m \in 1 .. Len(toManager)
      <4>1. /\ toManager'[m] = toManager[m] /\ toManager[m].session \in drawn /\ ~Live(toManager[m].session)
            /\ \A n \in m + 1 .. Len(toManager) :
                 toManager[n].op = "command" /\ toManager[n].ok => toManager[n].session # toManager[m].session
        BY <2>1, <2>2, <3>1 DEF Last
      <4>2. ASSUME NEW n \in m + 1 .. Len(toManager'), toManager'[n].op = "command", toManager'[n].ok
            PROVE  toManager'[n].session # toManager'[m].session
        <5>1. CASE n \in m + 1 .. Len(toManager)
          BY <1>0, <2>1, <3>1, <4>1, <4>2, <5>1
        <5>2. CASE n = Len(toManager) + 1
          BY <1>5, <2>1, <4>1, <4>2, <5>2
        <5> QED BY <1>0, <2>1, <3>1, <5>1, <5>2
      <4>3. ~Live(toManager[m].session)'
        <5>1. PICK s \in drawn : s = toManager[m].session /\ ~Live(s)
          BY <4>1
        <5>2. ~Live(s)'
          BY <1>1, <5>1
        <5> QED BY <4>1, <5>1, <5>2 DEF Live
      <4> QED BY <1>1, <4>1, <4>2, <4>3
    <3>2. CASE m = Len(toManager) + 1
      <4>1. toManager'[m] = a /\ m + 1 .. Len(toManager') = {}
        BY <1>0, <2>1, <3>2
      <4>2. a.session \in drawn /\ ~Live(a.session)'
        BY <1>5, <2>2, <4>1
      <4>3. a.session \in drawn'
        BY <4>2, Shrinks
      <4> QED BY <4>1, <4>2, <4>3 DEF Live
    <3> QED BY <1>0, <2>1, <3>1, <3>2
  <2> QED BY <2>2 DEF Last
<1> QED BY <1>2, <1>3, <1>4, <1>5

LEMMA LastKept ==
  ASSUME RconAssumption, TypeOK, Drawn, Last, [RconNext]_rconVars
  PROVE  Last'
<1>1. ASSUME NEW op, NEW from, NEW ok, NEW s, Said(Reply(op, from, ok, s)),
             op = "command" /\ ok => Live(s), op = "disconnect" /\ ok => s \in drawn /\ ~Live(s)'
      PROVE  Last'
  <2>1. /\ Reply(op, from, ok, s).op = op /\ Reply(op, from, ok, s).ok = ok
        /\ Reply(op, from, ok, s).session = s
    BY DEF Reply
  <2>2. CASE toManager' = Append(toManager, Reply(op, from, ok, s))
    <3>1. Reply(op, from, ok, s) \in Answer
      <4>1. toManager' \in Seq(Answer) /\ toManager \in Seq(Answer)
        BY <1>1, Types DEF Said
      <4>2. Reply(op, from, ok, s) \in Elems(toManager')
        BY <1>1, <2>2 DEF Said
      <4> QED BY <4>1, <4>2, ElemsTyped
    <3> HIDE DEF Reply
    <3>2. PICK a \in Answer : a = Reply(op, from, ok, s)
      BY <3>1
    <3> QED BY <1>1, <2>1, <2>2, <3>2, LastStays
  <2> QED BY <1>1, <2>2, LastStays DEF Said
<1>2. ASSUME NEW op, NEW from, NEW s, op # "disconnect", Said(Reply(op, from, FALSE, s))
      PROVE  Last'
  <2>1. PICK ok \in BOOLEAN : ~ok /\ Said(Reply(op, from, ok, s))
    BY <1>2
  <2> QED BY <1>1, <1>2, <2>1
<1>3. CASE Connect
  <2>1. PICK q \in Question :
             \/ \E s \in Sessions \ drawn : Said(Reply("connect", q.from, TRUE, s))
             \/ Said(Reply("connect", q.from, FALSE, "none"))
    BY <1>3, ConnectDoes
  <2>2. \E ok \in BOOLEAN : \E s : Said(Reply("connect", q.from, ok, s))
    BY <2>1
  <2> QED BY <1>1, <2>2
<1>4. CASE Find
  <2>1. PICK q \in Question :
          \/ UNCHANGED toManager
          \/ Said(Reply("command", q.from, FALSE, q.session))
    BY <1>4, FindDoes
  <2> QED BY <1>2, <2>1, LastStays
<1>5. CASE Execute
  <2>1. \/ Live(busy.session) /\ \E ok \in BOOLEAN : Said(Reply("command", busy.from, ok, busy.session))
        \/ Said(Reply("command", busy.from, FALSE, busy.session))
    BY <1>5, ExecuteDoes
  <2>2. PICK s, from : s = busy.session /\ from = busy.from
    OBVIOUS
  <2> QED BY <1>1, <1>2, <2>1, <2>2
<1>6. CASE Disconnect
  <2>1. PICK q \in Question :
          /\ Took(q) /\ q.op = "disconnect" /\ q.session \in Sessions
          /\ sessions' = [sessions EXCEPT ![q.session] = Gone]
          /\ \E ok \in BOOLEAN : Said(Reply("disconnect", q.from, ok, q.session))
    BY <1>6, DisconnectDoes
  <2>2. q.session \in drawn
    BY <2>1 DEF Drawn, Took
  <2>3. ~Live(q.session)'
    BY <2>1, Types DEF Live
  <2> QED BY <1>1, <2>1, <2>2, <2>3
<1>7. CASE HandleInboxReply \/ ShotReply
  BY <1>7, LastStays DEF HandleInboxReply, ShotReply
<1>8. CASE Touch \/ Minute \/ CleanupIdleSessions
  BY <1>8, LastStays DEF Touch, Minute, CleanupIdleSessions
<1>9. CASE AskStep /\ ~HandleInboxReply /\ ~ShotReply
  <2>1. UNCHANGED toManager
    BY <1>9 DEF AskStep, Mount, SendCommand, Unmount, Audit, Timeout, OneShot, ShotTimeout
  <2> QED BY <2>1, LastStays
<1>10. CASE FaultStep
  <2>1. toManager' = toManager \/ toManager' = <<>>
    BY <1>10 DEF FaultStep, Break, AgentRestart, Hibernate, ManagerRestart, AuditFails
  <2> QED BY <2>1, LastStays
<1>11. CASE UNCHANGED rconVars
  BY <1>11, LastStays DEF rconVars
<1> QED BY <1>3, <1>4, <1>5, <1>6, <1>7, <1>8, <1>9, <1>10, <1>11 DEF RconNext, AgentStep

\* What is recorded of a request.
RowOf(r) ==
  LET q == requests[r] IN
  /\ q.op \in {"command", "disconnect"} => q.session # "none"
  /\ q.at = "asked" => ~q.ok
  /\ q.at = "auditing" => q.op = "command" /\ q.ok
  /\ q.op = "command" /\ q.at # "asked" /\ q.ok =>
       /\ ran[r] = q.server
       /\ q.at = "done" /\ q.session \notin forgotten => audit[r] = q.server

LEMMA RecordedKept ==
  ASSUME RconAssumption, TypeOK, Drawn, Agreed, Remembering, Recorded, [RconNext]_rconVars
  PROVE  Recorded'
<1>0. /\ requests \in [Requests -> {NoRequest} \cup Made]
      /\ ran \in [Requests -> Servers \cup {"none"}] /\ audit \in [Requests -> Servers \cup {"none"}]
  BY Types
<1>1. ASSUME NEW r \in Requests
      PROVE  RowOf(r)
  BY DEF Recorded, RowOf
<1>2. ASSUME \A r \in Requests : RowOf(r)'
      PROVE  Recorded'
  BY <1>2 DEF Recorded, RowOf
<1>3. ASSUME NEW r \in Requests, requests'[r] = requests[r], ran'[r] = ran[r], audit'[r] = audit[r],
             forgotten \subseteq forgotten'
      PROVE  RowOf(r)'
  BY <1>1, <1>3 DEF RowOf
<1>4. CASE Execute
  <2>1. /\ busy # Free /\ UNCHANGED <<requests, audit, forgotten>>
        /\ \/ /\ Live(busy.session)
              /\ ran' = IF busy.from \in Requests
                        THEN [ran EXCEPT ![busy.from] = sessions[busy.session].server] ELSE ran
           \/ UNCHANGED ran
    <3>1. busy # Free
      BY <1>4, ExecuteDoes DEF Working, Free
    <3> QED BY <1>4, <3>1, ExecuteDoes
  <2>2. Live(busy.session) /\ busy.from \in Requests =>
          requests[busy.from].op = "command" /\ sessions[busy.session].server = requests[busy.from].server
    BY <2>1 DEF Remembering, Kept, Agreed, WorkedFor
  <2>3. ASSUME NEW r \in Requests
        PROVE  RowOf(r)'
    <3>1. ran'[r] = ran[r] \/ ran'[r] = requests[r].server
      BY <1>0, <2>1, <2>2
    <3> QED BY <1>1, <2>1, <3>1 DEF RowOf
  <2> QED BY <1>2, <2>3
<1>5. CASE (AgentStep \/ Minute) /\ ~Execute
  <2>1. UNCHANGED ran
    BY <1>5 DEF AgentStep, Connect, Find, Touch, Disconnect, CleanupIdleSessions, Minute
  <2> QED BY <1>2, <1>3, <1>5, <2>1, Apart
<1>6. ASSUME NEW t \in Terminals, NEW r \in Requests, Mount(t, r) \/ SendCommand(t, r) \/ Unmount(t, r)
      PROVE  Recorded'
  <2>1. UNCHANGED <<ran, audit, forgotten>>
    BY <1>6 DEF Mount, SendCommand, Unmount, agentVars
  <2>2. ASSUME \A x \in Requests \ {r} : requests'[x] = requests[x],
               requests'[r].at = "asked", ~requests'[r].ok,
               requests'[r].op # "connect" => requests'[r].session # "none"
        PROVE  Recorded'
    <3>1. RowOf(r)'
      BY <2>2 DEF RowOf
    <3> QED BY <1>2, <1>3, <2>1, <2>2, <3>1
  <2>3. CASE Mount(t, r)
    <3>1. requests' = [requests EXCEPT ![r] = Connecting(t, r)]
      BY <2>3, MountDoes
    <3> QED BY <1>0, <2>2, <3>1 DEF Connecting
  <2>4. ASSUME NEW op \in {"command", "disconnect"}, Relay(t, r, op)
        PROVE  Recorded'
    <3>1. requests' = [requests EXCEPT ![r] = Relaying(t, r, op)] /\ terminals[t].session # "none"
      BY <2>4, RelayDoes
    <3> QED BY <1>0, <2>2, <3>1 DEF Relaying
  <2>5. CASE UNCHANGED requests
    BY <1>2, <1>3, <2>1, <2>5
  <2> QED BY <1>6, <2>3, <2>4, <2>5 DEF SendCommand, Unmount
<1>7. ASSUME NEW r \in Requests, requests[r] \in Made, requests' = [requests EXCEPT ![r].at = "done"],
             UNCHANGED ran, forgotten \subseteq forgotten', \A x \in Requests \ {r} : audit'[x] = audit[x],
             \/ requests[r].at = "asked"
             \/ audit'[r] = requests[r].server
             \/ requests[r].session \in forgotten'
      PROVE  Recorded'
  <2>1. \A x \in Requests \ {r} : requests'[x] = requests[x]
    BY <1>0, <1>7
  <2>2. /\ requests'[r].at = "done" /\ requests'[r].ok = requests[r].ok
        /\ requests'[r].op = requests[r].op /\ requests'[r].session = requests[r].session
        /\ requests'[r].server = requests[r].server
    BY <1>0, <1>7 DEF Made
  <2>3. RowOf(r)'
    BY <1>1, <1>7, <2>2 DEF RowOf
  <2> QED BY <1>2, <1>3, <1>7, <2>1, <2>3
<1>8. ASSUME NEW r \in Requests, Audit(r) \/ Timeout(r) \/ AuditFails(r)
      PROVE  Recorded'
  <2>1. requests[r] \in Made
    BY <1>0, <1>8 DEF Audit, Timeout, AuditFails, Expected, NoRequest
  <2> QED BY <1>0, <1>7, <1>8, <2>1 DEF Audit, Timeout, AuditFails, Expected, agentVars
<1>9. CASE UNCHANGED <<requests, ran, audit>> /\ forgotten \subseteq forgotten'
  BY <1>2, <1>3, <1>9
<1>10. CASE HandleInboxReply
  <2>1. PICK a \in Answer :
          /\ Heard(a) /\ a.from \in Requests
          /\ \/ requests[a.from].at = "asked" /\ Answered(a.from, a)
             \/ UNCHANGED <<requests, terminals, rconSessions>>
    BY <1>10, InboxDoes
  <2>2. UNCHANGED <<ran, audit, forgotten>> /\ a \in Elems(toManager) /\ a.ok \in BOOLEAN
    BY <1>10, <2>1, InboxDoes DEF Heard, Answer
  <2>3. CASE requests[a.from].at = "asked" /\ Answered(a.from, a)
    <3>1. requests[a.from] \in Made /\ AnsweredFor(a) /\ AnswerKept(a)
      BY <1>0, <2>1, <2>2, <2>3 DEF NoRequest, Agreed, Remembering
    <3>2. PICK at \in {"auditing", "done"} :
            /\ requests' = [requests EXCEPT ![a.from].ok = a.ok, ![a.from].at = at]
            /\ at = "auditing" <=>
                 requests[a.from].op = "command" /\ a.ok /\ rconSessions[requests[a.from].session] # "none"
      BY <2>3 DEF Answered
    <3>3. \A x \in Requests \ {a.from} : requests'[x] = requests[x]
      BY <1>0, <3>2
    <3>4. /\ requests'[a.from].at = at /\ requests'[a.from].ok = a.ok
          /\ requests'[a.from].op = requests[a.from].op
          /\ requests'[a.from].session = requests[a.from].session
          /\ requests'[a.from].server = requests[a.from].server
      <4>1. /\ [requests[a.from] EXCEPT !.ok = a.ok] \in Made
            /\ [requests[a.from] EXCEPT !.ok = a.ok].ok = a.ok
            /\ [requests[a.from] EXCEPT !.ok = a.ok].op = requests[a.from].op
            /\ [requests[a.from] EXCEPT !.ok = a.ok].session = requests[a.from].session
            /\ [requests[a.from] EXCEPT !.ok = a.ok].server = requests[a.from].server
        BY <2>2, <3>1 DEF Made
      <4>2. requests'[a.from] = [[requests[a.from] EXCEPT !.ok = a.ok] EXCEPT !.at = at]
        BY <1>0, <2>1, <3>2
      <4> QED BY <4>1, <4>2 DEF Made
    <3>5. requests[a.from].op = "command" /\ a.ok =>
            /\ ran[a.from] = requests[a.from].server
            /\ Known(requests[a.from].session)
      BY <2>1, <3>1 DEF AnsweredFor, AnswerKept
    <3>6. RowOf(a.from)'
      BY <1>1, <2>1, <2>2, <3>2, <3>4, <3>5 DEF RowOf, Known
    <3> QED BY <1>2, <1>3, <2>2, <3>3, <3>6
  <2> QED BY <1>9, <2>1, <2>2, <2>3
<1>11. CASE AskStep
  <2>1. CASE ShotReply \/ \E k \in Shots : OneShot(k) \/ ShotTimeout(k)
    BY <1>9, <2>1 DEF ShotReply, OneShot, ShotTimeout, agentVars
  <2> QED BY <1>6, <1>8, <1>10, <1>11, <2>1 DEF AskStep
<1>12. CASE Break \/ AgentRestart \/ Hibernate
  BY <1>9, <1>12 DEF Break, AgentRestart, Hibernate, Forget, agentVars, askVars
<1>13. CASE ManagerRestart
  <2>1. /\ UNCHANGED <<ran, audit>> /\ forgotten \subseteq forgotten'
        /\ \A r \in Requests : requests[r].at = "auditing" => requests[r].session \in forgotten'
        /\ requests' = [r \in Requests |->
             IF requests[r] = NoRequest THEN NoRequest ELSE [requests[r] EXCEPT !.at = "done"]]
    BY <1>13 DEF ManagerRestart, Forget, agentVars
  <2>2. ASSUME NEW r \in Requests
        PROVE  RowOf(r)'
    <3>1. CASE requests[r] = NoRequest
      BY <1>3, <2>1, <3>1
    <3>2. CASE requests[r] \in Made
      <4>1. requests'[r] = [requests[r] EXCEPT !.at = "done"]
        <5>1. requests[r] # NoRequest
          BY <3>2 DEF Made, NoRequest
        <5> QED BY <2>1, <5>1
      <4>2. /\ requests'[r].at = "done" /\ requests'[r].ok = requests[r].ok
            /\ requests'[r].op = requests[r].op /\ requests'[r].session = requests[r].session
            /\ requests'[r].server = requests[r].server /\ requests[r].at \in {"asked", "auditing", "done"}
        BY <3>2, <4>1 DEF Made
      <4> QED BY <1>1, <2>1, <4>2 DEF RowOf
    <3> QED BY <1>0, <3>1, <3>2
  <2> QED BY <1>2, <2>2
<1>14. CASE FaultStep
  BY <1>8, <1>12, <1>13, <1>14 DEF FaultStep
<1>15. CASE UNCHANGED rconVars
  BY <1>9, <1>15 DEF rconVars, agentVars, askVars
<1> QED BY <1>4, <1>5, <1>11, <1>14, <1>15 DEF RconNext

LEMMA TidiedKept ==
  ASSUME RconAssumption, TypeOK, Drawn, Tidied, [RconNext]_rconVars
  PROVE  Tidied'
<1> USE DEF RconAssumption
<1>0. /\ shots \in [Shots -> Shot] /\ sessions \in [Sessions -> {Gone} \cup Open]
  BY Types
<1>1. ASSUME UNCHANGED shots,
             \A k \in Shots : shots[k].session # "none" /\ Live(shots[k].session)' =>
               \A q \in Elems(toAgent) : q.op = "disconnect" /\ q.session = shots[k].session =>
                 q \in Elems(toAgent')
      PROVE  Tidied'
  <2>1. ASSUME NEW k \in Shots, shots[k].at = "done", shots[k].session # "none", Live(shots[k].session)'
        PROVE  \E q \in Elems(toAgent') : q.op = "disconnect" /\ q.session = shots[k].session
    <3>1. PICK s \in drawn : s = shots[k].session
      BY <2>1 DEF Drawn
    <3>2. Live(s)'
      BY <1>1, <2>1, <3>1 DEF Live
    <3>3. Live(s)
      BY <3>2, Shrinks
    <3> QED BY <1>1, <2>1, <3>1, <3>3 DEF Tidied
  <2> QED BY <1>1, <2>1 DEF Tidied, Live
<1>2. CASE AgentStep \/ Minute
  <2>1. UNCHANGED shots
    BY <1>2, Apart
  <2>2. CASE Connect
    <3>1. PICK q \in Question : Took(q) /\ q.op = "connect"
      BY <2>2, ConnectDoes
    <3> QED BY <1>1, <2>1, <3>1 DEF Took
  <2>3. CASE Find
    <3>1. PICK q \in Question : Took(q) /\ q.op = "command"
      BY <2>3, FindDoes
    <3> QED BY <1>1, <2>1, <3>1 DEF Took
  <2>4. CASE Disconnect
    <3>1. PICK q \in Question :
            /\ Took(q) /\ q.op = "disconnect" /\ q.session \in Sessions
            /\ sessions' = [sessions EXCEPT ![q.session] = Gone]
      BY <2>4, DisconnectDoes
    <3>2. ~Live(q.session)'
      BY <1>0, <3>1 DEF Live
    <3>3. \A k \in Shots : Live(shots[k].session)' => shots[k].session # q.session
      BY <2>1, <3>2 DEF Live
    <3> QED BY <1>1, <2>1, <3>1, <3>3 DEF Took
  <2>5. CASE Touch \/ Execute \/ CleanupIdleSessions \/ Minute
    <3>1. UNCHANGED toAgent
      BY <2>5 DEF Touch, Execute, CleanupIdleSessions, Minute
    <3> QED BY <1>1, <2>1, <3>1
  <2> QED BY <1>2, <2>2, <2>3, <2>4, <2>5 DEF AgentStep
<1>3. ASSUME UNCHANGED shots, Elems(toAgent) \subseteq Elems(toAgent')
      PROVE  Tidied'
  BY <1>1, <1>3
<1>4. ASSUME NEW t \in Terminals, NEW r \in Requests, Mount(t, r) \/ SendCommand(t, r) \/ Unmount(t, r)
      PROVE  Tidied'
  <2>1. UNCHANGED shots
    BY <1>4 DEF Mount, SendCommand, Unmount
  <2>2. ASSUME NEW op \in {"command", "disconnect"}, Relay(t, r, op)
        PROVE  Elems(toAgent) \subseteq Elems(toAgent')
    BY <2>2, RelayDoes DEF Asked
  <2>3. Mount(t, r) => Elems(toAgent) \subseteq Elems(toAgent')
    BY MountDoes DEF Asked
  <2> QED BY <1>3, <1>4, <2>1, <2>2, <2>3 DEF SendCommand, Unmount
<1>5. ASSUME UNCHANGED sessions, NEW k \in Shots, Elems(toAgent) \subseteq Elems(toAgent'),
             \A j \in Shots \ {k} : shots'[j] = shots[j],
             shots'[k].at \in {"new", "connect"} => shots'[k].session = "none",
             shots'[k].at = "done" /\ shots'[k].session # "none" =>
               \E q \in Elems(toAgent') : q.op = "disconnect" /\ q.session = shots'[k].session
      PROVE  Tidied'
  BY <1>5 DEF Tidied, Live
<1>6. ASSUME NEW k \in Shots, shots[k].at = "command", shots' = [shots EXCEPT ![k].at = "done"],
             Asked(Parting(k)), UNCHANGED sessions
      PROVE  Tidied'
  <2>1. shots'[k].session = shots[k].session /\ shots'[k].at = "done"
    BY <1>0, <1>6 DEF Shot
  <2>2. /\ Parting(k) \in Elems(toAgent') /\ Elems(toAgent) \subseteq Elems(toAgent')
        /\ Parting(k).op = "disconnect" /\ Parting(k).session = shots[k].session
    BY <1>6 DEF Asked, Parting
  <2> QED BY <1>0, <1>5, <1>6, <2>1, <2>2
<1>7. ASSUME NEW k \in Shots, OneShot(k) \/ ShotTimeout(k)
      PROVE  Tidied'
  <2>1. UNCHANGED sessions
    BY <1>7 DEF OneShot, ShotTimeout, agentVars
  <2>2. CASE OneShot(k)
    <3>1. /\ shots[k].at = "new" /\ shots' = [shots EXCEPT ![k].at = "connect"]
          /\ Elems(toAgent) \subseteq Elems(toAgent')
      BY <2>2, OneShotDoes DEF Asked
    <3>2. shots'[k].session = "none" /\ shots'[k].at = "connect"
      BY <1>0, <3>1 DEF Shot, Tidied
    <3> QED BY <1>0, <1>5, <2>1, <3>1, <3>2
  <2>3. CASE shots[k].at = "connect" /\ ShotTimeout(k)
    <3>1. shots' = [shots EXCEPT ![k].at = "lost"] /\ UNCHANGED toAgent
      BY <2>3 DEF ShotTimeout
    <3>2. shots'[k].at = "lost"
      BY <1>0, <3>1 DEF Shot
    <3> QED BY <1>0, <1>5, <2>1, <3>1, <3>2
  <2>4. CASE shots[k].at = "command" /\ ShotEnds(k)
    BY <1>6, <2>1, <2>4, EndsDoes
  <2> QED BY <1>7, <2>2, <2>3, <2>4 DEF ShotTimeout
<1>8. CASE ShotReply
  <2>1. PICK a \in Answer :
            /\ a.from \in Shots
            /\ \/ /\ shots' = [shots EXCEPT ![a.from] = [at |-> "command", session |-> a.session]]
                  /\ Asked([op |-> "command", session |-> a.session, from |-> a.from])
               \/ /\ shots[a.from].at = "connect" /\ shots' = [shots EXCEPT ![a.from].at = "done"]
                  /\ UNCHANGED toAgent
               \/ /\ shots[a.from].at = "command" /\ shots' = [shots EXCEPT ![a.from].at = "done"]
                  /\ Asked(Parting(a.from))
               \/ UNCHANGED <<shots, toAgent>>
    BY <1>8, ShotReplyDoes
  <2>2. UNCHANGED sessions
    BY <1>8, ShotReplyDoes
  <2>3. CASE /\ shots' = [shots EXCEPT ![a.from] = [at |-> "command", session |-> a.session]]
             /\ Asked([op |-> "command", session |-> a.session, from |-> a.from])
    <3>1. shots'[a.from].at = "command"
      BY <1>0, <2>1, <2>3
    <3>2. Elems(toAgent) \subseteq Elems(toAgent')
      BY <2>3 DEF Asked
    <3> QED BY <1>0, <1>5, <2>1, <2>2, <2>3, <3>1, <3>2
  <2>4. CASE /\ shots[a.from].at = "connect" /\ shots' = [shots EXCEPT ![a.from].at = "done"]
             /\ UNCHANGED toAgent
    <3>1. shots'[a.from].session = "none"
      BY <1>0, <2>1, <2>4 DEF Shot, Tidied
    <3> QED BY <1>0, <1>5, <2>1, <2>2, <2>4, <3>1
  <2>5. CASE UNCHANGED <<shots, toAgent>>
    BY <1>3, <2>5
  <2> QED BY <1>6, <2>1, <2>2, <2>3, <2>4, <2>5
<1>9. CASE AskStep
  <2>1. CASE HandleInboxReply \/ \E r \in Requests : Audit(r) \/ Timeout(r)
    BY <1>3, <2>1 DEF HandleInboxReply, Audit, Timeout
  <2> QED BY <1>4, <1>7, <1>8, <1>9, <2>1 DEF AskStep
<1>10. CASE Hibernate \/ \E r \in Requests : AuditFails(r)
  BY <1>3, <1>10 DEF Hibernate, AuditFails, askVars
<1>11. CASE AgentRestart
  <2>1. UNCHANGED shots /\ \A s \in Sessions : ~Live(s)'
    BY <1>11 DEF AgentRestart, askVars, Live
  <2>2. ASSUME NEW k \in Shots, shots[k].session # "none"
        PROVE  ~Live(shots[k].session)'
    <3>1. shots[k].session \in Sessions
      BY <1>0, <2>2 DEF Shot
    <3> QED BY <2>1, <3>1 DEF Live
  <2> QED BY <1>1, <2>1, <2>2
<1>12. CASE Break \/ ManagerRestart
  <2>1. ASSUME NEW k \in Shots
        PROVE  /\ shots'[k].at # "done"
               /\ shots'[k].at \in {"new", "connect"} => shots'[k].session = shots[k].session /\ shots'[k].at = shots[k].at
    BY <1>0, <1>12 DEF Break, ManagerRestart, LoseShots, Shot
  <2> QED BY <2>1 DEF Tidied
<1>13. CASE UNCHANGED rconVars
  BY <1>3, <1>13 DEF rconVars, askVars
<1> QED BY <1>2, <1>9, <1>10, <1>11, <1>12, <1>13 DEF RconNext, FaultStep


-----------------------------------------------------------------------------
(* The theorems                                                            *)

LEMMA RconInvStarts ==
  ASSUME RconAssumption, RconInit
  PROVE  RconInv
<1> USE DEF RconAssumption, RconInit
<1>1. \A t \in Terminals : terminals[t] \in Console /\ terminals[t].at = "off" /\ terminals[t].session = "none"
  BY DEF Console
<1>2. TypeOK
  <2>1. <<>> \in Seq(Question) /\ <<>> \in Seq(Answer)
    OBVIOUS
  <2>2. terminals \in [Terminals -> Console] /\ shots \in [Shots -> Shot]
    BY DEF Console, Shot
  <2> QED BY <2>1, <2>2, Types
<1>3. Drawn
  BY <1>1, Emptied DEF Drawn, Live
<1>4. Spared
  BY DEF Spared, Free
<1>5. Agreed
  BY <1>1, Emptied DEF Agreed, WorkedFor, NoRequest
<1>6. Remembering
  BY <1>1, Emptied DEF Remembering
<1>7. Last
  BY DEF Last
<1>8. Recorded
  BY DEF Recorded, NoRequest
<1>9. Tidied
  BY DEF Tidied
<1> QED BY <1>2, <1>3, <1>4, <1>5, <1>6, <1>7, <1>8, <1>9 DEF RconInv

LEMMA RconInvKept ==
  ASSUME RconAssumption, RconInv, [RconNext]_rconVars
  PROVE  RconInv'
<1> USE DEF RconInv
<1>1. TypeOK'
  <2>1. CASE UNCHANGED rconVars
    BY <2>1 DEF rconVars, agentVars, askVars, TypeOK
  <2> QED BY <2>1, AgentTyped, AskTyped, FaultTyped DEF RconNext
<1> QED BY <1>1, DrawnKept, SparedKept, AgreedKept, RememberingKept, LastKept, RecordedKept, TidiedKept

\* A command that is to be recorded well is recorded where it ran.
LEMMA RconInvSays ==
  ASSUME RconAssumption, RconInv
  PROVE  SweepSparesUsed /\ Audited /\ ShotsTidy
<1> USE DEF RconAssumption, RconInv
<1>1. SweepSparesUsed
  BY DEF SweepSparesUsed, Spared
<1>2. Audited
  <2>1. ASSUME NEW r \in Requests, requests[r].op = "command"
        PROVE  requests[r].server # "none"
    <3>1. requests[r] \in Made
      BY <2>1, Types DEF NoRequest
    <3> QED BY <3>1 DEF Made
  <2> QED BY <2>1 DEF Audited, Recorded
<1>3. ShotsTidy
  BY Emptied DEF ShotsTidy, Tidied
<1> QED BY <1>1, <1>2, <1>3

\* The inductive invariant holds always.
THEOREM RconInvariant == ASSUME RconAssumption PROVE RconSpec => []RconInv
<1>1. RconInit => RconInv
  BY RconInvStarts
<1>2. RconInv /\ [RconNext]_rconVars => RconInv'
  BY RconInvKept
<1> QED BY <1>1, <1>2, PTL DEF RconSpec

\* The sweep of idle sessions never closes one under the command that uses it; every command of
\* a terminal that was answered well is in the audit log under the server that carried it out,
\* but for what the DO has forgotten; and a one-shot command leaves no session behind: for any
\* number of terminals, one-shot commands, sessions and faults.
THEOREM SessionsKeep == ASSUME RconAssumption PROVE RconSpec => [](SweepSparesUsed /\ Audited /\ ShotsTidy)
<1>1. RconInv => SweepSparesUsed /\ Audited /\ ShotsTidy
  BY RconInvSays
<1> QED BY <1>1, RconInvariant, PTL
=============================================================================
