----------------------- MODULE AgentPresence_proofs -----------------------
(***************************************************************************)
(* Proofs about AgentPresence, for every number of connections and faults: *)
(* type correctness, that no outage is alerted or closed twice, and that   *)
(* what the DO knows survives hibernation; and, for sockets that do not    *)
(* overlap, that the e-mails are those of AlertLedger and, without faults, *)
(* that a reconnect is complete and a valid token honoured.                *)
(***************************************************************************)
EXTENDS AgentPresence, FiniteSetTheorems, TLAPS

\* send only appends replies.
LEMMA SendType ==
  ASSUME inbox \in [Conns -> Seq(Replies)], NEW m \in Replies, Send(m)
  PROVE  inbox' \in [Conns -> Seq(Replies)]
  BY DEF Send

\* Advancing one handler keeps the handlers typed.
LEMMA ResumeType ==
  ASSUME talk \in [Conns -> TalkPhases], NEW c \in Conns,
         NEW from, NEW to \in TalkPhases, Resume(c, from, to)
  PROVE  talk' \in [Conns -> TalkPhases]
  BY DEF Resume

LEMMA RepliesTyped ==
  /\ Error \in Replies /\ AuthSuccess \in Replies
  /\ \A t \in Conns : RegisterSuccess(t) \in Replies
  BY DEF Replies

\* Every variable keeps its type: the agent, the sockets, the handlers of the
\* DO, the row and the counters.
THEOREM TypeCorrect == Spec => []TypeOK
<1>1. Init => TypeOK
  <2> SUFFICES ASSUME Init PROVE TypeOK
    OBVIOUS
  <2>1. token \in Tokens \cup {NoToken}
    BY ConnsAssumption DEF Init, Tokens, EarlierToken
  <2>6. ephemeral \in BOOLEAN
    BY DEF Init
  <2>2. rowToken \in Tokens \cup {NoToken} /\ row \in {"pending", "offline"}
    BY <2>1 DEF Init
  <2>3. inbox \in [Conns -> Seq(Replies)]
    BY DEF Init
  <2>4. dialed \in 0 .. MaxConns
    BY ConnsAssumption DEF Init
  <2>5. isRegistered \in BOOLEAN /\ agentIdKept \in BOOLEAN /\ alarmSet \in BOOLEAN /\ alertSent \in BOOLEAN
    BY DEF Init
  <2> QED
    BY <2>1, <2>2, <2>3, <2>4, <2>5, <2>6 DEF Init, TypeOK, TalkPhases
<1>2. TypeOK /\ [Next]_vars => TypeOK'
  <2> SUFFICES ASSUME TypeOK, [Next]_vars PROVE TypeOK'
    OBVIOUS
  <2>1. CASE Agent
    <3>1. CASE Dial
      <4>1. dialed + 1 \in Conns /\ dialed + 1 \in 0 .. MaxConns
        BY <3>1, ConnsAssumption DEF TypeOK, Dial, Conns
      <4> QED
        BY <3>1, <4>1 DEF TypeOK, Dial, doVars, alertVars, taskVars, rowVars, webVars, histVars, mailVars
    <3>2. CASE Disconnect
      BY <3>2 DEF TypeOK, Disconnect, netVars, sockVars, doVars, alertVars, taskVars, rowVars,
                  webVars, histVars, mailVars
    <3>3. CASE ReceiveError
      BY <3>3 DEF TypeOK, ReceiveError, netVars, sockVars, doVars, alertVars, taskVars, rowVars,
                  webVars, histVars, mailVars
    <3>4. CASE ReceiveAuthSuccess
      BY <3>4 DEF TypeOK, ReceiveAuthSuccess, netVars, sockVars, doVars, alertVars, taskVars,
                  rowVars, webVars, histVars, mailVars
    <3>5. ASSUME NEW t \in Conns, ReceiveRegisterSuccess(t) PROVE TypeOK'
      <4>1. t \in Tokens
        BY ConnsAssumption DEF Conns, Tokens
      <4> QED
        BY <3>5, <4>1 DEF TypeOK, ReceiveRegisterSuccess, netVars, sockVars, doVars, alertVars,
                          taskVars, rowVars, webVars, histVars, mailVars
    <3>6. CASE EphemeralExpires
      <4>1. ephemeral' \in BOOLEAN
        BY <3>6 DEF EphemeralExpires
      <4> QED
        BY <3>6, <4>1 DEF TypeOK, EphemeralExpires, netVars, sockVars, doVars, alertVars,
                          taskVars, rowVars, webVars, histVars, mailVars
    <3> QED
      BY <2>1, <3>1, <3>2, <3>3, <3>4, <3>5, <3>6 DEF Agent
  <2>2. ASSUME NEW c \in Conns, Register(c) PROVE TypeOK'
    <3> USE RepliesTyped
    <3> USE DEF TypeOK, agentVars, netVars, sockVars, doVars, alertVars, taskVars, rowVars,
                webVars, histVars, mailVars
    <3>1. CASE DeliverRegister(c)
      <4>1. inbox' \in [Conns -> Seq(Replies)]
        BY <3>1, SendType DEF DeliverRegister
      <4>2. talk' \in [Conns -> TalkPhases] /\ hello' \in [Conns -> {"none", "register", "auth"}]
        BY <3>1 DEF DeliverRegister, TalkPhases
      <4> QED
        BY <3>1, <4>1, <4>2 DEF DeliverRegister
    <3>2. CASE RegisterLookup(c)
      <4>1. talk' \in [Conns -> TalkPhases]
        BY <3>2, ResumeType DEF RegisterLookup, TalkPhases
      <4> QED
        BY <3>2, <4>1 DEF RegisterLookup
    <3>3. CASE RegisterReject(c)
      <4>1. talk' \in [Conns -> TalkPhases] /\ inbox' \in [Conns -> Seq(Replies)]
        BY <3>3, ResumeType, SendType DEF RegisterReject, TalkPhases
      <4> QED
        BY <3>3, <4>1 DEF RegisterReject
    <3>4. CASE RegisterUpdate(c)
      <4>1. talk' \in [Conns -> TalkPhases]
        BY <3>4, ResumeType DEF RegisterUpdate, TalkPhases
      <4>2. c \in Tokens
        BY ConnsAssumption DEF Conns, Tokens
      <4> QED
        BY <3>4, <4>1, <4>2 DEF RegisterUpdate
    <3>5. CASE RegisterInsert(c)
      <4>1. talk' \in [Conns -> TalkPhases]
        BY <3>5, ResumeType DEF RegisterInsert, TalkPhases
      <4>2. inbox' \in [Conns -> Seq(Replies)]
        BY <3>5, SendType DEF RegisterInsert
      <4>3. c \in Tokens
        BY ConnsAssumption DEF Conns, Tokens
      <4> QED
        BY <3>5, <4>1, <4>2, <4>3 DEF RegisterInsert
    <3>6. CASE RegisterDone(c)
      <4>1. talk' \in [Conns -> TalkPhases] /\ inbox' \in [Conns -> Seq(Replies)]
        BY <3>6, ResumeType, SendType DEF RegisterDone, TalkPhases
      <4> QED
        BY <3>6, <4>1 DEF RegisterDone
    <3> QED
      BY <2>2, <3>1, <3>2, <3>3, <3>4, <3>5, <3>6 DEF Register
  <2>3. ASSUME NEW c \in Conns, Auth(c) PROVE TypeOK'
    <3> USE RepliesTyped
    <3> USE DEF TypeOK, agentVars, netVars, sockVars, doVars, alertVars, taskVars, rowVars,
                webVars, histVars, mailVars
    <3>1. CASE DeliverAuth(c)
      BY <3>1 DEF DeliverAuth, TalkPhases
    <3>2. CASE AuthLookup(c)
      <4>1. talk' \in [Conns -> TalkPhases]
        BY <3>2, ResumeType DEF AuthLookup, TalkPhases
      <4> QED
        BY <3>2, <4>1 DEF AuthLookup
    <3>3. CASE AuthReject(c)
      <4>1. talk' \in [Conns -> TalkPhases] /\ inbox' \in [Conns -> Seq(Replies)]
        BY <3>3, ResumeType, SendType DEF AuthReject, TalkPhases
      <4> QED
        BY <3>3, <4>1 DEF AuthReject
    <3>4. CASE AuthAccept(c)
      <4>1. talk' \in [Conns -> TalkPhases]
        BY <3>4, ResumeType DEF AuthAccept, TalkPhases
      <4>2. isRegistered' \in BOOLEAN /\ agentIdKept' \in BOOLEAN /\ alarmSet' \in BOOLEAN
        BY <3>4 DEF AuthAccept
      <4> QED
        BY <3>4, <4>1, <4>2 DEF AuthAccept
    <3>5. CASE AuthRecovered(c)
      <4>1. talk' \in [Conns -> TalkPhases]
        BY <3>5, ResumeType DEF AuthRecovered, TalkPhases
      <4>2. agentIdKept' \in BOOLEAN /\ alertSent' \in BOOLEAN
        BY <3>5 DEF AuthRecovered
      <4> QED
        BY <3>5, <4>1, <4>2 DEF AuthRecovered
    <3>6. CASE AuthUpdate(c)
      <4>1. talk' \in [Conns -> TalkPhases]
        BY <3>6, ResumeType DEF AuthUpdate, TalkPhases
      <4> QED
        BY <3>6, <4>1 DEF AuthUpdate
    <3>7. CASE AuthDone(c)
      <4>1. talk' \in [Conns -> TalkPhases] /\ inbox' \in [Conns -> Seq(Replies)]
        BY <3>7, ResumeType, SendType DEF AuthDone, TalkPhases
      <4> QED
        BY <3>7, <4>1 DEF AuthDone
    <3> QED
      BY <2>3, <3>1, <3>2, <3>3, <3>4, <3>5, <3>6, <3>7 DEF Auth
  <2>4. ASSUME NEW c \in Conns, Close(c) PROVE TypeOK'
    <3> USE DEF TypeOK, agentVars, netVars, sockVars, doVars, alertVars, taskVars, rowVars,
                webVars, histVars, mailVars
    <3>1. CASE CloseEvent(c)
      <4>1. /\ hello' \in [Conns -> {"none", "register", "auth"}]
            /\ shut' \in [Conns -> {"none", "update", "written"}]
            /\ open' \subseteq Conns /\ closing' \subseteq Conns
            /\ agentIdKept' \in BOOLEAN
        BY <3>1 DEF CloseEvent
      <4> QED
        BY <3>1, <4>1 DEF CloseEvent
    <3>2. CASE CloseWrite(c)
      BY <3>2 DEF CloseWrite
    <3>3. CASE CloseDone(c)
      <4>1. isRegistered' \in BOOLEAN /\ agentIdKept' \in BOOLEAN /\ alarmSet' \in BOOLEAN
        BY <3>3 DEF CloseDone
      <4>2. disconnected' \in {"named", "nameless"}
        BY <3>3 DEF CloseDone
      <4> QED
        BY <3>3, <4>1, <4>2 DEF CloseDone
    <3> QED
      BY <2>4, <3>1, <3>2, <3>3 DEF Close
  <2>5. CASE Alarm
    <3> USE DEF TypeOK, agentVars, netVars, sockVars, doVars, alertVars, taskVars, rowVars,
                webVars, histVars, mailVars
    <3>1. CASE AlarmFires
      <4>1. alarmSet' \in BOOLEAN
        BY <3>1 DEF AlarmFires
      <4> QED
        BY <3>1, <4>1 DEF AlarmFires
    <3>2. CASE AlarmLookup  BY <3>2 DEF AlarmLookup
    <3>3. CASE AlarmSkip  BY <3>3 DEF AlarmSkip
    <3>4. CASE AlarmMail  BY <3>4 DEF AlarmMail
    <3>5. CASE AlarmDone  BY <3>5 DEF AlarmDone
    <3> QED
      BY <2>5, <3>1, <3>2, <3>3, <3>4, <3>5 DEF Alarm
  <2>6. CASE Platform
    <3> USE DEF TypeOK, agentVars, netVars, sockVars, doVars, alertVars, taskVars, rowVars,
                webVars, histVars, mailVars
    <3>1. CASE Hibernate  BY <3>1 DEF Hibernate
    <3>2. CASE Restart
      <4>1. alarmSet' \in BOOLEAN
        BY <3>2 DEF Restart
      <4>2. talk' \in [Conns -> TalkPhases]
        BY <3>2 DEF Restart, TalkPhases
      <4> QED
        BY <3>2, <4>1, <4>2 DEF Restart
    <3>3. CASE AlarmFails  BY <3>3 DEF AlarmFails
    <3>4. ASSUME NEW c \in Conns, TalkFails(c) PROVE TypeOK'
      <4>1. inbox' \in [Conns -> Seq(Replies)]
        BY <3>4, SendType, RepliesTyped DEF TalkFails
      <4>2. talk' \in [Conns -> TalkPhases]
        BY <3>4 DEF TalkFails, TalkPhases
      <4> QED
        BY <3>4, <4>1, <4>2 DEF TalkFails
    <3>5. ASSUME NEW c \in Conns, CloseWriteFails(c) PROVE TypeOK'
      BY <3>5 DEF CloseWriteFails
    <3> QED
      BY <2>6, <3>1, <3>2, <3>3, <3>4, <3>5 DEF Platform
  <2>7. CASE Web
    <3> USE DEF TypeOK, agentVars, netVars, sockVars, doVars, alertVars, taskVars, rowVars,
                webVars, histVars, mailVars
    <3>1. CASE ListingRead  BY <3>1 DEF ListingRead
    <3>2. CASE ListingWrite  BY <3>2 DEF ListingWrite
    <3>3. CASE RemovalRead  BY <3>3 DEF RemovalRead
    <3>4. CASE RemovalDisconnect
      <4>1. /\ open' \subseteq Conns /\ closing' \subseteq Conns
            /\ hello' \in [Conns -> {"none", "register", "auth"}]
        BY <3>4 DEF RemovalDisconnect
      <4>2. isRegistered' \in BOOLEAN /\ agentIdKept' \in BOOLEAN /\ alertSent' \in BOOLEAN
        BY <3>4 DEF RemovalDisconnect
      <4> QED
        BY <3>4, <4>1, <4>2 DEF RemovalDisconnect
    <3>5. CASE RemovalDisconnectFails  BY <3>5 DEF RemovalDisconnectFails
    <3>6. CASE RemovalDelete  BY <3>6 DEF RemovalDelete
    <3> QED
      BY <2>7, <3>1, <3>2, <3>3, <3>4, <3>5, <3>6 DEF Web
  <2>8. CASE UNCHANGED vars
    BY <2>8 DEF TypeOK, vars, agentVars, netVars, sockVars, doVars, alertVars, taskVars, rowVars,
                webVars, histVars, mailVars
  <2> QED
    BY <2>1, <2>2, <2>3, <2>4, <2>5, <2>6, <2>7, <2>8 DEF Next
<1> QED
  BY <1>1, <1>2, PTL DEF Spec
-----------------------------------------------------------------------------
(***************************************************************************)
(* An armed alarm, or one that has not yet mailed, is an alert that may    *)
(* still be sent: every one of them is backed by an outage or a fault.     *)
(***************************************************************************)
One(b) == IF b THEN 1 ELSE 0
AlertsOutstanding == One(alarmSet) + One(ring \in {"select", "offline"})
AlertsInv == alerts + AlertsOutstanding <= outages + faults

LEMMA OneType == \A b \in BOOLEAN : One(b) \in {0, 1}
  BY DEF One

LEMMA AlertsInvariant == Spec => []AlertsInv
<1>1. Init => AlertsInv
  BY DEF Init, AlertsInv, AlertsOutstanding, One
<1>2. TypeOK /\ AlertsInv /\ [Next]_vars => AlertsInv'
  <2> SUFFICES ASSUME TypeOK, AlertsInv, [Next]_vars PROVE AlertsInv'
    OBVIOUS
  <2>1. /\ alerts \in Nat /\ outages \in Nat /\ faults \in Nat
        /\ alarmSet \in BOOLEAN
    BY DEF TypeOK
  <2> USE <2>1
  <2> USE DEF AlertsInv, AlertsOutstanding, One, histVars, mailVars, doVars, alertVars, taskVars
  <2>2. CASE UNCHANGED <<alarmSet, ring, alerts, outages, faults>>
    BY <2>2
  <2>3. ASSUME NEW c \in Conns, Register(c) PROVE AlertsInv'
    BY <2>3, <2>2 DEF Register, DeliverRegister, RegisterLookup, RegisterReject, RegisterUpdate,
                      RegisterInsert, RegisterDone
  <2>4. ASSUME NEW c \in Conns, Auth(c) PROVE AlertsInv'
    <3>1. CASE AuthAccept(c)
      BY <3>1 DEF AuthAccept
    <3>2. CASE AuthRecovered(c)
      BY <3>2, <2>2 DEF AuthRecovered
    <3> QED
      BY <2>4, <3>1, <3>2, <2>2 DEF Auth, DeliverAuth, AuthLookup, AuthReject, AuthUpdate, AuthDone
  <2>5. ASSUME NEW c \in Conns, Close(c) PROVE AlertsInv'
    <3>1. CASE CloseDone(c)
      BY <3>1 DEF CloseDone
    <3> QED
      BY <2>5, <3>1, <2>2 DEF Close, CloseEvent, CloseWrite
  <2>6. CASE Alarm
    <3>1. CASE AlarmFires  BY <3>1 DEF AlarmFires
    <3>2. CASE AlarmLookup  BY <3>2 DEF AlarmLookup
    <3>3. CASE AlarmSkip  BY <3>3 DEF AlarmSkip
    <3>4. CASE AlarmMail  BY <3>4 DEF AlarmMail
    <3>5. CASE AlarmDone  BY <3>5 DEF AlarmDone
    <3> QED
      BY <2>6, <3>1, <3>2, <3>3, <3>4, <3>5 DEF Alarm
  <2>7. CASE Platform
    <3>1. CASE Hibernate  BY <3>1, <2>2 DEF Hibernate
    <3>2. CASE Restart  BY <3>2 DEF Restart
    <3>3. CASE AlarmFails  BY <3>3 DEF AlarmFails
    <3>4. ASSUME NEW c \in Conns, TalkFails(c) \/ CloseWriteFails(c) PROVE AlertsInv'
      BY <3>4 DEF TalkFails, CloseWriteFails
    <3> QED
      BY <2>7, <3>1, <3>2, <3>3, <3>4 DEF Platform
  <2>8. CASE Agent \/ Web \/ UNCHANGED vars
    BY <2>8, <2>2 DEF Agent, Dial, Disconnect, ReceiveError, ReceiveAuthSuccess, ReceiveRegisterSuccess,
                      EphemeralExpires, Web, ListingRead, ListingWrite, RemovalRead,
                      RemovalDisconnect, RemovalDisconnectFails, RemovalDelete, vars
  <2> QED
    BY <2>3, <2>4, <2>5, <2>6, <2>7, <2>8 DEF Next
<1> QED
  BY <1>1, <1>2, TypeCorrect, PTL DEF Spec

\* handleAgentClose and alarm(): the number of alerts never exceeds the number of
\* recorded outages plus the faults that make an alarm run again.
THEOREM AlertsAreBounded == Spec => []AlertsBounded
<1>1. TypeOK /\ AlertsInv => AlertsBounded
  BY DEF TypeOK, AlertsInv, AlertsOutstanding, AlertsBounded, One
<1> QED
  BY <1>1, AlertsInvariant, TypeCorrect, PTL

-----------------------------------------------------------------------------
(***************************************************************************)
(* A connection carries one first message: its handler starts once.        *)
(***************************************************************************)
FirstMessage ==
  \A c \in Conns : /\ hello[c] # "none" => talk[c] = "none" /\ c <= dialed
                   /\ c > dialed => talk[c] = "none"

LEMMA FirstMessageInvariant == Spec => []FirstMessage
<1>1. Init => FirstMessage
  BY DEF Init, FirstMessage
<1>2. TypeOK /\ FirstMessage /\ [Next]_vars => FirstMessage'
  <2> SUFFICES ASSUME TypeOK, FirstMessage, [Next]_vars PROVE FirstMessage'
    OBVIOUS
  <2>1. /\ talk \in [Conns -> TalkPhases]
        /\ hello \in [Conns -> {"none", "register", "auth"}]
        /\ dialed \in 0 .. MaxConns /\ Conns \subseteq Nat
        /\ open \subseteq Conns /\ closing \subseteq Conns
    BY ConnsAssumption DEF TypeOK, Conns
  <2> USE <2>1
  <2> USE DEF FirstMessage, netVars, taskVars
  <2>2. CASE UNCHANGED <<dialed, talk>> /\ \A c \in Conns : hello'[c] \in {hello[c], "none"}
    BY <2>2
  \* A step of a handler that has started.
  <2>11. ASSUME NEW c \in Conns, talk[c] # "none", UNCHANGED <<dialed, hello>>,
                \A d \in Conns \ {c} : talk'[d] = talk[d]
         PROVE  FirstMessage'
    BY <2>11
  <2>3. CASE Agent
    <3>1. CASE Dial
      BY <3>1, ConnsAssumption DEF Dial
    <3> QED
      BY <2>3, <2>2, <3>1 DEF Agent, Disconnect, ReceiveError, ReceiveAuthSuccess,
                              ReceiveRegisterSuccess, EphemeralExpires
  <2>4. ASSUME NEW c \in Conns, Register(c) PROVE FirstMessage'
    <3>1. CASE DeliverRegister(c)
      BY <3>1 DEF DeliverRegister
    <3>2. CASE ~DeliverRegister(c)
      <4>1. /\ talk[c] # "none" /\ UNCHANGED <<dialed, hello>>
            /\ \A d \in Conns \ {c} : talk'[d] = talk[d]
        BY <2>4, <3>2 DEF Register, RegisterLookup, RegisterReject, RegisterUpdate,
                          RegisterInsert, RegisterDone, Resume
      <4> QED
        BY <2>11, <4>1
    <3> QED
      BY <3>1, <3>2
  <2>5. ASSUME NEW c \in Conns, Auth(c) PROVE FirstMessage'
    <3>1. CASE DeliverAuth(c)
      BY <3>1 DEF DeliverAuth
    <3>2. CASE ~DeliverAuth(c)
      <4>1. /\ talk[c] # "none" /\ UNCHANGED <<dialed, hello>>
            /\ \A d \in Conns \ {c} : talk'[d] = talk[d]
        BY <2>5, <3>2 DEF Auth, AuthLookup, AuthReject, AuthAccept, AuthRecovered,
                          AuthUpdate, AuthDone, Resume
      <4> QED
        BY <2>11, <4>1
    <3> QED
      BY <3>1, <3>2
  <2>6. ASSUME NEW c \in Conns, Close(c) PROVE FirstMessage'
    BY <2>6, <2>2 DEF Close, CloseEvent, CloseWrite, CloseDone
  <2>7. CASE Alarm
    BY <2>7, <2>2 DEF Alarm, AlarmFires, AlarmLookup, AlarmSkip, AlarmMail, AlarmDone
  <2>8. CASE Platform
    <3>1. CASE Restart
      BY <3>1 DEF Restart
    <3>2. ASSUME NEW c \in Conns, TalkFails(c) PROVE FirstMessage'
      BY <3>2 DEF TalkFails
    <3>3. ASSUME NEW c \in Conns, CloseWriteFails(c) PROVE FirstMessage'
      BY <3>3, <2>2 DEF CloseWriteFails
    <3> QED
      BY <2>8, <2>2, <3>1, <3>2, <3>3 DEF Platform, Hibernate, AlarmFails
  <2>9. CASE Web
    <3>1. CASE RemovalDisconnect
      BY <3>1, <2>2 DEF RemovalDisconnect
    <3> QED
      BY <2>9, <2>2, <3>1 DEF Web, ListingRead, ListingWrite, RemovalRead, RemovalDisconnectFails,
         RemovalDelete
  <2>10. CASE UNCHANGED vars
    BY <2>10, <2>2 DEF vars
  <2> QED
    BY <2>3, <2>4, <2>5, <2>6, <2>7, <2>8, <2>9, <2>10 DEF Next
<1> QED
  BY <1>1, <1>2, TypeCorrect, PTL DEF Spec

-----------------------------------------------------------------------------
(***************************************************************************)
(* Between AuthAccept and AuthRecovered the agent counts as registered     *)
(* although its id is not in storage yet.                                  *)
(***************************************************************************)
KeptInv == isRegistered /\ ~agentIdKept /\ faults = 0 =>
             \E c \in Conns : talk[c] = "authRecipients"

\* restoreState: what the DO knows of its agent when no handler is running is what
\* it would restore after hibernation, unless a statement failed.
THEOREM HibernationIsSafe == Spec => []SurvivesHibernation
<1>1. Init => KeptInv
  BY DEF Init, KeptInv
<1>2. TypeOK /\ FirstMessage /\ KeptInv /\ [Next]_vars => KeptInv'
  <2> SUFFICES ASSUME TypeOK, FirstMessage, KeptInv, [Next]_vars PROVE KeptInv'
    OBVIOUS
  <2>1. /\ talk \in [Conns -> TalkPhases] /\ faults \in Nat
        /\ hello \in [Conns -> {"none", "register", "auth"}]
        /\ open \subseteq Conns
    BY DEF TypeOK
  <2> USE <2>1
  <2> USE DEF KeptInv, doVars, alertVars, histVars, mailVars, taskVars
  <2>2. CASE UNCHANGED <<isRegistered, agentIdKept, faults, talk>>
    BY <2>2
  \* Any step of a handler that is not reading recipients.
  <2>3. ASSUME NEW c \in Conns, NEW from, NEW to, Resume(c, from, to), from # "authRecipients",
               UNCHANGED <<isRegistered, agentIdKept, faults>>
        PROVE  KeptInv'
    BY <2>3 DEF Resume
  <2>4. ASSUME NEW c \in Conns, Register(c) PROVE KeptInv'
    <3>1. CASE RegisterDone(c)
      BY <3>1 DEF RegisterDone
    <3>2. CASE DeliverRegister(c)
      <4>1. talk[c] = "none"
        BY <3>2 DEF DeliverRegister, FirstMessage
      <4> QED
        BY <3>2, <4>1 DEF DeliverRegister
    <3> QED
      BY <2>4, <2>3, <3>1, <3>2 DEF Register, RegisterLookup, RegisterReject, RegisterUpdate,
                                    RegisterInsert
  <2>5. ASSUME NEW c \in Conns, Auth(c) PROVE KeptInv'
    <3>1. CASE DeliverAuth(c)
      <4>1. talk[c] = "none"
        BY <3>1 DEF DeliverAuth, FirstMessage
      <4> QED
        BY <3>1, <4>1 DEF DeliverAuth
    <3>2. CASE AuthAccept(c)
      <4>1. CASE RecoveryDue
        <5>1. talk'[c] = "authRecipients"
          BY <3>2, <4>1 DEF AuthAccept, Resume
        <5> QED
          BY <5>1
      <4>2. CASE ~RecoveryDue
        <5>1. agentIdKept'
          BY <3>2, <4>2 DEF AuthAccept
        <5> QED
          BY <5>1
      <4> QED
        BY <4>1, <4>2
    <3>3. CASE AuthRecovered(c)
      BY <3>3 DEF AuthRecovered
    <3> QED
      BY <2>5, <2>3, <3>1, <3>2, <3>3 DEF Auth, AuthLookup, AuthReject, AuthUpdate, AuthDone
  <2>6. ASSUME NEW c \in Conns, Close(c) PROVE KeptInv'
    <3>1. CASE CloseEvent(c)
      BY <3>1 DEF CloseEvent
    <3>2. CASE CloseDone(c)
      BY <3>2 DEF CloseDone
    <3> QED
      BY <2>6, <2>2, <3>1, <3>2 DEF Close, CloseWrite
  <2>7. CASE Alarm
    BY <2>7, <2>2 DEF Alarm, AlarmFires, AlarmLookup, AlarmSkip, AlarmMail, AlarmDone
  <2>8. CASE Platform
    <3>1. CASE Hibernate
      BY <3>1 DEF Hibernate
    <3>2. CASE Restart
      BY <3>2 DEF Restart
    <3>3. CASE faults' = faults + 1
      BY <3>3
    <3> QED
      BY <2>8, <3>1, <3>2, <3>3 DEF Platform, AlarmFails, TalkFails, CloseWriteFails
  <2>9. CASE Web
    <3>1. CASE RemovalDisconnect
      BY <3>1 DEF RemovalDisconnect
    <3>2. CASE RemovalDisconnectFails
      <4>1. faults' = faults + 1
        BY <3>2 DEF RemovalDisconnectFails
      <4> QED
        BY <4>1
    <3> QED
      BY <2>9, <2>2, <3>1, <3>2 DEF Web, ListingRead, ListingWrite, RemovalRead, RemovalDelete
  <2>10. CASE Agent \/ UNCHANGED vars
    BY <2>10, <2>2 DEF Agent, Dial, Disconnect, ReceiveError, ReceiveAuthSuccess,
                       ReceiveRegisterSuccess, EphemeralExpires, vars
  <2> QED
    BY <2>4, <2>5, <2>6, <2>7, <2>8, <2>9, <2>10 DEF Next
<1>3. TypeOK /\ KeptInv => SurvivesHibernation
  BY DEF TypeOK, KeptInv, SurvivesHibernation, HandlersDone
<1> QED
  BY <1>1, <1>2, <1>3, TypeCorrect, FirstMessageInvariant, PTL DEF Spec
-----------------------------------------------------------------------------
(***************************************************************************)
(* A recorded disconnection not yet claimed, and every handler that reads  *)
(* the recipients of a recovery e-mail, is a recovery that may still be    *)
(* sent: each is backed by an outage of its own.                           *)
(***************************************************************************)
Recovering == {c \in Conns : talk[c] = "authRecipients"}
RecoveriesInv == recoveries + One(disconnected # "none") + Cardinality(Recovering) <= outages

LEMMA ConnSetsFinite ==
  ASSUME NEW S \in SUBSET Conns
  PROVE  IsFiniteSet(S) /\ Cardinality(S) \in Nat
<1>1. IsFiniteSet(Conns)
  BY FS_Interval, ConnsAssumption DEF Conns
<1>2. IsFiniteSet(S)
  BY <1>1, FS_Subset
<1> QED
  BY <1>2, FS_CardinalityType

\* handleAgentAuth: whatever the overlap of sockets and handlers, no outage is
\* closed by two recovery e-mails.
THEOREM RecoveriesAreBounded == Spec => []RecoveriesBounded
<1>1. Init => RecoveriesInv
  <2> SUFFICES ASSUME Init PROVE RecoveriesInv
    OBVIOUS
  <2>1. Recovering = {}
    BY DEF Init, Recovering
  <2> QED
    BY <2>1, FS_EmptySet DEF Init, RecoveriesInv, One
<1>2. TypeOK /\ FirstMessage /\ RecoveriesInv /\ [Next]_vars => RecoveriesInv'
  <2> SUFFICES ASSUME TypeOK, FirstMessage, RecoveriesInv, [Next]_vars PROVE RecoveriesInv'
    OBVIOUS
  <2>1. /\ talk \in [Conns -> TalkPhases] /\ recoveries \in Nat /\ outages \in Nat
        /\ hello \in [Conns -> {"none", "register", "auth"}] /\ open \subseteq Conns
        /\ disconnected \in {"none", "named", "nameless"}
    BY DEF TypeOK
  <2>2. /\ IsFiniteSet(Recovering) /\ Cardinality(Recovering) \in Nat
        /\ IsFiniteSet(Recovering') /\ Cardinality(Recovering') \in Nat
    <3>1. Recovering \in SUBSET Conns /\ Recovering' \in SUBSET Conns
      BY DEF Recovering
    <3> QED
      BY <3>1, ConnSetsFinite
  <2> USE <2>1, <2>2
  <2>3. ASSUME Recovering' \subseteq Recovering, UNCHANGED <<recoveries, outages>>,
               disconnected' \in {disconnected, "none"}
        PROVE  RecoveriesInv'
    <3>1. Cardinality(Recovering') <= Cardinality(Recovering)
      BY <2>3, FS_Subset
    <3> QED
      BY <2>3, <3>1 DEF RecoveriesInv, One
  <2>4. ASSUME UNCHANGED <<talk, recoveries, outages>>, disconnected' \in {disconnected, "none"}
        PROVE  RecoveriesInv'
    BY <2>3, <2>4 DEF Recovering
  <2>5. ASSUME NEW c \in Conns, NEW from, NEW to, Resume(c, from, to), to # "authRecipients",
               UNCHANGED <<recoveries, outages>>, disconnected' \in {disconnected, "none"}
        PROVE  RecoveriesInv'
    BY <2>3, <2>5 DEF Recovering, Resume
  <2> USE DEF doVars, alertVars, histVars, mailVars, taskVars
  <2>6. ASSUME NEW c \in Conns, Register(c) PROVE RecoveriesInv'
    <3>1. CASE DeliverRegister(c)
      <4>1. Recovering' \subseteq Recovering
        BY <3>1 DEF DeliverRegister, Recovering
      <4> QED
        BY <3>1, <4>1, <2>3 DEF DeliverRegister
    <3> QED
      BY <2>6, <2>5, <3>1 DEF Register, RegisterLookup, RegisterReject, RegisterUpdate,
                              RegisterInsert, RegisterDone
  <2>7. ASSUME NEW c \in Conns, Auth(c) PROVE RecoveriesInv'
    <3>1. CASE DeliverAuth(c)
      <4>1. Recovering' \subseteq Recovering
        BY <3>1 DEF DeliverAuth, Recovering
      <4> QED
        BY <3>1, <4>1, <2>3 DEF DeliverAuth
    <3>2. CASE AuthAccept(c) /\ RecoveryDue
      <4>1. Recovering' = Recovering \cup {c} /\ c \notin Recovering
        BY <3>2 DEF AuthAccept, Resume, Recovering
      <4>2. Cardinality(Recovering') = Cardinality(Recovering) + 1
        BY <4>1, FS_AddElement
      <4>3. disconnected # "none" /\ disconnected' = "none" /\ UNCHANGED <<recoveries, outages>>
        BY <3>2 DEF AuthAccept, RecoveryDue
      <4> QED
        BY <4>2, <4>3 DEF RecoveriesInv, One
    <3>3. CASE AuthAccept(c) /\ ~RecoveryDue
      BY <3>3, <2>5 DEF AuthAccept
    <3>4. CASE AuthRecovered(c)
      <4>1. Recovering' = Recovering \ {c} /\ c \in Recovering
        BY <3>4 DEF AuthRecovered, Resume, Recovering
      <4>2. Cardinality(Recovering') = Cardinality(Recovering) - 1
        BY <4>1, FS_RemoveElement
      <4>3. recoveries' = recoveries + 1 /\ UNCHANGED <<disconnected, outages>>
        BY <3>4 DEF AuthRecovered
      <4> QED
        BY <4>2, <4>3 DEF RecoveriesInv, One
    <3> QED
      BY <2>7, <2>5, <3>1, <3>2, <3>3, <3>4 DEF Auth, AuthLookup, AuthReject, AuthUpdate, AuthDone
  <2>8. ASSUME NEW c \in Conns, Close(c) PROVE RecoveriesInv'
    <3>1. CASE CloseDone(c)
      <4>1. Recovering' = Recovering /\ recoveries' = recoveries /\ outages' = outages + 1
        BY <3>1 DEF CloseDone, Recovering
      <4> QED
        BY <4>1 DEF RecoveriesInv, One
    <3> QED
      BY <2>8, <2>4, <3>1 DEF Close, CloseEvent, CloseWrite
  <2>9. CASE Alarm
    BY <2>9, <2>4 DEF Alarm, AlarmFires, AlarmLookup, AlarmSkip, AlarmMail, AlarmDone
  <2>10. CASE Platform
    <3>1. CASE Restart
      <4>1. Recovering' \subseteq Recovering
        BY <3>1 DEF Restart, Recovering
      <4> QED
        BY <3>1, <4>1, <2>3 DEF Restart
    <3>2. ASSUME NEW c \in Conns, TalkFails(c) PROVE RecoveriesInv'
      <4>1. Recovering' \subseteq Recovering
        BY <3>2 DEF TalkFails, Recovering
      <4> QED
        BY <3>2, <4>1, <2>3 DEF TalkFails
    <3> QED
      BY <2>10, <2>4, <3>1, <3>2 DEF Platform, Hibernate, AlarmFails, CloseWriteFails
  <2>11. CASE Web
    BY <2>11, <2>4 DEF Web, ListingRead, ListingWrite, RemovalRead, RemovalDisconnect, RemovalDisconnectFails, RemovalDelete
  <2>12. CASE Agent \/ UNCHANGED vars
    BY <2>12, <2>4 DEF Agent, Dial, Disconnect, ReceiveError, ReceiveAuthSuccess,
                       ReceiveRegisterSuccess, EphemeralExpires, vars
  <2> QED
    BY <2>6, <2>7, <2>8, <2>9, <2>10, <2>11, <2>12 DEF Next
<1>3. TypeOK /\ RecoveriesInv => RecoveriesBounded
  <2> SUFFICES ASSUME TypeOK, RecoveriesInv PROVE RecoveriesBounded
    OBVIOUS
  <2>1. Cardinality(Recovering) \in Nat /\ recoveries \in Nat /\ outages \in Nat
    BY ConnSetsFinite DEF Recovering, TypeOK
  <2> QED
    BY <2>1 DEF RecoveriesInv, RecoveriesBounded, One
<1> QED
  BY <1>1, <1>2, <1>3, TypeCorrect, FirstMessageInvariant, PTL DEF Spec

(* No outage brings two e-mails of a kind, for any overlap of sockets and  *)
(* handlers: alarm() alerts it once unless a fault made it run again, and  *)
(* handleAgentAuth answers it once.                                        *)
THEOREM MailsAreBounded == Spec => []MailsBounded
<1>1. AlertsBounded /\ RecoveriesBounded => MailsBounded
  BY DEF MailsBounded
<1> QED
  BY <1>1, AlertsAreBounded, RecoveriesAreBounded, PTL
-----------------------------------------------------------------------------
(***************************************************************************)
(* Without overlap one connection is in use at a time, so a recovery       *)
(* e-mail under way and the marker of the alert it answers are the same    *)
(* unanswered alert.                                                       *)
(***************************************************************************)
InUse(c) == c \in open \cup closing \/ talk[c] # "none" \/ shut[c] # "none"
OneInUse == \A c, d \in Conns : InUse(c) /\ InUse(d) => c = d

Unanswered == One(ring = "mailing") + One(alertSent \/ Recovering # {})
UnansweredInv == recoveries + Unanswered <= alerts

LEMMA OneInUseInvariant == ASSUME ~Overlap PROVE Spec => []OneInUse
<1>1. Init => OneInUse
  BY DEF Init, OneInUse, InUse
<1>2. TypeOK /\ OneInUse /\ [Next]_vars => OneInUse'
  <2> SUFFICES ASSUME TypeOK, OneInUse, [Next]_vars PROVE OneInUse'
    OBVIOUS
  <2>1. /\ talk \in [Conns -> TalkPhases] /\ open \subseteq Conns /\ closing \subseteq Conns
        /\ shut \in [Conns -> {"none", "update", "written"}]
    BY DEF TypeOK
  <2> USE <2>1
  <2> USE DEF sockVars, taskVars, netVars
  \* No step brings a connection into use but Dial.
  <2>2. ASSUME \A c \in Conns : InUse(c)' => InUse(c) PROVE OneInUse'
    BY <2>2 DEF OneInUse
  <2>3. CASE Dial
    <3>1. /\ open = {} /\ closing = {} /\ HandlersDone
          /\ open' = {dialed + 1} /\ UNCHANGED <<closing, talk, shut>>
      BY <2>3 DEF Dial
    <3> QED
      BY <3>1 DEF OneInUse, InUse, HandlersDone
  <2>4. CASE UNCHANGED <<talk, shut>> /\ open' \cup closing' \subseteq open \cup closing
    BY <2>4, <2>2 DEF InUse
  <2>5. ASSUME NEW c \in Conns, Register(c) \/ Auth(c) \/ Close(c) PROVE OneInUse'
    <3>1. /\ InUse(c)
          /\ open' \cup closing' \subseteq open \cup closing
          /\ \A d \in Conns \ {c} : talk'[d] = talk[d] /\ shut'[d] = shut[d]
      BY <2>5 DEF InUse, Register, DeliverRegister, RegisterLookup, RegisterReject, RegisterUpdate,
                  RegisterInsert, RegisterDone, Auth, DeliverAuth, AuthLookup, AuthReject, AuthAccept,
                  AuthRecovered, AuthUpdate, AuthDone, Close, CloseEvent, CloseWrite, CloseDone, Resume
    <3> QED
      BY <3>1, <2>2 DEF InUse
  <2>6. CASE Platform
    <3>1. ASSUME NEW c \in Conns, TalkFails(c) \/ CloseWriteFails(c) PROVE OneInUse'
      <4>1. /\ InUse(c) /\ UNCHANGED <<open, closing>>
            /\ \A d \in Conns \ {c} : talk'[d] = talk[d] /\ shut'[d] = shut[d]
        BY <3>1 DEF TalkFails, CloseWriteFails, InUse
      <4> QED
        BY <4>1, <2>2 DEF InUse
    <3>2. CASE Restart
      BY <3>2, <2>2 DEF Restart, InUse
    <3> QED
      BY <2>6, <2>4, <3>1, <3>2 DEF Platform, Hibernate, AlarmFails
  <2>7. CASE Alarm \/ Web \/ UNCHANGED vars
    BY <2>7, <2>4 DEF Alarm, AlarmFires, AlarmLookup, AlarmSkip, AlarmMail, AlarmDone, Web, ListingRead,
                      ListingWrite, RemovalRead, RemovalDisconnect, RemovalDisconnectFails, RemovalDelete, vars
  <2>8. CASE Agent /\ ~Dial
    BY <2>8, <2>4 DEF Agent, Disconnect, ReceiveError, ReceiveAuthSuccess, ReceiveRegisterSuccess,
                      EphemeralExpires
  <2> QED
    BY <2>3, <2>5, <2>6, <2>7, <2>8 DEF Next
<1> QED
  BY <1>1, <1>2, TypeCorrect, PTL DEF Spec

\* Every recovery e-mail under way or due answers an alert of its own.
LEMMA UnansweredInvariant == ASSUME ~Overlap PROVE Spec => []UnansweredInv
<1>1. Init => UnansweredInv
  BY DEF Init, UnansweredInv, Unanswered, Recovering, One
<1>2. TypeOK /\ FirstMessage /\ OneInUse /\ UnansweredInv /\ [Next]_vars => UnansweredInv'
  <2> SUFFICES ASSUME TypeOK, FirstMessage, OneInUse, UnansweredInv, [Next]_vars
               PROVE  UnansweredInv'
    OBVIOUS
  <2>1. /\ talk \in [Conns -> TalkPhases] /\ recoveries \in Nat /\ alerts \in Nat
        /\ hello \in [Conns -> {"none", "register", "auth"}] /\ open \subseteq Conns
        /\ alertSent \in BOOLEAN
    BY DEF TypeOK
  <2> USE <2>1
  <2> USE DEF doVars, alertVars, histVars, mailVars, taskVars
  \* Steps that start no recovery and send no e-mail.
  <2>2. ASSUME Recovering' \subseteq Recovering, UNCHANGED <<recoveries, alerts>>,
               alertSent' => alertSent, ring' = "mailing" => ring = "mailing"
        PROVE  UnansweredInv'
    BY <2>2 DEF UnansweredInv, Unanswered, One
  <2>3. ASSUME UNCHANGED <<talk, recoveries, alerts>>,
               alertSent' => alertSent, ring' = "mailing" => ring = "mailing"
        PROVE  UnansweredInv'
    BY <2>2, <2>3 DEF Recovering
  <2>4. ASSUME NEW c \in Conns, Register(c) PROVE UnansweredInv'
    <3>1. Recovering' \subseteq Recovering
      BY <2>4 DEF Recovering, Register, DeliverRegister, RegisterLookup, RegisterReject,
                  RegisterUpdate, RegisterInsert, RegisterDone, Resume
    <3> QED
      BY <2>4, <2>2, <3>1 DEF Register, DeliverRegister, RegisterLookup, RegisterReject,
                              RegisterUpdate, RegisterInsert, RegisterDone
  <2>5. ASSUME NEW c \in Conns, Auth(c) PROVE UnansweredInv'
    <3>1. CASE AuthAccept(c) /\ RecoveryDue
      <4>1. alertSent /\ UNCHANGED <<alertSent, ring, recoveries, alerts>>
        BY <3>1 DEF AuthAccept, RecoveryDue
      <4> QED
        BY <4>1 DEF UnansweredInv, Unanswered, One
    <3>2. CASE AuthRecovered(c)
      <4>1. c \in Recovering /\ Recovering' = Recovering \ {c}
        BY <3>2 DEF AuthRecovered, Resume, Recovering
      <4>2. Recovering \subseteq {c}
        BY <4>1 DEF Recovering, OneInUse, InUse
      <4>3. Recovering' = {} /\ ~alertSent' /\ recoveries' = recoveries + 1 /\ UNCHANGED <<ring, alerts>>
        BY <3>2, <4>1, <4>2 DEF AuthRecovered
      <4> QED
        BY <4>1, <4>3 DEF UnansweredInv, Unanswered, One
    <3>3. CASE ~AuthRecovered(c) /\ ~(AuthAccept(c) /\ RecoveryDue)
      <4>1. Recovering' \subseteq Recovering
        BY <2>5, <3>3 DEF Recovering, Auth, DeliverAuth, AuthLookup, AuthReject, AuthAccept,
                          AuthUpdate, AuthDone, Resume
      <4> QED
        BY <2>5, <2>2, <3>3, <4>1 DEF Auth, DeliverAuth, AuthLookup, AuthReject, AuthAccept,
                                      AuthUpdate, AuthDone
    <3> QED
      BY <3>1, <3>2, <3>3
  <2>6. ASSUME NEW c \in Conns, Close(c) PROVE UnansweredInv'
    BY <2>6, <2>3 DEF Close, CloseEvent, CloseWrite, CloseDone
  <2>7. CASE Alarm
    <3>1. CASE AlarmMail
      <4>1. Recovering' = Recovering
        BY <3>1 DEF AlarmMail, Recovering
      <4> QED
        BY <3>1, <4>1 DEF AlarmMail, UnansweredInv, Unanswered, One
    <3>2. CASE AlarmDone
      <4>1. Recovering' = Recovering /\ ring = "mailing" /\ ring' = "none" /\ UNCHANGED <<recoveries, alerts>>
        BY <3>2 DEF AlarmDone, Recovering
      <4> QED
        BY <4>1 DEF UnansweredInv, Unanswered, One
    <3> QED
      BY <2>7, <2>3, <3>1, <3>2 DEF Alarm, AlarmFires, AlarmLookup, AlarmSkip
  <2>8. CASE Platform
    <3>1. CASE Restart
      <4>1. Recovering' \subseteq Recovering
        BY <3>1 DEF Restart, Recovering
      <4> QED
        BY <3>1, <4>1, <2>2 DEF Restart
    <3>2. ASSUME NEW c \in Conns, TalkFails(c) PROVE UnansweredInv'
      <4>1. Recovering' \subseteq Recovering
        BY <3>2 DEF TalkFails, Recovering
      <4> QED
        BY <3>2, <4>1, <2>2 DEF TalkFails
    <3> QED
      BY <2>8, <2>3, <3>1, <3>2 DEF Platform, Hibernate, AlarmFails, CloseWriteFails
  <2>9. CASE Web \/ Agent \/ UNCHANGED vars
    BY <2>9, <2>3 DEF Web, ListingRead, ListingWrite, RemovalRead, RemovalDisconnect, RemovalDisconnectFails, RemovalDelete,
                      Agent, Dial, Disconnect, ReceiveError, ReceiveAuthSuccess,
                      ReceiveRegisterSuccess, EphemeralExpires, vars
  <2> QED
    BY <2>4, <2>5, <2>6, <2>7, <2>8, <2>9 DEF Next
<1> QED
  BY <1>1, <1>2, TypeCorrect, FirstMessageInvariant, OneInUseInvariant, PTL DEF Spec

\* The e-mails of an agent whose connections do not overlap keep the promise of the
\* ledger: no alert without an occasion, no recovery without an unanswered alert.
THEOREM LedgerImplemented == ASSUME ~Overlap PROVE Spec => LedgerSpec
<1>1. Init => Ledger!Init
  BY DEF Init, Ledger!Init
<1>2. TypeOK /\ AlertsInv /\ UnansweredInv /\ [Next]_vars => [Ledger!Next]_(Ledger!vars)
  <2> SUFFICES ASSUME TypeOK, AlertsInv, UnansweredInv, [Next]_vars
               PROVE  [Ledger!Next]_(Ledger!vars)
    OBVIOUS
  <2>1. /\ alerts \in Nat /\ recoveries \in Nat /\ outages \in Nat /\ faults \in Nat
        /\ alarmSet \in BOOLEAN
    BY DEF TypeOK
  <2> USE <2>1
  <2> USE DEF histVars, mailVars, Ledger!Next, Ledger!vars, Ledger!Occasion, Ledger!Alert, Ledger!Recover
  <2>2. ASSUME UNCHANGED histVars PROVE [Ledger!Next]_(Ledger!vars)
    BY <2>2
  <2>3. ASSUME outages' + faults' = outages + faults + 1, UNCHANGED <<alerts, recoveries>>
        PROVE  [Ledger!Next]_(Ledger!vars)
    BY <2>3
  <2>4. ASSUME NEW c \in Conns, Register(c) PROVE [Ledger!Next]_(Ledger!vars)
    <3>1. UNCHANGED histVars
      BY <2>4 DEF Register, DeliverRegister, RegisterLookup, RegisterReject, RegisterUpdate,
                  RegisterInsert, RegisterDone
    <3> QED
      BY <3>1
  <2>5. ASSUME NEW c \in Conns, Auth(c) PROVE [Ledger!Next]_(Ledger!vars)
    <3>1. CASE AuthRecovered(c)
      <4>1. Recovering # {}
        BY <3>1 DEF AuthRecovered, Resume, Recovering
      <4>2. recoveries < alerts
        BY <4>1 DEF UnansweredInv, Unanswered, One
      <4> QED
        BY <3>1, <4>2 DEF AuthRecovered
    <3>2. CASE ~AuthRecovered(c)
      <4>1. UNCHANGED histVars
        BY <2>5, <3>2 DEF Auth, DeliverAuth, AuthLookup, AuthReject, AuthAccept, AuthUpdate, AuthDone
      <4> QED
        BY <4>1
    <3> QED
      BY <3>1, <3>2
  <2>6. ASSUME NEW c \in Conns, Close(c) PROVE [Ledger!Next]_(Ledger!vars)
    <3>1. UNCHANGED histVars \/ (outages' + faults' = outages + faults + 1 /\ UNCHANGED <<alerts, recoveries>>)
      BY <2>6 DEF Close, CloseEvent, CloseWrite, CloseDone
    <3> QED
      BY <3>1, <2>2, <2>3
  <2>7. CASE Alarm
    <3>1. CASE AlarmMail
      <4>1. alerts < outages + faults
        BY <3>1 DEF AlarmMail, AlertsInv, AlertsOutstanding, One
      <4> QED
        BY <3>1, <4>1 DEF AlarmMail
    <3>2. CASE ~AlarmMail
      <4>1. UNCHANGED histVars
        BY <2>7, <3>2 DEF Alarm, AlarmFires, AlarmLookup, AlarmSkip, AlarmDone
      <4> QED
        BY <4>1
    <3> QED
      BY <3>1, <3>2
  <2>8. CASE Platform
    <3>1. UNCHANGED histVars \/ (outages' + faults' = outages + faults + 1 /\ UNCHANGED <<alerts, recoveries>>)
      BY <2>8 DEF Platform, Hibernate, Restart, AlarmFails, TalkFails, CloseWriteFails
    <3> QED
      BY <3>1, <2>2, <2>3
  <2>9. CASE Agent \/ Web \/ UNCHANGED vars
    <3>1. CASE RemovalDisconnectFails
      <4>1. outages' + faults' = outages + faults + 1 /\ UNCHANGED <<alerts, recoveries>>
        BY <3>1 DEF RemovalDisconnectFails
      <4> QED
        BY <4>1, <2>2, <2>3
    <3>2. CASE ~RemovalDisconnectFails
      <4>1. UNCHANGED histVars
        BY <2>9, <3>2 DEF Agent, Dial, Disconnect, ReceiveError, ReceiveAuthSuccess,
           ReceiveRegisterSuccess, EphemeralExpires, Web, ListingRead, ListingWrite, RemovalRead,
           RemovalDisconnect, RemovalDelete, vars
      <4> QED
        BY <4>1
    <3> QED
      BY <3>1, <3>2
  <2> QED
    BY <2>4, <2>5, <2>6, <2>7, <2>8, <2>9 DEF Next
<1> QED
  BY <1>1, <1>2, TypeCorrect, AlertsInvariant, UnansweredInvariant, PTL
  DEF Spec, LedgerSpec, Ledger!Spec
-----------------------------------------------------------------------------
(***************************************************************************)
(* Without overlap only the latest connection is in use, so a reply, which *)
(* goes to the oldest socket, reaches the connection that asked for it.    *)
(***************************************************************************)
RegisterPhases == {"regSelect", "regPending", "regFree", "regTaken", "regWritten"}
AcceptedPhases == {"authRecipients", "authUpdate", "authWritten"}

\* Only the latest connection is in use; a socket that is still there has not
\* been closed.
LatestInUse ==
  /\ \A c \in Conns : /\ InUse(c) => c = dialed
                      /\ hello[c] # "none" => c \in open
                      /\ c \in open \cup closing => shut[c] = "none"
  /\ link # NoConn => link = dialed
  /\ phase \in {"waiting", "up"} => link # NoConn

\* A connection is answered once, by its own handler.
OneReply ==
  \A c \in Conns :
    /\ Len(inbox[c]) <= 1
    /\ hello[c] # "none" \/ talk[c] # "none" \/ c > dialed => inbox[c] = <<>>
    /\ \A t \in Conns : inbox[c] = <<RegisterSuccess(t)>> => t = c

\* An agent registers only while it has no permanent token.
RegistersAnew ==
  \A c \in Conns : hello[c] = "register" \/ talk[c] \in RegisterPhases => token = NoToken

\* An agent that is up has read that it is: on this connection it authenticated
\* or was given its token.
UpOnReply == phase = "up" => inbox[link] = <<AuthSuccess>> \/ token = link

\* An accepted agent is registered, and its alarm is cancelled for good unless a
\* fault makes an alarm run again.
AcceptedIsRegistered ==
  \A c \in open :
    talk[c] \in AcceptedPhases \/ inbox[c] = <<AuthSuccess>> =>
      /\ isRegistered
      /\ talk[c] # "authRecipients" => agentIdKept
      /\ alarmSet => faults > 0

\* Only a failed statement refuses a token that the row holds.
Turned ==
  \/ phase = "exited"
  \/ \E c \in Conns : c = dialed /\ (talk[c] = "authReject" \/ inbox[c] = <<Error>>)
RefusedIsForeign ==
  token # NoToken /\ Turned => row = "none" \/ rowToken # token \/ faults > 0

SerialInv == /\ LatestInUse /\ OneReply /\ RegistersAnew
             /\ UpOnReply /\ AcceptedIsRegistered /\ RefusedIsForeign

LEMMA ConnsAreNat == Conns \subseteq Nat /\ NoConn \notin Conns
  BY ConnsAssumption DEF Conns, NoConn

LEMMA LatestStep ==
  ASSUME ~Overlap, TypeOK, OneInUse, LatestInUse, [Next]_vars PROVE LatestInUse'
<1>1. /\ talk \in [Conns -> TalkPhases] /\ open \subseteq Conns /\ closing \subseteq Conns
      /\ shut \in [Conns -> {"none", "update", "written"}]
      /\ hello \in [Conns -> {"none", "register", "auth"}]
      /\ dialed \in 0 .. MaxConns
  BY DEF TypeOK
<1> USE <1>1, ConnsAreNat
<1> USE DEF sockVars, taskVars, netVars, agentVars
\* Steps that bring no connection into use and leave the agent's side alone.
<1>2. ASSUME UNCHANGED <<dialed, link, phase>>,
             \A c \in Conns : /\ InUse(c)' => InUse(c)
                              /\ hello'[c] # "none" => c \in open'
                              /\ c \in open' \cup closing' => shut'[c] = "none"
      PROVE  LatestInUse'
  BY <1>2 DEF LatestInUse
<1>3. CASE UNCHANGED <<dialed, link, phase, open, closing, hello, shut>>
           /\ \A c \in Conns : talk'[c] # "none" => talk[c] # "none" \/ c \in open
  <2>1. \A c \in Conns : InUse(c)' => InUse(c)
    BY <1>3 DEF InUse
  <2> QED
    BY <1>2, <1>3, <2>1 DEF LatestInUse
<1>4. CASE Agent
  <2>1. CASE Dial
    <3>0. dialed + 1 \in Conns
      BY <2>1, ConnsAssumption DEF Dial, Conns
    <3>1. /\ open = {} /\ closing = {} /\ HandlersDone
          /\ open' = {dialed + 1} /\ link' = dialed + 1 /\ dialed' = dialed + 1
          /\ UNCHANGED <<closing, talk, shut>> /\ dialed + 1 \in Conns
          /\ \A c \in Conns : c # dialed + 1 => hello'[c] = hello[c]
      BY <2>1, <3>0 DEF Dial
    <3>2. \A c \in Conns : hello'[c] # "none" => c = dialed + 1
      BY <3>1 DEF LatestInUse
    <3>3. \A c \in Conns : InUse(c)' => c = dialed + 1
      BY <3>1 DEF InUse, HandlersDone
    <3>4. \A c \in Conns : hello'[c] # "none" => c \in open'
      BY <3>1, <3>2
    <3>5. \A c \in Conns : shut'[c] = "none"
      BY <3>1 DEF HandlersDone
    <3>6. dialed + 1 # NoConn
      BY <3>1
    <3> QED
      BY <3>1, <3>3, <3>4, <3>5, <3>6 DEF LatestInUse
  <2>2. CASE ~Dial
    <3>1. /\ UNCHANGED <<netVars, sockVars, taskVars>>
          /\ link' = link \/ (link' = NoConn /\ phase' \in {"idle", "exited"})
          /\ phase' \in {"waiting", "up"} => phase \in {"waiting", "up"}
      BY <1>4, <2>2 DEF Agent, Disconnect, ReceiveError, ReceiveAuthSuccess, ReceiveRegisterSuccess,
                        EphemeralExpires
    <3> QED
      BY <3>1 DEF LatestInUse, InUse
  <2> QED
    BY <2>1, <2>2
<1>5. ASSUME NEW c \in Conns, Register(c) PROVE LatestInUse'
  <2>1. CASE DeliverRegister(c)
    <3>1. /\ UNCHANGED <<dialed, link, phase, open, closing, shut>>
          /\ \A d \in Conns : /\ hello'[d] # "none" => hello[d] # "none"
                              /\ talk'[d] # "none" => talk[d] # "none" \/ d \in open
      BY <2>1 DEF DeliverRegister
    <3>2. \A d \in Conns : InUse(d)' => InUse(d)
      BY <3>1 DEF InUse
    <3> QED
      BY <1>2, <3>1, <3>2 DEF LatestInUse
  <2>2. CASE ~DeliverRegister(c)
    <3>1. UNCHANGED <<dialed, link, phase, open, closing, hello, shut>>
          /\ \A d \in Conns : talk'[d] # "none" => talk[d] # "none"
      BY <1>5, <2>2 DEF Register, RegisterLookup, RegisterReject, RegisterUpdate, RegisterInsert,
                        RegisterDone, Resume
    <3> QED
      BY <1>3, <3>1
  <2> QED
    BY <2>1, <2>2
<1>6. ASSUME NEW c \in Conns, Auth(c) PROVE LatestInUse'
  <2>1. CASE DeliverAuth(c)
    <3>1. /\ UNCHANGED <<dialed, link, phase, open, closing, shut>>
          /\ \A d \in Conns : /\ hello'[d] # "none" => hello[d] # "none"
                              /\ talk'[d] # "none" => talk[d] # "none" \/ d \in open
      BY <2>1 DEF DeliverAuth
    <3>2. \A d \in Conns : InUse(d)' => InUse(d)
      BY <3>1 DEF InUse
    <3> QED
      BY <1>2, <3>1, <3>2 DEF LatestInUse
  <2>2. CASE ~DeliverAuth(c)
    <3>1. UNCHANGED <<dialed, link, phase, open, closing, hello, shut>>
          /\ \A d \in Conns : talk'[d] # "none" => talk[d] # "none"
      BY <1>6, <2>2 DEF Auth, AuthLookup, AuthReject, AuthAccept, AuthRecovered, AuthUpdate,
                        AuthDone, Resume
    <3> QED
      BY <1>3, <3>1
  <2> QED
    BY <2>1, <2>2
<1>7. ASSUME NEW c \in Conns, Close(c) PROVE LatestInUse'
  <2>1. CASE CloseEvent(c)
    <3>1. /\ UNCHANGED <<dialed, link, phase, talk>>
          /\ open' = open \ {c} /\ closing' = closing \ {c} /\ c \in open \cup closing
          /\ hello'[c] = "none" /\ \A d \in Conns \ {c} : hello'[d] = hello[d] /\ shut'[d] = shut[d]
      BY <2>1 DEF CloseEvent
    <3>2. \A d \in Conns : InUse(d)' => InUse(d)
      BY <3>1 DEF InUse
    <3> QED
      BY <1>2, <3>1, <3>2 DEF LatestInUse
  <2>2. CASE CloseWrite(c) \/ CloseDone(c)
    <3>1. /\ UNCHANGED <<dialed, link, phase, talk, open, closing, hello>>
          /\ shut[c] # "none" /\ \A d \in Conns \ {c} : shut'[d] = shut[d]
      BY <2>2 DEF CloseWrite, CloseDone
    <3>2. \A d \in Conns : InUse(d)' => InUse(d)
      BY <3>1 DEF InUse
    <3> QED
      BY <1>2, <3>1, <3>2 DEF LatestInUse
  <2> QED
    BY <1>7, <2>1, <2>2 DEF Close
<1>8. CASE Alarm
  BY <1>3, <1>8 DEF Alarm, AlarmFires, AlarmLookup, AlarmSkip, AlarmMail, AlarmDone
<1>9. CASE Platform
  <2>1. CASE Hibernate \/ AlarmFails
    BY <1>3, <2>1 DEF Hibernate, AlarmFails
  <2>2. CASE Restart
    <3>1. \A d \in Conns : ~InUse(d)' /\ hello'[d] = "none" /\ d \notin open' \cup closing'
      BY <2>2 DEF Restart, InUse
    <3>2. UNCHANGED <<dialed, link, phase>>
      BY <2>2 DEF Restart
    <3> QED
      BY <1>2, <3>1, <3>2
  <2>3. ASSUME NEW c \in Conns, TalkFails(c) PROVE LatestInUse'
    <3>1. UNCHANGED <<dialed, link, phase, open, closing, hello, shut>>
          /\ \A d \in Conns : talk'[d] # "none" => talk[d] # "none"
      BY <2>3 DEF TalkFails
    <3> QED
      BY <1>3, <3>1
  <2>4. ASSUME NEW c \in Conns, CloseWriteFails(c) PROVE LatestInUse'
    <3>1. /\ UNCHANGED <<dialed, link, phase, talk, open, closing, hello>>
          /\ shut[c] # "none" /\ \A d \in Conns \ {c} : shut'[d] = shut[d]
      BY <2>4 DEF CloseWriteFails
    <3>2. \A d \in Conns : InUse(d)' => InUse(d)
      BY <3>1 DEF InUse
    <3> QED
      BY <1>2, <3>1, <3>2 DEF LatestInUse
  <2> QED
    BY <1>9, <2>1, <2>2, <2>3, <2>4 DEF Platform
<1>10. CASE Web
  <2>1. CASE RemovalDisconnect
    <3>1. /\ UNCHANGED <<dialed, link, phase, talk, shut>>
          /\ open' \cup closing' \subseteq open \cup closing
          /\ \A d \in Conns : hello'[d] # "none" => hello[d] # "none" /\ d # AgentWebSocket
          /\ open' = open \ {AgentWebSocket}
      BY <2>1 DEF RemovalDisconnect
    <3>2. \A d \in Conns : InUse(d)' => InUse(d)
      BY <3>1 DEF InUse
    <3> QED
      BY <1>2, <3>1, <3>2 DEF LatestInUse
  <2>2. CASE ~RemovalDisconnect
    BY <1>3, <1>10, <2>2 DEF Web, ListingRead, ListingWrite, RemovalRead, RemovalDisconnectFails,
         RemovalDelete
  <2> QED
    BY <2>1, <2>2
<1>11. CASE UNCHANGED vars
  BY <1>3, <1>11 DEF vars
<1> QED
  BY <1>4, <1>5, <1>6, <1>7, <1>8, <1>9, <1>10, <1>11 DEF Next

\* A handler's reply reaches its own connection or nobody.
LEMMA AnswersAsker ==
  ASSUME TypeOK, OneInUse, OneReply, NEW c \in Conns, InUse(c),
         hello[c] # "none" \/ talk[c] # "none", NEW m \in Replies, Send(m)
  PROVE  /\ \A d \in Conns \ {c} : inbox'[d] = inbox[d]
         /\ inbox'[c] = <<>> \/ inbox'[c] = <<m>>
<1>1. inbox \in [Conns -> Seq(Replies)]
  BY DEF TypeOK
<1>2. ASSUME NEW d \in Conns \ {c} PROVE inbox'[d] = inbox[d]
  <2>1. d # AgentWebSocket \/ d \notin open
    BY <1>2 DEF OneInUse, InUse
  <2> QED
    BY <2>1 DEF Send
<1>3. inbox[c] = <<>>
  BY DEF OneReply
<1>4. inbox'[c] = inbox[c] \/ inbox'[c] = Append(inbox[c], m)
  BY DEF Send
<1>5. Append(<<>>, m) = <<m>>
  OBVIOUS
<1> QED
  BY <1>2, <1>3, <1>4, <1>5

\* What the agent reads is the one message of its latest connection.
LEMMA ReadsTheReply ==
  ASSUME TypeOK, LatestInUse, OneReply, phase = "waiting", NEW m \in Replies, NEW subject,
         Reads(m, subject)
  PROVE  link \in Conns /\ link = dialed /\ inbox[link] = <<m>>
<1>1. link \in Conns /\ link = dialed
  BY DEF LatestInUse, TypeOK
<1>2. inbox[link] \in Seq(Replies) /\ Len(inbox[link]) <= 1
  BY <1>1 DEF TypeOK, OneReply
<1>3. PICK i \in DOMAIN inbox[link] : inbox[link][i] = m
  BY DEF Reads
<1>4. inbox[link][1] = m /\ Len(inbox[link]) = 1
  <2>1. \A q \in Seq(Replies) : DOMAIN q = 1 .. Len(q) /\ Len(q) \in Nat
    OBVIOUS
  <2>2. i \in 1 .. Len(inbox[link]) /\ Len(inbox[link]) \in Nat
    BY <1>2, <1>3, <2>1
  <2>3. \A n \in Nat : n <= 1 => \A k \in 1 .. n : k = 1 /\ n = 1
    OBVIOUS
  <2>4. i = 1 /\ Len(inbox[link]) = 1
    BY <1>2, <2>2, <2>3
  <2> QED
    BY <1>3, <2>4
<1>5. \A q \in Seq(Replies) : Len(q) = 1 => q = <<q[1]>>
  OBVIOUS
<1> QED
  BY <1>1, <1>2, <1>4, <1>5

LEMMA RepliesDiffer ==
  /\ Error # AuthSuccess
  /\ \A t \in Conns : RegisterSuccess(t) # Error /\ RegisterSuccess(t) # AuthSuccess
  /\ \A t, u \in Conns : RegisterSuccess(t) = RegisterSuccess(u) => t = u
  BY DEF Error, AuthSuccess, RegisterSuccess

LEMMA OneReplyStep ==
  ASSUME TypeOK, FirstMessage, OneInUse, OneReply, [Next]_vars PROVE OneReply'
<1>1. /\ talk \in [Conns -> TalkPhases] /\ open \subseteq Conns
      /\ hello \in [Conns -> {"none", "register", "auth"}]
      /\ dialed \in Nat
  BY ConnsAssumption DEF TypeOK
<1> USE <1>1, ConnsAreNat, RepliesTyped, RepliesDiffer
<1> USE DEF sockVars, taskVars, netVars
\* Steps that neither open a connection nor reply.
<1>2. ASSUME UNCHANGED <<inbox, dialed>>,
             \A c \in Conns : hello'[c] # "none" \/ talk'[c] # "none" =>
                              hello[c] # "none" \/ talk[c] # "none"
      PROVE  OneReply'
  BY <1>2 DEF OneReply
\* A handler replies and is done.
<1>3. ASSUME NEW c \in Conns, InUse(c), hello[c] # "none" \/ talk[c] # "none",
             NEW m \in Replies, Send(m), \A t \in Conns : m = RegisterSuccess(t) => t = c,
             hello' = hello \/ hello' = [hello EXCEPT ![c] = "none"],
             talk' = talk \/ talk' = [talk EXCEPT ![c] = "none"],
             hello'[c] = "none", talk'[c] = "none", dialed' = dialed
      PROVE  OneReply'
  <2>1. /\ \A d \in Conns \ {c} : inbox'[d] = inbox[d]
        /\ inbox'[c] = <<>> \/ inbox'[c] = <<m>>
    BY <1>3, AnswersAsker
  <2>2. c <= dialed
    BY <1>3 DEF FirstMessage
  <2>3. ASSUME NEW d \in Conns \ {c} PROVE
          /\ Len(inbox'[d]) <= 1
          /\ hello'[d] # "none" \/ talk'[d] # "none" \/ d > dialed' => inbox'[d] = <<>>
          /\ \A t \in Conns : inbox'[d] = <<RegisterSuccess(t)>> => t = d
    <3>1. inbox'[d] = inbox[d] /\ hello'[d] = hello[d] /\ talk'[d] = talk[d]
      BY <1>3, <2>1
    <3> QED
      BY <1>3, <3>1 DEF OneReply
  <2>4. /\ Len(inbox'[c]) <= 1
        /\ hello'[c] # "none" \/ talk'[c] # "none" \/ c > dialed' => inbox'[c] = <<>>
        /\ \A t \in Conns : inbox'[c] = <<RegisterSuccess(t)>> => t = c
    <3>1. Len(<<>>) = 0 /\ \A r \in Replies : Len(<<r>>) = 1
      OBVIOUS
    <3>2. \A t \in Conns : <<m>> = <<RegisterSuccess(t)>> => t = c
      BY <1>3
    <3>3. \A t \in Conns : <<>> # <<RegisterSuccess(t)>>
      <4>1. \A t \in Conns : Len(<<RegisterSuccess(t)>>) = 1
        BY <3>1, RepliesTyped
      <4> QED
        BY <3>1, <4>1
    <3>4. ~(c > dialed')
      BY <1>3, <2>2
    <3>5. Len(inbox'[c]) <= 1
      <4>1. Len(inbox'[c]) \in {0, 1}
        BY <1>3, <2>1, <3>1
      <4>2. \A n \in {0, 1} : n <= 1
        OBVIOUS
      <4> QED
        BY <4>1, <4>2
    <3> QED
      BY <1>3, <2>1, <3>2, <3>3, <3>4, <3>5
  <2> QED
    BY <2>3, <2>4 DEF OneReply
<1>4. CASE Agent
  <2>1. CASE Dial
    <3>1. /\ dialed' = dialed + 1 /\ UNCHANGED <<inbox, talk>>
          /\ \A c \in Conns : c # dialed + 1 => hello'[c] = hello[c]
      BY <2>1 DEF Dial
    <3>2. inbox[dialed + 1] = <<>> \/ dialed + 1 \notin Conns
      BY DEF OneReply
    <3>3. ASSUME NEW c \in Conns PROVE
            hello'[c] # "none" \/ talk'[c] # "none" \/ c > dialed' => inbox'[c] = <<>>
      BY <3>1, <3>2 DEF OneReply
    <3> QED
      BY <3>1, <3>3 DEF OneReply
  <2>2. CASE ~Dial
    BY <1>2, <1>4, <2>2 DEF Agent, Disconnect, ReceiveError, ReceiveAuthSuccess,
                            ReceiveRegisterSuccess, EphemeralExpires
  <2> QED
    BY <2>1, <2>2
<1>5. ASSUME NEW c \in Conns, Register(c) PROVE OneReply'
  <2>1. CASE DeliverRegister(c) /\ ephemeral
    BY <1>2, <2>1 DEF DeliverRegister
  <2>2. CASE DeliverRegister(c) /\ ~ephemeral
    <3>1. /\ InUse(c) /\ hello[c] # "none" /\ Send(Error) /\ dialed' = dialed
          /\ hello' = [hello EXCEPT ![c] = "none"] /\ talk' = talk
      BY <2>2 DEF DeliverRegister, InUse
    <3>2. talk'[c] = "none" /\ hello'[c] = "none"
      BY <3>1 DEF FirstMessage
    <3> QED
      BY <1>3, <3>1, <3>2
  <2>3. CASE RegisterLookup(c) \/ RegisterUpdate(c)
    BY <1>2, <2>3 DEF RegisterLookup, RegisterUpdate, Resume
  <2>4. ASSUME NEW from, from # "none", Resume(c, from, "none"), UNCHANGED <<dialed, hello>>,
               NEW m \in Replies, Send(m), \A t \in Conns : m = RegisterSuccess(t) => t = c
        PROVE  OneReply'
    <3>1. InUse(c) /\ talk[c] # "none" /\ talk' = [talk EXCEPT ![c] = "none"]
      BY <2>4 DEF Resume, InUse
    <3>2. talk'[c] = "none" /\ hello'[c] = "none"
      BY <2>4, <3>1 DEF FirstMessage
    <3> QED
      BY <1>3, <2>4, <3>1, <3>2
  <2>5. CASE RegisterReject(c)
    BY <2>4, <2>5 DEF RegisterReject
  <2>6. CASE RegisterInsert(c)
    <3>1. CASE row = "none"
      BY <1>2, <2>6, <3>1 DEF RegisterInsert, Resume
    <3>2. CASE row # "none"
      BY <2>4, <2>6, <3>2 DEF RegisterInsert
    <3> QED
      BY <3>1, <3>2
  <2>7. CASE RegisterDone(c)
    BY <2>4, <2>7 DEF RegisterDone
  <2> QED
    BY <1>5, <2>1, <2>2, <2>3, <2>5, <2>6, <2>7 DEF Register
<1>6. ASSUME NEW c \in Conns, Auth(c) PROVE OneReply'
  <2>1. ASSUME NEW from, from # "none", Resume(c, from, "none"), UNCHANGED <<dialed, hello>>,
               NEW m \in Replies, Send(m), m \in {Error, AuthSuccess}
        PROVE  OneReply'
    <3>1. InUse(c) /\ talk[c] # "none" /\ talk' = [talk EXCEPT ![c] = "none"]
      BY <2>1 DEF Resume, InUse
    <3>2. talk'[c] = "none" /\ hello'[c] = "none"
      BY <2>1, <3>1 DEF FirstMessage
    <3> QED
      BY <1>3, <2>1, <3>1, <3>2
  <2>2. CASE AuthReject(c)
    BY <2>1, <2>2 DEF AuthReject
  <2>3. CASE AuthDone(c)
    BY <2>1, <2>3 DEF AuthDone
  <2>4. CASE ~AuthReject(c) /\ ~AuthDone(c)
    <3>1. UNCHANGED <<inbox, dialed>>
      BY <1>6, <2>4 DEF Auth, DeliverAuth, AuthLookup, AuthAccept, AuthRecovered, AuthUpdate
    <3>2. \A d \in Conns : hello'[d] # "none" \/ talk'[d] # "none" =>
                           hello[d] # "none" \/ talk[d] # "none"
      BY <1>6, <2>4 DEF Auth, DeliverAuth, AuthLookup, AuthAccept, AuthRecovered, AuthUpdate, Resume
    <3> QED
      BY <1>2, <3>1, <3>2
  <2> QED
    BY <2>2, <2>3, <2>4
<1>7. ASSUME NEW c \in Conns, Close(c) PROVE OneReply'
  BY <1>2, <1>7 DEF Close, CloseEvent, CloseWrite, CloseDone
<1>8. CASE Alarm
  BY <1>2, <1>8 DEF Alarm, AlarmFires, AlarmLookup, AlarmSkip, AlarmMail, AlarmDone
<1>9. CASE Platform
  <2>1. CASE Hibernate \/ AlarmFails \/ Restart
    BY <1>2, <2>1 DEF Hibernate, AlarmFails, Restart
  <2>2. ASSUME NEW c \in Conns, TalkFails(c) PROVE OneReply'
    <3>1. /\ InUse(c) /\ talk[c] # "none" /\ talk' = [talk EXCEPT ![c] = "none"]
          /\ Send(Error) /\ UNCHANGED <<dialed, hello>>
      BY <2>2 DEF TalkFails, InUse
    <3>2. talk'[c] = "none" /\ hello'[c] = "none"
      BY <3>1 DEF FirstMessage
    <3> QED
      BY <1>3, <3>1, <3>2
  <2>3. ASSUME NEW c \in Conns, CloseWriteFails(c) PROVE OneReply'
    BY <1>2, <2>3 DEF CloseWriteFails
  <2> QED
    BY <1>9, <2>1, <2>2, <2>3 DEF Platform
<1>10. CASE Web
  BY <1>2, <1>10 DEF Web, ListingRead, ListingWrite, RemovalRead, RemovalDisconnect, RemovalDisconnectFails, RemovalDelete
<1>11. CASE UNCHANGED vars
  BY <1>2, <1>11 DEF vars
<1> QED
  BY <1>4, <1>5, <1>6, <1>7, <1>8, <1>9, <1>10, <1>11 DEF Next

LEMMA RegistersAnewStep ==
  ASSUME TypeOK, OneInUse, LatestInUse, OneReply, RegistersAnew, [Next]_vars
  PROVE  RegistersAnew'
<1>1. /\ talk \in [Conns -> TalkPhases] /\ hello \in [Conns -> {"none", "register", "auth"}]
      /\ dialed \in 0 .. MaxConns
  BY DEF TypeOK
<1> USE <1>1, ConnsAreNat
<1> USE DEF taskVars, netVars, agentVars, RegisterPhases
\* Steps that start no registration.
<1>2. ASSUME token' = token,
             \A c \in Conns : hello'[c] = "register" \/ talk'[c] \in RegisterPhases =>
                              hello[c] = "register" \/ talk[c] \in RegisterPhases
      PROVE  RegistersAnew'
  BY <1>2 DEF RegistersAnew
<1>3. CASE Agent
  <2>1. CASE Dial
    BY <2>1 DEF Dial, RegistersAnew
  <2>2. ASSUME NEW t \in Conns, ReceiveRegisterSuccess(t) PROVE RegistersAnew'
    <3>1. link \in Conns /\ link = dialed /\ inbox[link] = <<RegisterSuccess(t)>>
      BY <2>2, ReadsTheReply, RepliesTyped DEF ReceiveRegisterSuccess
    <3>2. inbox[link] # <<>>
      BY <3>1
    <3>3. \A c \in Conns : hello[c] = "none" /\ talk[c] = "none"
      BY <3>1, <3>2 DEF LatestInUse, OneReply, InUse
    <3> QED
      BY <2>2, <3>3 DEF ReceiveRegisterSuccess, RegistersAnew
  <2>3. CASE Disconnect \/ ReceiveError \/ ReceiveAuthSuccess \/ EphemeralExpires
    BY <1>2, <2>3 DEF Disconnect, ReceiveError, ReceiveAuthSuccess, EphemeralExpires
  <2> QED
    BY <1>3, <2>1, <2>2, <2>3 DEF Agent
<1>4. ASSUME NEW c \in Conns, Register(c) PROVE RegistersAnew'
  BY <1>2, <1>4 DEF Register, DeliverRegister, RegisterLookup, RegisterReject, RegisterUpdate,
                    RegisterInsert, RegisterDone, Resume
<1>5. ASSUME NEW c \in Conns, Auth(c) PROVE RegistersAnew'
  BY <1>2, <1>5 DEF Auth, DeliverAuth, AuthLookup, AuthReject, AuthAccept, AuthRecovered, AuthUpdate,
                    AuthDone, Resume
<1>6. ASSUME NEW c \in Conns, Close(c) PROVE RegistersAnew'
  BY <1>2, <1>6 DEF Close, CloseEvent, CloseWrite, CloseDone
<1>7. CASE Alarm
  BY <1>2, <1>7 DEF Alarm, AlarmFires, AlarmLookup, AlarmSkip, AlarmMail, AlarmDone
<1>8. CASE Platform
  BY <1>2, <1>8 DEF Platform, Hibernate, Restart, AlarmFails, TalkFails, CloseWriteFails
<1>9. CASE Web
  BY <1>2, <1>9 DEF Web, ListingRead, ListingWrite, RemovalRead, RemovalDisconnect, RemovalDisconnectFails, RemovalDelete
<1>10. CASE UNCHANGED vars
  BY <1>2, <1>10 DEF vars
<1> QED
  BY <1>3, <1>4, <1>5, <1>6, <1>7, <1>8, <1>9, <1>10 DEF Next

\* A message that appears in an inbox is the first one there, success follows an
\* acceptance, and an error a refusal, a failed statement or a registration.
LEMMA Answered ==
  ASSUME TypeOK, OneInUse, LatestInUse, OneReply, RegistersAnew, [Next]_vars,
         NEW d \in Conns, inbox'[d] # inbox[d]
  PROVE  /\ inbox[d] = <<>>
         /\ inbox'[d] = <<AuthSuccess>> => talk[d] = "authWritten"
         /\ inbox'[d] = <<Error>> => talk[d] = "authReject" \/ token = NoToken \/ faults' > 0
<1>1. talk \in [Conns -> TalkPhases] /\ open \subseteq Conns /\ faults \in Nat
  BY DEF TypeOK
<1> USE <1>1, RepliesTyped, RepliesDiffer DEF taskVars, netVars, agentVars
<1>2. ASSUME NEW c \in Conns, InUse(c), hello[c] # "none" \/ talk[c] # "none",
             NEW m \in Replies, Send(m)
      PROVE  d = c /\ inbox[d] = <<>> /\ (inbox'[d] = <<>> \/ inbox'[d] = <<m>>)
  BY <1>2, AnswersAsker DEF OneReply
<1>3. ASSUME NEW m, NEW n, <<m>> = <<n>> PROVE m = n
  BY <1>3
<1>4. ASSUME NEW m, <<m>> = <<>> PROVE FALSE
  BY <1>4
<1>5. ASSUME NEW c \in Conns, Register(c)
      PROVE  /\ inbox[d] = <<>> /\ inbox'[d] # <<AuthSuccess>>
             /\ inbox'[d] = <<Error>> => token = NoToken
  <2>1. token = NoToken /\ InUse(c) /\ (hello[c] # "none" \/ talk[c] # "none")
    BY <1>5 DEF Register, DeliverRegister, RegisterLookup, RegisterReject, RegisterUpdate,
                RegisterInsert, RegisterDone, Resume, InUse, RegistersAnew, RegisterPhases
  <2>2. Send(Error) \/ Send(RegisterSuccess(c))
    BY <1>5 DEF Register, DeliverRegister, RegisterLookup, RegisterReject, RegisterUpdate,
                RegisterInsert, RegisterDone
  <2> QED
    BY <2>1, <2>2, <1>2, <1>3, <1>4
<1>6. ASSUME NEW c \in Conns, Auth(c)
      PROVE  /\ inbox[d] = <<>>
             /\ inbox'[d] = <<AuthSuccess>> => talk[d] = "authWritten"
             /\ inbox'[d] = <<Error>> => talk[d] = "authReject"
  <2>1. AuthReject(c) \/ AuthDone(c)
    BY <1>6 DEF Auth, DeliverAuth, AuthLookup, AuthAccept, AuthRecovered, AuthUpdate
  <2>2. InUse(c) /\ talk[c] # "none"
    BY <2>1 DEF AuthReject, AuthDone, Resume, InUse
  <2>3. CASE AuthReject(c)
    <3>1. Send(Error) /\ talk[c] = "authReject"
      BY <2>3 DEF AuthReject, Resume
    <3> QED
      BY <2>2, <3>1, <1>2, <1>3, <1>4
  <2>4. CASE AuthDone(c)
    <3>1. Send(AuthSuccess) /\ talk[c] = "authWritten"
      BY <2>4 DEF AuthDone, Resume
    <3> QED
      BY <2>2, <3>1, <1>2, <1>3, <1>4
  <2> QED
    BY <2>1, <2>3, <2>4
<1>7. ASSUME NEW c \in Conns, TalkFails(c)
      PROVE  inbox[d] = <<>> /\ inbox'[d] # <<AuthSuccess>> /\ faults' > 0
  <2>1. InUse(c) /\ talk[c] # "none" /\ Send(Error) /\ faults' = faults + 1
    BY <1>7 DEF TalkFails, InUse
  <2> QED
    BY <2>1, <1>2, <1>3, <1>4
<1>8. ASSUME Agent \/ (\E c \in Conns : Close(c) \/ CloseWriteFails(c)) \/ Alarm \/ Hibernate \/ Restart
             \/ AlarmFails \/ Web \/ UNCHANGED vars
      PROVE  FALSE
  BY <1>8 DEF Agent, Dial, Disconnect, ReceiveError, ReceiveAuthSuccess, ReceiveRegisterSuccess,
              EphemeralExpires, Close, CloseEvent, CloseWrite, CloseDone, CloseWriteFails, Alarm,
              AlarmFires, AlarmLookup, AlarmSkip, AlarmMail, AlarmDone, Hibernate, Restart, AlarmFails,
              Web, ListingRead, ListingWrite, RemovalRead, RemovalDisconnect, RemovalDisconnectFails, RemovalDelete, vars
<1> QED
  BY <1>5, <1>6, <1>7, <1>8 DEF Next, Platform

LEMMA UpOnReplyStep ==
  ASSUME TypeOK, OneInUse, LatestInUse, OneReply, RegistersAnew, UpOnReply, [Next]_vars
  PROVE  UpOnReply'
<1> USE RepliesTyped DEF agentVars, netVars
<1>1. ASSUME UNCHANGED <<phase, link, token>> PROVE UpOnReply'
  <2>1. CASE phase = "up" /\ inbox[link] = <<AuthSuccess>>
    <3>1. link \in Conns /\ inbox[link] # <<>>
      BY <2>1 DEF LatestInUse, TypeOK
    <3>2. inbox'[link] = inbox[link]
      BY <3>1, Answered
    <3> QED
      BY <1>1, <2>1, <3>2 DEF UpOnReply
  <2>2. CASE phase # "up" \/ token = link
    BY <1>1, <2>2 DEF UpOnReply
  <2> QED
    BY <2>1, <2>2 DEF UpOnReply
<1>2. CASE ReceiveAuthSuccess
  <2>1. inbox[link] = <<AuthSuccess>>
    BY <1>2, ReadsTheReply DEF ReceiveAuthSuccess
  <2> QED
    BY <1>2, <2>1 DEF ReceiveAuthSuccess, UpOnReply
<1>3. ASSUME NEW t \in Conns, ReceiveRegisterSuccess(t) PROVE UpOnReply'
  <2>1. link \in Conns /\ inbox[link] = <<RegisterSuccess(t)>>
    BY <1>3, ReadsTheReply DEF ReceiveRegisterSuccess
  <2>2. t = link
    BY <2>1 DEF OneReply
  <2> QED
    BY <1>3, <2>2 DEF ReceiveRegisterSuccess, UpOnReply
<1>4. CASE Dial \/ Disconnect \/ ReceiveError
  BY <1>4 DEF Dial, Disconnect, ReceiveError, UpOnReply
<1>5. CASE EphemeralExpires
  BY <1>1, <1>5 DEF EphemeralExpires
<1>6. ASSUME NEW c \in Conns, Register(c) \/ Auth(c) \/ Close(c) PROVE UpOnReply'
  BY <1>1, <1>6 DEF Register, DeliverRegister, RegisterLookup, RegisterReject, RegisterUpdate,
     RegisterInsert, RegisterDone, Auth, DeliverAuth, AuthLookup, AuthReject, AuthAccept,
     AuthRecovered, AuthUpdate, AuthDone, Close, CloseEvent, CloseWrite, CloseDone
<1>7. CASE Alarm \/ Platform \/ Web \/ UNCHANGED vars
  BY <1>1, <1>7 DEF Alarm, AlarmFires, AlarmLookup, AlarmSkip, AlarmMail, AlarmDone, Platform,
     Hibernate, Restart, AlarmFails, TalkFails, CloseWriteFails, Web, ListingRead, ListingWrite,
     RemovalRead, RemovalDisconnect, RemovalDisconnectFails, RemovalDelete, vars
<1> QED
  BY <1>2, <1>3, <1>4, <1>5, <1>6, <1>7 DEF Next, Agent

LEMMA AcceptedStep ==
  ASSUME ~Overlap, TypeOK, FirstMessage, OneInUse, LatestInUse, OneReply, RegistersAnew, AcceptedIsRegistered,
         [Next]_vars
  PROVE  AcceptedIsRegistered'
<1> DEFINE Accepted(c) == talk[c] \in AcceptedPhases \/ inbox[c] = <<AuthSuccess>>
           Known(c) == /\ isRegistered
                       /\ talk[c] # "authRecipients" => agentIdKept
                       /\ alarmSet => faults > 0
<1>0. AcceptedIsRegistered <=> \A c \in open : Accepted(c) => Known(c)
  BY DEF AcceptedIsRegistered
<1>1. /\ talk \in [Conns -> TalkPhases] /\ open \subseteq Conns /\ faults \in Nat
      /\ dialed \in Nat /\ alarmSet \in BOOLEAN
  BY ConnsAssumption DEF TypeOK
<1>2. ASSUME \A c \in open' : Accepted(c)' => Known(c)' PROVE AcceptedIsRegistered'
  BY <1>2 DEF AcceptedIsRegistered
\* Success is only sent to the connection that was accepted.
<1>3. ASSUME NEW c \in Conns, inbox'[c] = <<AuthSuccess>>, inbox[c] # <<AuthSuccess>>
      PROVE  talk[c] = "authWritten"
  BY <1>3, Answered
<1> USE <1>1 DEF AcceptedPhases, doVars, alertVars, taskVars, sockVars, netVars, histVars
\* Steps that accept nobody.
<1>4. ASSUME open' \subseteq open,
             \A c \in open' : talk'[c] \in AcceptedPhases => talk[c] \in AcceptedPhases,
             \A c \in open' : /\ talk[c] = "authRecipients" => talk'[c] = "authRecipients"
                              /\ Accepted(c) /\ Known(c) => isRegistered'
                              /\ Accepted(c) /\ Known(c) /\ talk[c] # "authRecipients" => agentIdKept'
                              /\ Accepted(c) /\ Known(c) /\ alarmSet' => faults' > 0
      PROVE  AcceptedIsRegistered'
  <2> SUFFICES ASSUME NEW c \in open', Accepted(c)' PROVE Known(c)'
    BY <1>2
  <2>1. Accepted(c)
    BY <1>3, <1>4
  <2>2. Known(c)
    BY <1>0, <1>4, <2>1
  <2> QED
    BY <1>4, <2>1, <2>2
<1>5. ASSUME UNCHANGED <<doVars, faults, open, talk>> PROVE AcceptedIsRegistered'
  BY <1>4, <1>5
<1>6. CASE Agent
  <2>1. CASE Dial
    <3>0. dialed + 1 \in Conns
      BY <2>1, ConnsAssumption DEF Dial, Conns
    <3>1. /\ open' = {dialed + 1} /\ UNCHANGED <<talk, inbox>>
          /\ \A c \in Conns : talk[c] = "none"
      BY <2>1 DEF Dial, HandlersDone
    <3>2. inbox'[dialed + 1] = <<>>
      BY <3>0, <3>1 DEF OneReply
    <3>3. <<>> # <<AuthSuccess>>
      OBVIOUS
    <3> QED
      BY <1>2, <3>0, <3>1, <3>2, <3>3
  <2>2. CASE ~Dial
    BY <1>5, <1>6, <2>2 DEF Agent, Disconnect, ReceiveError, ReceiveAuthSuccess,
                            ReceiveRegisterSuccess, EphemeralExpires
  <2> QED
    BY <2>1, <2>2
<1>7. ASSUME NEW c \in Conns, Register(c) PROVE AcceptedIsRegistered'
  <2>1. /\ open' = open /\ UNCHANGED <<alarmSet, faults>>
        /\ UNCHANGED <<isRegistered, agentIdKept>> \/ (isRegistered' /\ agentIdKept')
        /\ \A d \in open : /\ talk'[d] \in AcceptedPhases => talk[d] \in AcceptedPhases
                           /\ talk[d] = "authRecipients" => talk'[d] = "authRecipients"
    <3>1. /\ open' = open /\ UNCHANGED <<alarmSet, faults>>
          /\ UNCHANGED <<isRegistered, agentIdKept>> \/ (isRegistered' /\ agentIdKept')
      BY <1>7 DEF Register, DeliverRegister, RegisterLookup, RegisterReject, RegisterUpdate,
                  RegisterInsert, RegisterDone
    <3>2. talk' = talk \/ \E to \in {"none"} \cup RegisterPhases : talk' = [talk EXCEPT ![c] = to]
      BY <1>7 DEF Register, DeliverRegister, RegisterLookup, RegisterReject, RegisterUpdate,
                  RegisterInsert, RegisterDone, Resume, RegisterPhases
    <3>3. c \in open => talk[c] # "authRecipients" \/ talk' = talk
      BY <1>7 DEF Register, DeliverRegister, RegisterLookup, RegisterReject, RegisterUpdate,
                  RegisterInsert, RegisterDone, Resume, FirstMessage
    <3> QED
      BY <3>1, <3>2, <3>3 DEF RegisterPhases
  <2> QED
    BY <1>4, <2>1
<1>8. ASSUME NEW c \in Conns, Auth(c) PROVE AcceptedIsRegistered'
  <2>1. CASE DeliverAuth(c)
    <3>1. /\ open' = open /\ UNCHANGED <<doVars, faults>>
          /\ talk[c] = "none" /\ talk' = [talk EXCEPT ![c] = "authSelect"]
      BY <2>1 DEF DeliverAuth, FirstMessage
    <3> QED
      BY <1>4, <3>1
  <2>2. CASE AuthAccept(c)
    <3>1. /\ open' = open /\ isRegistered' /\ ~alarmSet'
          /\ talk'[c] # "authRecipients" => agentIdKept'
          /\ \A d \in Conns : d # c => d \notin open
      BY <2>2 DEF AuthAccept, Resume, OneInUse, InUse
    <3> QED
      BY <1>2, <3>1
  <2>3. CASE AuthRecovered(c)
    <3>1. /\ open' = open /\ agentIdKept' /\ UNCHANGED <<isRegistered, alarmSet, faults, inbox>>
          /\ talk[c] = "authRecipients" /\ talk'[c] = "authUpdate"
          /\ \A d \in Conns : d # c => d \notin open
      BY <2>3 DEF AuthRecovered, Resume, OneInUse, InUse
    <3>2. \A d \in open' : d = c
      BY <3>1
    <3>3. c \in open => Known(c)
      BY <1>0, <3>1
    <3> QED
      BY <1>2, <3>1, <3>2, <3>3
  <2>4. CASE AuthLookup(c) \/ AuthReject(c) \/ AuthUpdate(c) \/ AuthDone(c)
    BY <1>4, <2>4 DEF AuthLookup, AuthReject, AuthUpdate, AuthDone, Resume
  <2> QED
    BY <1>8, <2>1, <2>2, <2>3, <2>4 DEF Auth
<1>9. ASSUME NEW c \in Conns, Close(c) PROVE AcceptedIsRegistered'
  <2>1. CASE CloseEvent(c)
    <3>1. open' = open \ {c} /\ InUse(c)
      BY <2>1 DEF CloseEvent, InUse
    <3>2. open' = {}
      BY <3>1 DEF OneInUse, InUse
    <3> QED
      BY <1>2, <3>2
  <2>2. CASE CloseWrite(c)
    BY <1>5, <2>2 DEF CloseWrite
  <2>3. CASE CloseDone(c)
    <3>1. open' = open /\ shut[c] # "none"
      BY <2>3 DEF CloseDone
    <3>2. open = {}
      BY <3>1 DEF OneInUse, InUse, LatestInUse
    <3> QED
      BY <1>2, <3>1, <3>2
  <2> QED
    BY <1>9, <2>1, <2>2, <2>3 DEF Close
<1>10. CASE Alarm
  BY <1>4, <1>10 DEF Alarm, AlarmFires, AlarmLookup, AlarmSkip, AlarmMail, AlarmDone
<1>11. CASE Platform
  <2>1. CASE Hibernate
    BY <1>4, <2>1 DEF Hibernate, HandlersDone
  <2>2. CASE Restart
    <3>1. open' = {}
      BY <2>2 DEF Restart
    <3> QED
      BY <1>2, <3>1
  <2>3. CASE AlarmFails
    <3>1. faults' > 0 /\ UNCHANGED <<open, talk, isRegistered, agentIdKept>>
      BY <2>3 DEF AlarmFails
    <3> QED
      BY <1>4, <3>1
  <2>4. ASSUME NEW c \in Conns, TalkFails(c) PROVE AcceptedIsRegistered'
    <3>1. /\ open' = open /\ UNCHANGED doVars /\ faults' > 0
          /\ talk' = [talk EXCEPT ![c] = "none"] /\ Send(Error) /\ talk[c] # "none"
      BY <2>4 DEF TalkFails
    <3>2. inbox'[c] = <<>> \/ inbox'[c] = <<Error>>
      BY <3>1, AnswersAsker, RepliesTyped DEF InUse
    <3>3. inbox'[c] # <<AuthSuccess>>
      BY <3>2, RepliesDiffer
    <3>4. \A d \in Conns : d # c => d \notin open
      BY <3>1 DEF OneInUse, InUse
    <3>5. talk'[c] = "none"
      BY <3>1
    <3> QED
      BY <1>2, <3>1, <3>3, <3>4, <3>5
  <2>5. ASSUME NEW c \in Conns, CloseWriteFails(c) PROVE AcceptedIsRegistered'
    BY <1>4, <2>5 DEF CloseWriteFails
  <2> QED
    BY <1>11, <2>1, <2>2, <2>3, <2>4, <2>5 DEF Platform
<1>12. CASE Web
  <2>1. CASE RemovalDisconnect
    <3>1. open' = open \ {AgentWebSocket}
      BY <2>1 DEF RemovalDisconnect
    <3>2. ASSUME NEW c \in open PROVE c = AgentWebSocket
      <4>1. closing \subseteq Conns /\ c \in Conns
        BY <3>2 DEF TypeOK
      <4>2. open \cup closing = {c}
        BY <3>2, <4>1 DEF OneInUse, InUse
      <4>3. c <= c
        BY <4>1, ConnsAreNat
      <4>4. c = CHOOSE d \in {c} : \A e \in {c} : d <= e
        BY <4>3
      <4> QED
        BY <4>2, <4>4 DEF AgentWebSocket
    <3>3. open' = {}
      BY <3>1, <3>2
    <3> QED
      BY <1>2, <3>3
  <2>2. CASE RemovalDisconnectFails
    <3>1. faults' > 0 /\ UNCHANGED <<open, talk, isRegistered, agentIdKept>>
      BY <2>2 DEF RemovalDisconnectFails
    <3> QED
      BY <1>4, <3>1
  <2>3. CASE ~RemovalDisconnect /\ ~RemovalDisconnectFails
    BY <1>5, <1>12, <2>3 DEF Web, ListingRead, ListingWrite, RemovalRead, RemovalDelete
  <2> QED
    BY <2>1, <2>2, <2>3
<1>13. CASE UNCHANGED vars
  BY <1>5, <1>13 DEF vars
<1> QED
  BY <1>6, <1>7, <1>8, <1>9, <1>10, <1>11, <1>12, <1>13 DEF Next

LEMMA RefusedStep ==
  ASSUME ~Overlap, TypeOK, OneInUse, LatestInUse, OneReply, RegistersAnew, RefusedIsForeign,
         [Next]_vars
  PROVE  RefusedIsForeign'
<1>1. /\ talk \in [Conns -> TalkPhases] /\ open \subseteq Conns /\ faults \in Nat
      /\ dialed \in Nat
  BY ConnsAssumption DEF TypeOK
<1> USE <1>1, RepliesTyped, RepliesDiffer
<1> USE DEF agentVars, taskVars, sockVars, netVars, rowVars, histVars
\* A step that neither lets the agent go nor gives the row another agent's token.
<1>2. ASSUME UNCHANGED <<phase, token, dialed>>,
             faults' = faults \/ faults' > 0,
             \A c \in Conns : talk'[c] = "authReject" => talk[c] = "authReject",
             row = "none" => row' = "none",
             row' = "none" \/ rowToken' = rowToken
      PROVE  RefusedIsForeign'
  <2> SUFFICES ASSUME token # NoToken, Turned', ~(faults' > 0)
               PROVE  row' = "none" \/ rowToken' # token
    BY <1>2 DEF RefusedIsForeign
  <2>1. Turned
    BY <1>2, Answered DEF Turned
  <2> QED
    BY <1>2, <2>1 DEF RefusedIsForeign
<1>3. CASE Agent
  <2>1. CASE Dial
    <3>0. dialed + 1 \in Conns
      BY <2>1, ConnsAssumption DEF Dial, Conns
    <3>1. /\ phase' = "waiting" /\ dialed' = dialed + 1 /\ UNCHANGED <<talk, inbox>>
          /\ talk[dialed + 1] = "none"
      BY <2>1, <3>0 DEF Dial, HandlersDone
    <3>2. inbox[dialed + 1] = <<>>
      BY <3>0 DEF OneReply
    <3>3. <<>> # <<Error>>
      OBVIOUS
    <3>4. ~Turned'
      BY <3>1, <3>2, <3>3 DEF Turned
    <3> QED
      BY <3>4 DEF RefusedIsForeign
  <2>2. CASE ReceiveError
    <3>1. link \in Conns /\ link = dialed /\ inbox[link] = <<Error>>
      BY <2>2, ReadsTheReply DEF ReceiveError
    <3>2. Turned
      BY <3>1 DEF Turned
    <3> QED
      BY <2>2, <3>2 DEF ReceiveError, RefusedIsForeign
  <2>3. ASSUME NEW t \in Conns, ReceiveRegisterSuccess(t) PROVE RefusedIsForeign'
    <3>1. link \in Conns /\ link = dialed /\ inbox[link] = <<RegisterSuccess(t)>>
      BY <2>3, ReadsTheReply DEF ReceiveRegisterSuccess
    <3>2. \A r, q \in Replies : <<r>> = <<q>> => r = q
      OBVIOUS
    <3>3. inbox[link] # <<Error>> /\ inbox[link] # <<>>
      BY <3>1, <3>2
    <3>4. talk[link] = "none"
      BY <3>1, <3>3 DEF OneReply
    <3>5. ~Turned'
      BY <2>3, <3>1, <3>3, <3>4 DEF ReceiveRegisterSuccess, Turned
    <3> QED
      BY <3>5 DEF RefusedIsForeign
  <2>4. CASE Disconnect \/ ReceiveAuthSuccess
    BY <2>4 DEF Disconnect, ReceiveAuthSuccess, RefusedIsForeign, Turned
  <2>5. CASE EphemeralExpires
    BY <1>2, <2>5 DEF EphemeralExpires
  <2> QED
    BY <1>3, <2>1, <2>2, <2>3, <2>4, <2>5 DEF Agent
<1>4. ASSUME NEW c \in Conns, Register(c) PROVE RefusedIsForeign'
  <2>1. token' = token /\ token = NoToken
    BY <1>4 DEF Register, DeliverRegister, RegisterLookup, RegisterReject, RegisterUpdate,
                RegisterInsert, RegisterDone, Resume, RegistersAnew, RegisterPhases
  <2> QED
    BY <2>1 DEF RefusedIsForeign
<1>5. ASSUME NEW c \in Conns, Auth(c) PROVE RefusedIsForeign'
  <2>1. CASE AuthLookup(c)
    <3>1. CASE talk'[c] = "authReject"
      BY <2>1, <3>1 DEF AuthLookup, Resume, RefusedIsForeign
    <3>2. CASE talk'[c] # "authReject"
      BY <1>2, <2>1, <3>2 DEF AuthLookup, Resume
    <3> QED
      BY <3>1, <3>2
  <2>2. CASE ~AuthLookup(c)
    BY <1>2, <1>5, <2>2 DEF Auth, DeliverAuth, AuthReject, AuthAccept, AuthRecovered, AuthUpdate,
                            AuthDone, Resume, mailVars
  <2> QED
    BY <2>1, <2>2
<1>6. ASSUME NEW c \in Conns, Close(c) PROVE RefusedIsForeign'
  BY <1>2, <1>6 DEF Close, CloseEvent, CloseWrite, CloseDone, mailVars
<1>7. CASE Alarm
  BY <1>2, <1>7 DEF Alarm, AlarmFires, AlarmLookup, AlarmSkip, AlarmMail, AlarmDone, mailVars
<1>8. CASE Platform
  BY <1>2, <1>8 DEF Platform, Hibernate, Restart, AlarmFails, TalkFails, CloseWriteFails
<1>9. CASE Web
  BY <1>2, <1>9 DEF Web, ListingRead, ListingWrite, RemovalRead, RemovalDisconnect, RemovalDisconnectFails, RemovalDelete
<1>10. CASE UNCHANGED vars
  BY <1>2, <1>10 DEF vars
<1> QED
  BY <1>3, <1>4, <1>5, <1>6, <1>7, <1>8, <1>9, <1>10 DEF Next

LEMMA FaultsBounded == Spec => [](faults <= MaxFaults)
<1>1. Init => faults <= MaxFaults
  BY FaultsAssumption DEF Init
<1>2. TypeOK /\ faults <= MaxFaults /\ [Next]_vars => (faults <= MaxFaults)'
  <2> SUFFICES ASSUME TypeOK, faults <= MaxFaults, [Next]_vars PROVE faults' <= MaxFaults
    OBVIOUS
  <2>1. faults' = faults \/ (faults < MaxFaults /\ faults' = faults + 1)
    <3> USE DEF histVars, mailVars
    <3>1. ASSUME NEW c \in Conns, Register(c) \/ Auth(c) \/ Close(c) PROVE faults' = faults
      BY <3>1 DEF Register, DeliverRegister, RegisterLookup, RegisterReject, RegisterUpdate,
         RegisterInsert, RegisterDone, Auth, DeliverAuth, AuthLookup, AuthReject, AuthAccept,
         AuthRecovered, AuthUpdate, AuthDone, Close, CloseEvent, CloseWrite, CloseDone
    <3>2. CASE Platform
      BY <3>2 DEF Platform, Hibernate, Restart, AlarmFails, TalkFails, CloseWriteFails
    <3>3. CASE RemovalDisconnectFails
      BY <3>3 DEF RemovalDisconnectFails
    <3>4. ASSUME Agent \/ Alarm \/ (Web /\ ~RemovalDisconnectFails) \/ UNCHANGED vars
          PROVE faults' = faults
      BY <3>4 DEF Agent, Dial, Disconnect, ReceiveError, ReceiveAuthSuccess, ReceiveRegisterSuccess,
         EphemeralExpires, Alarm, AlarmFires, AlarmLookup, AlarmSkip, AlarmMail, AlarmDone, Web,
         ListingRead, ListingWrite, RemovalRead, RemovalDisconnect, RemovalDelete, vars
    <3> QED
      BY <3>1, <3>2, <3>3, <3>4 DEF Next
  <2> QED
    BY <2>1, FaultsAssumption DEF TypeOK
<1> QED
  BY <1>1, <1>2, TypeCorrect, PTL DEF Spec

LEMMA SerialInvariant == ASSUME ~Overlap PROVE Spec => []SerialInv
<1>1. Init => SerialInv
  <2> SUFFICES ASSUME Init PROVE SerialInv
    OBVIOUS
  <2>1. Len(<<>>) = 0 /\ \A m \in Replies : <<m>> # <<>>
    OBVIOUS
  <2>2. 0 <= 1
    OBVIOUS
  <2>3. LatestInUse /\ RegistersAnew /\ UpOnReply /\ AcceptedIsRegistered
    BY DEF Init, LatestInUse, InUse, RegistersAnew, UpOnReply, AcceptedIsRegistered, RegisterPhases
  <2>4. OneReply
    BY <2>1, <2>2, RepliesTyped DEF Init, OneReply
  <2>5. ~Turned
    BY <2>1, RepliesTyped DEF Init, Turned
  <2> QED
    BY <2>3, <2>4, <2>5 DEF SerialInv, RefusedIsForeign
<1>2. TypeOK /\ FirstMessage /\ OneInUse /\ SerialInv /\ [Next]_vars => SerialInv'
  BY LatestStep, OneReplyStep, RegistersAnewStep, UpOnReplyStep, AcceptedStep, RefusedStep
  DEF SerialInv
<1> QED
  BY <1>1, <1>2, TypeCorrect, FirstMessageInvariant, OneInUseInvariant, PTL DEF Spec

\* handleAgentAuth, handleAgentClose: whatever closes, hibernates and rings in
\* between, an agent that has read that it is authenticated on a socket that is
\* still open is registered, with no alarm pending.  A failed statement of alarm()
\* arms the alarm again, so none may fail.
THEOREM ReconnectCompletes ==
  ASSUME ~Overlap, MaxFaults = 0 PROVE Spec => []ReconnectIsComplete
<1>1. TypeOK /\ SerialInv /\ faults <= MaxFaults => ReconnectIsComplete
  <2> SUFFICES ASSUME TypeOK, SerialInv, faults <= 0, Quiet, phase = "up", link \in open, token # link
               PROVE  isRegistered /\ ~alarmSet
    BY DEF ReconnectIsComplete
  <2>1. inbox[link] = <<AuthSuccess>>
    BY DEF SerialInv, UpOnReply
  <2> QED
    BY <2>1 DEF SerialInv, AcceptedIsRegistered, TypeOK
<1> QED
  BY <1>1, FaultsBounded, SerialInvariant, TypeCorrect, PTL

\* ErrAuthFailure: an agent exits for good only when its row is gone or holds
\* another token, although the DO answers on the oldest socket it has.
THEOREM TokensAreHonoured ==
  ASSUME ~Overlap, MaxFaults = 0 PROVE Spec => []TokenHonoured
<1>1. TypeOK /\ SerialInv /\ faults <= MaxFaults => TokenHonoured
  BY DEF TypeOK, SerialInv, RefusedIsForeign, Turned, TokenHonoured
<1> QED
  BY <1>1, FaultsBounded, SerialInvariant, TypeCorrect, PTL
=============================================================================
