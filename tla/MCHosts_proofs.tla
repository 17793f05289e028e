--------------------------- MODULE MCHosts_proofs ---------------------------
(***************************************************************************)
(* What holds of the parts of MCHosts for all their constants: the e-mails *)
(* of OutageAlerts and the figures of PlayerFigures, each at the end of    *)
(* the argument about its own module, and both of the composition.         *)
(***************************************************************************)
EXTENDS MCHosts, Backups_proofs, DataMoves_proofs, FiniteSetTheorems, TLAPS

-----------------------------------------------------------------------------
(* The alerts.  A mail's outage and process are in the ledger of alerts if *)
(* it is an alert; and the ledger has the outage and the process there are *)
(* just when the loop remembers to have raised the alarm, or is online     *)
(* and has said that the outage is over.                                   *)

\* Failures are counted from the first in a row, which is in the outage there is.
Timed ==
  /\ retrying => at # "online" /\ failing <= down
  /\ at = "online" => ~alertSent

Remembered ==
  /\ \A a \in alerted : a[1] <= outage /\ a[2] <= process
  /\ <<outage, process>> \in alerted => alertSent \/ at = "online"
  /\ alertSent => <<outage, process>> \in alerted

IsAlert(m) == m.kind = "alert"
About(m) == <<m.outage, m.process>>

Written ==
  /\ IsFiniteSet(mails) /\ IsFiniteSet(mailers)
  /\ \A m \in mails \cup mailers : IsAlert(m) => m.down = Delay /\ About(m) \in alerted
  /\ \A m, n \in mailers : IsAlert(m) /\ IsAlert(n) /\ About(m) = About(n) => m = n
  /\ \A m, n \in mails : IsAlert(m) /\ IsAlert(n) /\ About(m) = About(n) => m = n
  /\ \A m \in mails, n \in mailers : IsAlert(m) /\ IsAlert(n) => About(m) # About(n)

AlertsInv ==
  AlertsTypeOK /\ Timed /\ Remembered /\ Written /\ AlertsAnswered /\ RecipientsKept

\* A mailer has the type of a mail, and is about the outage there is.
LEMMA MailerTyped ==
  ASSUME AlertsAssumption, AlertsTypeOK, Written, NEW kind \in {"alert", "recovery"}
  PROVE  /\ Mailer(kind) \in Mails
         /\ Mailer(kind).kind = kind /\ About(Mailer(kind)) = <<outage, process>>
         /\ Mailer(kind).outage = outage /\ Mailer(kind).process = process
         /\ Mailer(kind).down = down
<1>1. IsFiniteSet(mails \cup mailers)
  BY FS_Union DEF Written
<1>2. Cardinality(mails \cup mailers) \in Nat
  BY <1>1, FS_CardinalityType
<1> QED BY <1>2 DEF AlertsAssumption, AlertsTypeOK, Mailer, Mails, About

LEMMA AlertsStart ==
  ASSUME AlertsAssumption, AlertsInit
  PROVE  AlertsInv
<1>1. AlertsTypeOK
  <2>1. /\ at \in {"dialling", "asking", "online", "exited"}
        /\ retrying \in BOOLEAN /\ alertSent \in BOOLEAN /\ token \in BOOLEAN /\ unsaved \in BOOLEAN
    BY DEF AlertsInit
  <2>2. failing \in 0 .. Delay /\ outage \in 1 .. Outages /\ down \in 0 .. Delay /\ process \in 1 .. Processes
    BY DEF AlertsAssumption, AlertsInit
  <2>3. {alertConfig, disk, recipients, named} \subseteq 0 .. Lists
    BY DEF AlertsAssumption, AlertsInit
  <2>4. mailers \subseteq Mails /\ mails \subseteq Mails /\ alerted \subseteq (1 .. Outages) \X (1 .. Processes)
    BY DEF AlertsInit
  <2> QED BY <2>1, <2>2, <2>3, <2>4 DEF AlertsTypeOK
<1>2. Written
  BY FS_EmptySet DEF AlertsInit, Written
<1> QED BY <1>1, <1>2 DEF AlertsInv, AlertsInit, Timed, Remembered, AlertsAnswered, RecipientsKept

\* The steps that send nothing and remember nothing.
LEMMA QuietSteps ==
  ASSUME AlertsAssumption, AlertsInv, Connect \/ Reject \/ Tick \/ SetRecipients \/ Disconnect
  PROVE  AlertsInv'
<1>1. CASE Connect \/ Reject
  BY <1>1 DEF AlertsInv, AlertsTypeOK, Timed, Remembered, Written, AlertsAnswered, RecipientsKept, Over,
     Connect, Reject, pastVars, listVars
<1>2. CASE Tick
  BY <1>2 DEF AlertsAssumption, AlertsInv, AlertsTypeOK, Timed, Remembered, Written, AlertsAnswered,
     RecipientsKept, Over, Tick, listVars
<1>3. CASE SetRecipients
  BY <1>3 DEF AlertsInv, AlertsTypeOK, Timed, Remembered, Written, AlertsAnswered, RecipientsKept, Over,
     SetRecipients, loopVars, pastVars, listVars
<1>4. CASE Disconnect
  <2>1. AlertsTypeOK' /\ Timed' /\ Written' /\ RecipientsKept'
    BY <1>4 DEF AlertsAssumption, AlertsInv, AlertsTypeOK, Timed, Written, RecipientsKept, Disconnect,
       NextOutage, listVars
  <2>2. Remembered'
    BY <1>4 DEF AlertsInv, AlertsTypeOK, Timed, Remembered, Disconnect, NextOutage
  <2>3. AlertsAnswered'
    BY <1>4 DEF AlertsInv, AlertsTypeOK, Remembered, AlertsAnswered, Over, Disconnect, NextOutage
  <2> QED BY <2>1, <2>2, <2>3 DEF AlertsInv
<1> QED BY <1>1, <1>2, <1>3, <1>4

\* A failure begins an alert when the first one in a row is as old as the delay: none was
\* begun for this outage before, and it has lasted as long.
LEMMA FailTransientKeeps ==
  ASSUME AlertsAssumption, AlertsInv, FailTransient
  PROVE  AlertsInv'
<1> DEFINE due == ~alertSent /\ failing' >= Delay
           m == Mailer("alert")
<1> USE DEF AlertsInv
<1>1. /\ at = "asking" /\ at' = "dialling" /\ retrying' /\ failing' <= down
      /\ failing' \in 0 .. Delay
      /\ alertSent' = (alertSent \/ due)
      /\ mailers' = (IF due THEN mailers \cup {m} ELSE mailers)
      /\ alerted' = (IF due THEN alerted \cup {<<outage, process>>} ELSE alerted)
      /\ UNCHANGED <<token, outage, down, process, alertConfig, disk, named, unsaved, recipients, mails>>
  BY DEF AlertsAssumption, AlertsTypeOK, Timed, FailTransient, listVars
<1>2. m \in Mails /\ m.kind = "alert" /\ About(m) = <<outage, process>> /\ m.down = down
  BY MailerTyped
<1> HIDE DEF m
<1>3. AlertsTypeOK'
  BY <1>1, <1>2 DEF AlertsTypeOK
<1>4. Timed' /\ RecipientsKept'
  BY <1>1 DEF Timed, RecipientsKept
<1>5. Remembered'
  <2>1. CASE due
    <3>1. outage \in Nat /\ process \in Nat
      BY DEF AlertsAssumption, AlertsTypeOK
    <3>2. alertSent' /\ alerted' = alerted \cup {<<outage, process>>}
      BY <2>1, <1>1
    <3> QED BY <3>1, <3>2, <1>1 DEF Remembered
  <2>2. CASE ~due
    <3>1. alertSent' = alertSent /\ alerted' = alerted
      BY <2>2, <1>1 DEF AlertsTypeOK
    <3> QED BY <3>1, <1>1 DEF Remembered
  <2> QED BY <2>1, <2>2
<1>6. due => down = Delay /\ <<outage, process>> \notin alerted
  BY <1>1 DEF AlertsAssumption, AlertsTypeOK, Remembered
<1>7. Written'
  <2>1. CASE ~due
    BY <2>1, <1>1 DEF Written
  <2>2. CASE due
    <3>1. IsFiniteSet(mailers')
      BY <2>2, <1>1, FS_AddElement DEF Written
    <3>2. \A n \in mails \cup mailers : IsAlert(n) => About(n) # About(m)
      BY <2>2, <1>2, <1>6 DEF Written
    <3> QED BY <3>1, <3>2, <2>2, <1>1, <1>2, <1>6 DEF Written
  <2> QED BY <2>1, <2>2
<1>8. AlertsAnswered'
  BY <1>1, <1>2 DEF AlertsAnswered, Over, AlertsTypeOK
<1> QED BY <1>3, <1>4, <1>5, <1>7, <1>8

\* Back online, the loop says so if it remembers an alert: there was one, about this outage.
LEMMA OnlineKeeps ==
  ASSUME AlertsAssumption, AlertsInv, Authenticate \/ Register
  PROVE  AlertsInv'
<1> DEFINE m == Mailer("recovery")
<1> USE DEF AlertsInv
<1>1. /\ at = "asking" /\ at' = "online" /\ retrying' = FALSE /\ alertSent' = FALSE
      /\ mailers' = (IF alertSent THEN mailers \cup {m} ELSE mailers)
      /\ UNCHANGED <<failing, outage, down, process, alerted, recipients, mails>>
      /\ token' = TRUE
  BY DEF Authenticate, Register, Online, pastVars
<1>2. /\ m \in Mails /\ m.kind = "recovery" /\ About(m) = <<outage, process>>
      /\ m.outage = outage /\ m.process = process
  BY MailerTyped
<1> HIDE DEF m
<1>3. {alertConfig', disk', named'} \subseteq 0 .. Lists /\ unsaved' \in BOOLEAN /\ RecipientsKept'
  <2>1. CASE UNCHANGED listVars
    BY <2>1 DEF AlertsTypeOK, RecipientsKept, listVars
  <2>2. CASE Cache /\ recipients # 0
    <3>1. alertConfig' = recipients /\ named' = recipients /\ disk' \in {recipients, disk, 0}
      BY <2>2 DEF Cache
    <3>2. {alertConfig', disk', named'} \subseteq 0 .. Lists
      BY <3>1 DEF AlertsAssumption, AlertsTypeOK
    <3>3. \/ disk' = recipients /\ unsaved' = FALSE
          \/ unsaved' = TRUE
      BY <2>2 DEF Cache
    <3>4. RecipientsKept'
      BY <3>1, <3>3 DEF RecipientsKept
    <3> QED BY <3>2, <3>3, <3>4
  <2> QED BY <2>1, <2>2 DEF Authenticate, Register, Cache
<1>4. AlertsTypeOK'
  BY <1>1, <1>2, <1>3 DEF AlertsTypeOK
<1>5. Timed' /\ Remembered'
  BY <1>1 DEF Timed, Remembered
<1>6. Written'
  <2>1. IsFiniteSet(mailers')
    BY <1>1, FS_AddElement DEF Written
  <2> QED BY <1>1, <1>2, <2>1 DEF Written, IsAlert
<1>7. AlertsAnswered'
  <2>1. \A n \in (mails \cup mailers)' :
          n.kind = "recovery" => Over(n.outage)' /\ <<n.outage, n.process>> \in alerted'
    BY <1>1, <1>2 DEF AlertsAnswered, Remembered, Over
  <2>2. ASSUME NEW a \in alerted', a[2] = process', Over(a[1])'
        PROVE  \E n \in (mails \cup mailers)' :
                 n.kind = "recovery" /\ n.outage = a[1] /\ n.process = process'
    <3>1. CASE a[1] < outage
      BY <2>2, <3>1, <1>1 DEF AlertsAnswered, Over
    <3>2. CASE a[1] = outage
      <4>1. a = <<outage, process>> /\ alertSent
        BY <2>2, <3>2, <1>1 DEF AlertsTypeOK, Remembered
      <4> QED BY <4>1, <1>1, <1>2, <3>2
    <3> QED BY <2>2, <3>1, <3>2, <1>1 DEF Remembered, AlertsTypeOK
  <2> QED BY <2>1, <2>2 DEF AlertsAnswered
<1> QED BY <1>3, <1>4, <1>5, <1>6, <1>7

\* A new process has raised no alarm, and begins with the recipients on disk.
LEMMA RestartKeeps ==
  ASSUME AlertsAssumption, AlertsInv, Restart
  PROVE  AlertsInv'
<1> USE DEF AlertsInv
<1>1. Timed' /\ RecipientsKept'
  BY DEF Timed, RecipientsKept, Restart
<1>5. AlertsTypeOK'
  <2>1. outage' \in 1 .. Outages /\ down' \in 0 .. Delay /\ process' \in 1 .. Processes /\ failing' \in 0 .. Delay
    BY DEF AlertsAssumption, AlertsTypeOK, Restart, NextOutage
  <2> QED BY <2>1 DEF AlertsTypeOK, Restart
<1>2. Remembered'
  BY DEF AlertsTypeOK, Remembered, Restart, NextOutage
<1>3. Written'
  BY FS_EmptySet DEF Written, Restart
<1>4. AlertsAnswered'
  BY DEF AlertsTypeOK, Remembered, AlertsAnswered, Over, Restart, NextOutage
<1> QED BY <1>1, <1>2, <1>3, <1>4, <1>5

\* A mailer becomes a mail about the same.
LEMMA SendEmailKeeps ==
  ASSUME AlertsAssumption, AlertsInv, SendEmail
  PROVE  AlertsInv'
<1> USE DEF AlertsInv
<1>1. PICK m \in mailers :
        /\ mailers' = mailers \ {m}
        /\ mails' = mails \cup {[m EXCEPT !.to = alertConfig]}
        /\ UNCHANGED <<loopVars, pastVars, listVars, recipients>>
  BY DEF SendEmail
<1> DEFINE sent == [m EXCEPT !.to = alertConfig]
<1>2. /\ sent \in Mails /\ sent.kind = m.kind /\ About(sent) = About(m) /\ sent.down = m.down
      /\ sent.outage = m.outage /\ sent.process = m.process
  BY DEF AlertsTypeOK, Mails, About
<1>3. mails' = mails \cup {sent}
  BY <1>1
<1> HIDE DEF sent
<1>4. AlertsTypeOK' /\ Timed' /\ Remembered' /\ RecipientsKept'
  BY <1>1, <1>2, <1>3 DEF AlertsTypeOK, Timed, Remembered, RecipientsKept, loopVars, pastVars, listVars
<1>5. Written'
  <2>1. IsFiniteSet(mails') /\ IsFiniteSet(mailers')
    BY <1>1, <1>3, FS_AddElement, FS_RemoveElement DEF Written
  <2>2. IsAlert(m) =>
          /\ \A n \in mails : IsAlert(n) => About(n) # About(sent)
          /\ \A n \in mailers' : IsAlert(n) => About(n) # About(sent)
    BY <1>1, <1>2 DEF Written
  <2>3. \A x \in (mails \cup mailers)' : IsAlert(x) => x.down = Delay /\ About(x) \in alerted'
    BY <1>1, <1>2, <1>3 DEF Written, IsAlert, pastVars
  <2> QED BY <2>1, <2>2, <2>3, <1>1, <1>2, <1>3 DEF Written, IsAlert
<1>6. AlertsAnswered'
  <2>1. \A n \in (mails \cup mailers)' :
          n.kind = "recovery" => Over(n.outage)' /\ <<n.outage, n.process>> \in alerted'
    BY <1>1, <1>2, <1>3 DEF AlertsAnswered, Over, loopVars, pastVars
  <2>2. ASSUME NEW a \in alerted', a[2] = process', Over(a[1])'
        PROVE  \E n \in (mails \cup mailers)' :
                 n.kind = "recovery" /\ n.outage = a[1] /\ n.process = process'
    <3>1. PICK n \in mails \cup mailers :
            n.kind = "recovery" /\ n.outage = a[1] /\ n.process = process
      BY <2>2, <1>1 DEF AlertsAnswered, Over, loopVars, pastVars
    <3> QED BY <3>1, <1>1, <1>2, <1>3 DEF pastVars
  <2> QED BY <2>1, <2>2 DEF AlertsAnswered
<1> QED BY <1>4, <1>5, <1>6

LEMMA AlertsStep ==
  ASSUME AlertsAssumption, AlertsInv, [AlertsNext]_alertVars
  PROVE  AlertsInv'
<1>1. CASE UNCHANGED alertVars
  BY <1>1 DEF AlertsInv, AlertsTypeOK, Timed, Remembered, Written, AlertsAnswered, RecipientsKept, Over,
     alertVars, loopVars, pastVars, listVars
<1>2. CASE AlertsNext
  BY <1>2, QuietSteps, FailTransientKeeps, OnlineKeeps, RestartKeeps, SendEmailKeeps DEF AlertsNext
<1> QED BY <1>1, <1>2

LEMMA AlertsSafe ==
  ASSUME AlertsInv
  PROVE  AlertsEarned /\ AlertsAnswered /\ RecipientsKept
BY DEF AlertsInv, Written, AlertsEarned, IsAlert, About

-----------------------------------------------------------------------------
(* The figures.  Runs are numbered upwards, so that a poll that ends with  *)
(* the run it found has asked that run and no other; and a connection that *)
(* has outlived one such poll is to the run there is.                      *)

RunsUpwards == \A s \in Servers : runs[s] \in {0, lastRun[s]}

\* Where the poll under way stands, and the runs its answers may be of.
PollWell ==
  /\ DOMAIN allStats = DOMAIN found \ todo /\ todo \subseteq DOMAIN found
  /\ stage = "idle" => DOMAIN found = {}
  /\ stage = "updating" => todo = {}
  /\ \A s \in DOMAIN found : found[s] <= lastRun[s]
  /\ \A s \in DOMAIN allStats : allStats[s] = 0 \/ (found[s] <= allStats[s] /\ allStats[s] <= lastRun[s])

ConnectionsKnown ==
  \A s \in DOMAIN connections :
    /\ connections[s] <= lastRun[s]
    /\ s \in DOMAIN allStats => found[s] <= connections[s]

\* What holds of a server whose run a poll has seen to its end, from then on.
Seen(s) ==
  /\ runs[s] # 0
  /\ s \in DOMAIN found => found[s] = runs[s]
  /\ polled[s] = 2 /\ stage # "idle" => s \in DOMAIN found
  /\ s \in DOMAIN connections => connections[s] = runs[s]
  /\ s \in DOMAIN allStats /\ s \notin spoilt => allStats[s] = runs[s]
  /\ s \in DOMAIN stats => stats[s] \in {0, runs[s]}
  /\ polled[s] = 2 => s \in DOMAIN stats /\ stats[s] = runs[s]

FiguresInv ==
  /\ FiguresTypeOK /\ RunsUpwards /\ PollWell /\ ConnectionsKnown /\ PointsCurrent
  /\ \A s \in Servers : polled[s] > 0 => Seen(s)

\* A figure, or a connection, of some servers.
LEMMA PartialIs ==
  ASSUME NEW f, NEW S
  PROVE  f \in Partial(S) <=>
           f = [s \in DOMAIN f |-> f[s]] /\ DOMAIN f \subseteq Servers /\ \A s \in DOMAIN f : f[s] \in S
BY DEF Partial

LEMMA JoinedIs ==
  ASSUME NEW S, NEW f \in Partial(S), NEW g \in Partial(S)
  PROVE  /\ Joined(f, g) \in Partial(S) /\ DOMAIN Joined(f, g) = DOMAIN f \cup DOMAIN g
         /\ \A s \in DOMAIN f \cup DOMAIN g : Joined(f, g)[s] = IF s \in DOMAIN f THEN f[s] ELSE g[s]
<1>1. /\ DOMAIN Joined(f, g) = DOMAIN f \cup DOMAIN g
      /\ \A s \in DOMAIN f \cup DOMAIN g : Joined(f, g)[s] = IF s \in DOMAIN f THEN f[s] ELSE g[s]
      /\ Joined(f, g) = [s \in DOMAIN Joined(f, g) |-> Joined(f, g)[s]]
  BY DEF Joined
<1> QED BY <1>1, PartialIs

LEMMA WithIs ==
  ASSUME NEW S, NEW f \in Partial(S), NEW s \in Servers, NEW value \in S
  PROVE  /\ With(f, s, value) \in Partial(S) /\ DOMAIN With(f, s, value) = DOMAIN f \cup {s}
         /\ With(f, s, value)[s] = value
         /\ \A t \in DOMAIN f \ {s} : With(f, s, value)[t] = f[t]
<1> DEFINE one == [t \in {s} |-> value]
<1>1. one \in Partial(S) /\ DOMAIN one = {s} /\ one[s] = value
  BY PartialIs
<1> QED BY <1>1, JoinedIs DEF With

LEMMA RestrictedIs ==
  ASSUME NEW S, NEW f \in Partial(S), NEW D \in SUBSET DOMAIN f
  PROVE  /\ Restrict(f, D) \in Partial(S) /\ DOMAIN Restrict(f, D) = D
         /\ \A s \in D : Restrict(f, D)[s] = f[s]
<1>1. /\ DOMAIN Restrict(f, D) = D /\ \A s \in D : Restrict(f, D)[s] = f[s]
      /\ Restrict(f, D) = [s \in DOMAIN Restrict(f, D) |-> Restrict(f, D)[s]]
  BY DEF Restrict
<1> QED BY <1>1, PartialIs

LEMMA NoneIs == DOMAIN None = {} /\ \A S : None \in Partial(S)
<1>1. DOMAIN None = {} /\ None = [s \in DOMAIN None |-> None[s]]
  BY DEF None
<1> QED BY <1>1, PartialIs

LEMMA FiguresStart ==
  ASSUME FiguresAssumption, FiguresInit
  PROVE  FiguresInv
<1>1. FiguresTypeOK
  <2>1. runs \in [Servers -> 0 .. Runs] /\ lastRun \in [Servers -> 0 .. Runs] /\ polled \in [Servers -> 0 .. 2]
    BY DEF FiguresAssumption, FiguresInit
  <2>2. {connections, found} \subseteq Partial(1 .. Runs) /\ {stats, allStats, playerStats} \subseteq Partial(0 .. Runs)
    BY NoneIs DEF FiguresInit
  <2>3. breaks \in 0 .. Breaks /\ faults \in 0 .. PollFaults
    BY DEF FiguresAssumption, FiguresInit
  <2> QED BY <2>1, <2>2, <2>3 DEF FiguresTypeOK, FiguresInit
<1>2. RunsUpwards /\ PollWell /\ ConnectionsKnown /\ PointsCurrent
  BY NoneIs DEF FiguresInit, RunsUpwards, PollWell, ConnectionsKnown, PointsCurrent
<1>3. \A s \in Servers : polled[s] = 0
  BY DEF FiguresInit
<1> QED BY <1>1, <1>2, <1>3 DEF FiguresInv

\* A run begins after all others, a run that ends is not counted on; the connection to the
\* manager is of no consequence to the figures, and neither are the points of the charts.
LEMMA RunsKeep ==
  ASSUME FiguresAssumption, FiguresInv, NEW s \in Servers, Start(s) \/ Stop(s)
  PROVE  FiguresInv'
<1> USE DEF FiguresInv
<1>1. /\ UNCHANGED <<link, connections, stats, pollVars, playerStats, point, spoilt, boundVars>>
      /\ \A t \in Servers \ {s} : runs'[t] = runs[t] /\ lastRun'[t] = lastRun[t] /\ polled'[t] = polled[t]
      /\ runs' \in [Servers -> 0 .. Runs] /\ lastRun' \in [Servers -> 0 .. Runs]
      /\ polled' \in [Servers -> 0 .. 2]
      /\ polled'[s] = 0 /\ runs'[s] \in {0, lastRun'[s]} /\ lastRun[s] <= lastRun'[s]
  <2>1. CASE Start(s)
    <3>1. polled[s] = 0
      BY <2>1 DEF Start, Seen, FiguresTypeOK
    <3> QED BY <2>1, <3>1 DEF FiguresAssumption, Start, FiguresTypeOK, RunsUpwards
  <2>2. CASE Stop(s)
    BY <2>2 DEF FiguresAssumption, Stop, FiguresTypeOK, RunsUpwards, boundVars
  <2> QED BY <2>1, <2>2
<1>2. FiguresTypeOK'
  BY <1>1 DEF FiguresTypeOK, pollVars, boundVars
<1>3. RunsUpwards'
  BY <1>1 DEF RunsUpwards
<1>4. \A t \in Servers : lastRun[t] <= lastRun'[t] /\ lastRun[t] \in Nat /\ lastRun'[t] \in Nat
  BY <1>1 DEF FiguresTypeOK, FiguresAssumption
<1>5. /\ DOMAIN found \subseteq Servers /\ \A t \in DOMAIN found : found[t] \in Nat
      /\ DOMAIN allStats \subseteq Servers /\ \A t \in DOMAIN allStats : allStats[t] \in Nat
      /\ DOMAIN connections \subseteq Servers /\ \A t \in DOMAIN connections : connections[t] \in Nat
  BY PartialIs DEF FiguresTypeOK, FiguresAssumption
<1>6. PollWell'
  <2>1. UNCHANGED <<found, todo, allStats, stage>>
    BY <1>1 DEF pollVars
  <2>2. \A t \in DOMAIN found : found[t] <= lastRun'[t]
    BY <1>4, <1>5 DEF PollWell
  <2>3. \A t \in DOMAIN allStats : allStats[t] = 0 \/ (found[t] <= allStats[t] /\ allStats[t] <= lastRun'[t])
    BY <1>4, <1>5 DEF PollWell
  <2> QED BY <2>1, <2>2, <2>3 DEF PollWell
<1>7. ConnectionsKnown'
  BY <1>1, <1>4, <1>5 DEF ConnectionsKnown, pollVars
<1>8. PointsCurrent'
  BY <1>1 DEF PointsCurrent
<1>9. ASSUME NEW t \in Servers, polled'[t] > 0 PROVE Seen(t)'
  BY <1>1, <1>9 DEF Seen, pollVars
<1> QED BY <1>2, <1>3, <1>6, <1>7, <1>8, <1>9

LEMMA LinkKeeps ==
  ASSUME FiguresAssumption, FiguresInv, Break \/ Reconnect \/ CollectAndSend
  PROVE  FiguresInv'
<1> USE DEF FiguresInv
<1>1. UNCHANGED <<runVars, connections, stats, pollVars, polled, spoilt>>
  BY DEF Break, Reconnect, CollectAndSend
<1>2. RunsUpwards' /\ PollWell' /\ ConnectionsKnown' /\ \A s \in Servers : polled'[s] > 0 => Seen(s)'
  BY <1>1 DEF RunsUpwards, PollWell, ConnectionsKnown, Seen, runVars, pollVars
<1>3. link' \in BOOLEAN /\ playerStats' \in Partial(0 .. Runs) /\ breaks' \in 0 .. Breaks /\ faults' \in 0 .. PollFaults
  <2>1. CASE Break
    <3>1. playerStats' \in Partial(0 .. Runs)
      BY <2>1, NoneIs DEF Break, FiguresTypeOK
    <3>2. breaks' \in 0 .. Breaks
      BY <2>1 DEF Break, FiguresTypeOK, FiguresAssumption
    <3> QED BY <3>1, <3>2, <2>1 DEF Break, FiguresTypeOK
  <2>2. CASE Reconnect \/ CollectAndSend
    BY <2>2 DEF Reconnect, CollectAndSend, FiguresTypeOK, boundVars
  <2> QED BY <2>1, <2>2
<1>4. point' \in {None} \cup [run : 1 .. Runs, count : 0 .. Runs, settled : BOOLEAN] /\ PointsCurrent'
  <2>1. CASE Break \/ Reconnect
    BY <2>1 DEF Break, Reconnect, FiguresTypeOK, PointsCurrent
  <2>2. CASE CollectAndSend
    <3>1. PICK s \in Running \cap DOMAIN stats : point' = PointOf(s)
      BY <2>2 DEF CollectAndSend
    <3>2. s \in Servers /\ runs[s] \in 1 .. Runs /\ stats[s] \in 0 .. Runs
      BY <3>1, PartialIs DEF Running, FiguresTypeOK, FiguresAssumption
    <3>3. polled[s] > 0 => stats[s] \in {0, runs[s]}
      BY <3>1, <3>2 DEF Seen
    <3>4. /\ point' \in [run : 1 .. Runs, count : 0 .. Runs, settled : BOOLEAN]
          /\ point'.run = runs[s] /\ point'.count = stats[s] /\ point'.settled = (polled[s] > 0)
      BY <3>1, <3>2 DEF PointOf
    <3> QED BY <3>3, <3>4 DEF PointsCurrent
  <2> QED BY <2>1, <2>2
<1>5. FiguresTypeOK'
  BY <1>1, <1>3, <1>4 DEF FiguresTypeOK, runVars, pollVars
<1> QED BY <1>2, <1>4, <1>5

\* A poll begins with runs there are, or forgets all when it finds none.
LEMMA DiscoverKeeps ==
  ASSUME FiguresAssumption, FiguresInv, Discover
  PROVE  FiguresInv'
<1> USE DEF FiguresInv
<1>1. UNCHANGED <<runs, lastRun, link, playerStats, point, spoilt, breaks>> /\ stage = "idle"
  BY DEF Discover, runVars
<1>2. DOMAIN allStats = {} /\ DOMAIN found = {} /\ todo = {}
  BY <1>1 DEF PollWell
<1>3. faults' \in 0 .. PollFaults
  <2>1. \/ faults' = faults
        \/ faults < PollFaults /\ faults' = faults + 1
    BY DEF Discover, Fault, Spared
  <2>2. faults \in 0 .. PollFaults /\ PollFaults \in Nat
    BY DEF FiguresTypeOK, FiguresAssumption
  <2> QED BY <2>1, <2>2
<1>4. CASE UNCHANGED <<connections, stats, pollVars, polled>>
  BY <1>1, <1>3, <1>4 DEF FiguresTypeOK, RunsUpwards, PollWell, ConnectionsKnown, PointsCurrent, Seen, pollVars
<1>5. ASSUME NEW inspected \in SUBSET Running, Missed(Running \ inspected),
             \/ inspected = {} /\ connections' = None /\ stats' = None /\ UNCHANGED pollVars
             \/ /\ inspected # {} /\ found' = Restrict(runs, inspected) /\ todo' = inspected
                /\ stage' = "collecting" /\ UNCHANGED <<connections, stats, allStats>>
      PROVE  FiguresInv'
  <2>1. /\ polled' \in [Servers -> 0 .. 2]
        /\ \A s \in Servers : polled'[s] > 0 => Seen(s) /\ s \in Running
        /\ \A s \in Servers : polled'[s] = 2 => s \in inspected /\ polled[s] = 2
    <3>1. polled' = [s \in Servers |-> IF s \in Running \ inspected /\ polled[s] = 2 THEN 1 ELSE polled[s]]
      BY <1>5 DEF Missed
    <3>2. polled \in [Servers -> 0 .. 2]
      BY DEF FiguresTypeOK
    <3>3. ASSUME NEW s \in Servers, polled'[s] > 0
          PROVE  Seen(s) /\ s \in Running
      <4>1. polled[s] > 0
        BY <3>1, <3>2, <3>3
      <4> QED BY <4>1 DEF Seen, Running
    <3>4. ASSUME NEW s \in Servers, polled'[s] = 2
          PROVE  s \in inspected /\ polled[s] = 2
      BY <3>1, <3>2, <3>3, <3>4
    <3>5. polled' \in [Servers -> 0 .. 2]
      BY <3>1, <3>2
    <3> QED BY <3>3, <3>4, <3>5
  <2>2. CASE inspected = {} /\ connections' = None /\ stats' = None /\ UNCHANGED pollVars
    <3>1. FiguresTypeOK' /\ ConnectionsKnown'
      BY <1>1, <1>3, <2>1, <2>2, NoneIs DEF FiguresTypeOK, ConnectionsKnown, pollVars
    <3>2. ASSUME NEW s \in Servers, polled'[s] > 0 PROVE Seen(s)'
      BY <1>1, <1>2, <2>1, <2>2, <3>2, NoneIs DEF Seen, pollVars
    <3> QED BY <3>1, <3>2, <1>1, <2>2 DEF RunsUpwards, PollWell, PointsCurrent, pollVars
  <2>3. CASE /\ inspected # {} /\ found' = Restrict(runs, inspected) /\ todo' = inspected
             /\ stage' = "collecting" /\ UNCHANGED <<connections, stats, allStats>>
    <3>1. /\ DOMAIN found' = inspected /\ found' \in Partial(1 .. Runs)
          /\ \A s \in inspected : found'[s] = runs[s] /\ runs[s] = lastRun[s] /\ lastRun[s] \in Nat
      <4>1. inspected \subseteq Servers /\ DOMAIN found' = inspected /\ found' = [s \in DOMAIN found' |-> found'[s]]
        BY <2>3 DEF Running, Restrict
      <4>2. \A s \in inspected : found'[s] = runs[s] /\ runs[s] \in 1 .. Runs
        BY <2>3 DEF Running, Restrict, FiguresTypeOK, FiguresAssumption
      <4>3. \A s \in inspected : runs[s] = lastRun[s] /\ lastRun[s] \in Nat
        BY <4>2 DEF Running, RunsUpwards, FiguresAssumption
      <4> QED BY <4>1, <4>2, <4>3, PartialIs
    <3>2. FiguresTypeOK'
      BY <3>1, <1>1, <1>3, <2>1, <2>3 DEF FiguresTypeOK
    <3>3. PollWell' /\ ConnectionsKnown'
      BY <3>1, <1>1, <1>2, <2>3 DEF PollWell, ConnectionsKnown
    <3>4. ASSUME NEW s \in Servers, polled'[s] > 0 PROVE Seen(s)'
      <4>1. Seen(s) /\ (polled'[s] = 2 => s \in inspected /\ polled[s] = 2)
        BY <2>1, <3>4
      <4> QED BY <4>1, <3>1, <1>1, <1>2, <2>3 DEF Seen
    <3> QED BY <3>2, <3>3, <3>4, <1>1, <2>3 DEF RunsUpwards, PointsCurrent
  <2> QED BY <1>5, <2>2, <2>3
<1> QED BY <1>4, <1>5 DEF Discover

\* An answer is of the run there is, which is not older than the one that was found.
LEMMA CollectKeeps ==
  ASSUME FiguresAssumption, FiguresInv, NEW s \in Servers, CollectServerStats(s)
  PROVE  FiguresInv'
<1> USE DEF FiguresInv
<1>1. /\ stage = "collecting" /\ s \in todo /\ todo' = todo \ {s}
      /\ UNCHANGED <<runs, lastRun, link, stats, found, stage, playerStats, point, polled, breaks>>
  BY DEF CollectServerStats, runVars
<1>2. /\ s \in DOMAIN found /\ found[s] \in Nat /\ found[s] <= lastRun[s] /\ lastRun[s] \in Nat
      /\ DOMAIN found \subseteq Servers
  BY <1>1, PartialIs DEF PollWell, FiguresTypeOK, FiguresAssumption
<1>3. faults' \in 0 .. PollFaults /\ spoilt' \in {spoilt, spoilt \cup {s}}
  BY DEF CollectServerStats, Fault, Spared, FiguresTypeOK, FiguresAssumption
<1>4. /\ connections \in Partial(1 .. Runs) /\ allStats \in Partial(0 .. Runs)
      /\ runs[s] \in 0 .. Runs /\ runs[s] \in {0, lastRun[s]} /\ Runs \in Nat
  BY DEF FiguresTypeOK, RunsUpwards, FiguresAssumption
<1>5. polled[s] > 0 => found[s] = runs[s] /\ (s \in DOMAIN connections => Standing(s))
  BY <1>2 DEF Seen, Standing
<1>6. CASE (Standing(s) \/ Reaches(s)) /\ Replies(s) /\ UNCHANGED spoilt
  <2>1. runs[s] \in 1 .. Runs /\ runs[s] = lastRun[s]
    BY <1>4, <1>6, PartialIs DEF Standing, Reaches
  <2>2. /\ connections' \in Partial(1 .. Runs) /\ DOMAIN connections' = DOMAIN connections \cup {s}
        /\ connections'[s] = runs[s] /\ \A t \in DOMAIN connections \ {s} : connections'[t] = connections[t]
    <3> DEFINE N == 1 .. Runs
    <3>1. connections \in Partial(N) /\ runs[s] \in N
      BY <1>4, <2>1
    <3> HIDE DEF N
    <3>2. connections' \in Partial(N) /\ DOMAIN connections' = DOMAIN connections \cup {s}
          /\ connections'[s] = runs[s] /\ \A t \in DOMAIN connections \ {s} : connections'[t] = connections[t]
      BY <3>1, <1>6, WithIs DEF Replies
    <3> QED BY <3>2 DEF N
  <2>3. /\ allStats' \in Partial(0 .. Runs) /\ DOMAIN allStats' = DOMAIN allStats \cup {s}
        /\ allStats'[s] = runs[s] /\ \A t \in DOMAIN allStats \ {s} : allStats'[t] = allStats[t]
    <3> DEFINE N == 0 .. Runs
    <3>1. allStats \in Partial(N) /\ runs[s] \in N /\ allStats' = With(allStats, s, runs[s])
      BY <1>4, <1>6 DEF Replies
    <3> HIDE DEF N
    <3>2. allStats' \in Partial(N) /\ DOMAIN allStats' = DOMAIN allStats \cup {s}
          /\ allStats'[s] = runs[s] /\ \A t \in DOMAIN allStats \ {s} : allStats'[t] = allStats[t]
      BY <3>1, WithIs
    <3> QED BY <3>2 DEF N
  <2>4. FiguresTypeOK'
    BY <1>1, <1>3, <2>2, <2>3 DEF FiguresTypeOK
  <2>5. PollWell'
    BY <1>1, <1>2, <1>4, <2>1, <2>3 DEF PollWell
  <2>6. ConnectionsKnown'
    BY <1>1, <1>2, <1>4, <2>1, <2>2, <2>3 DEF ConnectionsKnown
  <2>7. ASSUME NEW t \in Servers, polled'[t] > 0 PROVE Seen(t)'
    <3>1. CASE t = s
      BY <3>1, <2>7, <1>1, <1>6, <2>2, <2>3 DEF Seen
    <3>2. CASE t # s
      BY <3>2, <2>7, <1>1, <1>6, <2>2, <2>3 DEF Seen
    <3> QED BY <3>1, <3>2
  <2> QED BY <2>4, <2>5, <2>6, <2>7, <1>1 DEF RunsUpwards, PointsCurrent
<1>7. CASE Failure(s) /\ (polled[s] > 0 => s \in spoilt') /\ s \notin DOMAIN connections'
  <2>1. /\ connections' \in Partial(1 .. Runs) /\ DOMAIN connections' = DOMAIN connections \ {s}
        /\ \A t \in DOMAIN connections \ {s} : connections'[t] = connections[t]
    BY <1>4, <1>7, RestrictedIs DEF Failure, Without
  <2>2. /\ allStats' \in Partial(0 .. Runs) /\ DOMAIN allStats' = DOMAIN allStats \cup {s}
        /\ allStats'[s] = 0 /\ \A t \in DOMAIN allStats \ {s} : allStats'[t] = allStats[t]
    <3> DEFINE N == 0 .. Runs
    <3>1. allStats \in Partial(N) /\ 0 \in N
      BY <1>4
    <3> HIDE DEF N
    <3>2. allStats' \in Partial(N) /\ DOMAIN allStats' = DOMAIN allStats \cup {s}
          /\ allStats'[s] = 0 /\ \A t \in DOMAIN allStats \ {s} : allStats'[t] = allStats[t]
      BY <3>1, <1>7, WithIs DEF Failure
    <3> QED BY <3>2 DEF N
  <2>3. FiguresTypeOK'
    BY <1>1, <1>3, <2>1, <2>2 DEF FiguresTypeOK
  <2>4. PollWell'
    BY <1>1, <1>2, <2>2 DEF PollWell
  <2>5. ConnectionsKnown'
    BY <1>1, <2>1, <2>2 DEF ConnectionsKnown
  <2>6. ASSUME NEW t \in Servers, polled'[t] > 0 PROVE Seen(t)'
    <3>1. CASE t = s
      BY <3>1, <2>6, <1>1, <1>7, <2>1, <2>2 DEF Seen
    <3>2. CASE t # s
      BY <3>2, <2>6, <1>1, <1>3, <2>1, <2>2 DEF Seen
    <3> QED BY <3>1, <3>2
  <2> QED BY <2>3, <2>4, <2>5, <2>6, <1>1 DEF RunsUpwards, PointsCurrent
<1>8. Failure(s) => s \notin DOMAIN connections'
  BY <1>4, RestrictedIs DEF Failure, Without
<1>9. ASSUME Failure(s) PROVE polled[s] > 0 => s \in spoilt'
  <2>1. CASE spoilt' = spoilt \cup {s}
    BY <2>1
  <2>2. CASE ~Standing(s) /\ (found[s] # runs[s] \/ s \in DOMAIN connections)
    BY <2>2, <1>5
  <2>3. CASE (Standing(s) \/ Reaches(s)) /\ Replies(s) /\ UNCHANGED spoilt
    BY <1>8, <1>9, <2>3 DEF Replies, With, Joined
  <2> QED BY <2>1, <2>2, <2>3 DEF CollectServerStats
<1> QED BY <1>6, <1>7, <1>8, <1>9 DEF CollectServerStats

\* Nothing that a poll has found is forgotten at its end.
LEMMA CloseStoppedKeeps ==
  ASSUME FiguresAssumption, FiguresInv, CloseStopped
  PROVE  FiguresInv'
<1> USE DEF FiguresInv
<1>1. /\ stage = "collecting" /\ stage' = "updating" /\ todo = {}
      /\ UNCHANGED <<runs, lastRun, link, found, todo, allStats, playerStats, point, polled, spoilt, breaks, faults>>
  BY DEF CloseStopped, runVars, boundVars
<1> DEFINE stopped == DOMAIN connections \ DOMAIN found
<1>2. /\ connections' \in Partial(1 .. Runs) /\ DOMAIN connections' = DOMAIN connections \ stopped
      /\ \A s \in DOMAIN connections \ stopped : connections'[s] = connections[s]
  BY RestrictedIs DEF CloseStopped, Without, FiguresTypeOK
<1>3. /\ stats' \in Partial(0 .. Runs) /\ DOMAIN stats' = DOMAIN stats \ stopped
      /\ \A s \in DOMAIN stats \ stopped : stats'[s] = stats[s]
  BY RestrictedIs DEF CloseStopped, Without, FiguresTypeOK
<1>4. FiguresTypeOK'
  BY <1>1, <1>2, <1>3 DEF FiguresTypeOK
<1>5. PollWell' /\ ConnectionsKnown' /\ RunsUpwards' /\ PointsCurrent'
  BY <1>1, <1>2 DEF PollWell, ConnectionsKnown, RunsUpwards, PointsCurrent
<1>6. ASSUME NEW s \in Servers, polled'[s] > 0 PROVE Seen(s)'
  <2>1. Seen(s) /\ (polled[s] = 2 => s \notin stopped)
    BY <1>6, <1>1 DEF Seen
  <2> QED BY <2>1, <1>1, <1>2, <1>3 DEF Seen
<1> QED BY <1>4, <1>5, <1>6

\* Whatever the poll counts, it has found as it is: the figure it keeps is of this run or of
\* none, and of this run if it had been counted before and its answer has not failed.
LEMMA UpdateKeeps ==
  ASSUME FiguresAssumption, FiguresInv, UpdateStats
  PROVE  FiguresInv'
<1> USE DEF FiguresInv
<1>1. /\ stage = "updating" /\ stage' = "idle" /\ todo = {} /\ found' = None /\ allStats' = None /\ spoilt' = {}
      /\ UNCHANGED <<runs, lastRun, link, connections, todo, point, breaks, faults>>
  BY DEF UpdateStats, Count, PollWell, runVars, boundVars
<1>2. /\ stats' \in Partial(0 .. Runs) /\ DOMAIN stats' = DOMAIN allStats \cup DOMAIN stats
      /\ \A s \in DOMAIN allStats : stats'[s] = allStats[s]
      /\ \A s \in DOMAIN stats \ DOMAIN allStats : stats'[s] = stats[s]
  <2>1. stats' = Joined(allStats, stats) /\ allStats \in Partial(0 .. Runs) /\ stats \in Partial(0 .. Runs)
    BY DEF UpdateStats, FiguresTypeOK
  <2>2. DOMAIN stats' = DOMAIN allStats \cup DOMAIN stats
    BY <2>1 DEF Joined
  <2>3. \A s \in DOMAIN allStats : stats'[s] = allStats[s]
    BY <2>1 DEF Joined
  <2>4. \A s \in DOMAIN stats \ DOMAIN allStats : stats'[s] = stats[s]
    BY <2>1 DEF Joined
  <2>5. stats' \in Partial(0 .. Runs)
    BY <2>1, JoinedIs
  <2> QED BY <2>2, <2>3, <2>4, <2>5
<1>3. playerStats' \in Partial(0 .. Runs)
  BY JoinedIs DEF UpdateStats, Told, FiguresTypeOK
<1>4. polled' = [s \in Servers |->
         IF s \notin DOMAIN found \/ found[s] # runs[s] THEN polled[s]
         ELSE IF s \in spoilt \/ polled[s] = 0 THEN 1 ELSE 2]
  BY DEF UpdateStats, Count
<1>5. polled' \in [Servers -> 0 .. 2]
  BY <1>4 DEF FiguresTypeOK
<1>6. FiguresTypeOK'
  BY <1>1, <1>2, <1>3, <1>5, NoneIs DEF FiguresTypeOK
<1>7. PollWell' /\ ConnectionsKnown' /\ RunsUpwards' /\ PointsCurrent'
  BY <1>1, NoneIs DEF PollWell, ConnectionsKnown, RunsUpwards, PointsCurrent
<1>8. ASSUME NEW s \in Servers, polled'[s] > 0 PROVE Seen(s)'
  <2>0. CASE s \notin DOMAIN found
    <3>1. polled'[s] = polled[s] /\ polled[s] # 2 /\ Seen(s) /\ s \notin DOMAIN allStats
      BY <1>1, <1>4, <1>8, <2>0 DEF Seen, PollWell
    <3> QED BY <3>1, <1>1, <1>2, NoneIs DEF Seen
  <2> SUFFICES ASSUME s \in DOMAIN found
               PROVE  Seen(s)'
    BY <2>0
  <2>1. found[s] = runs[s]
    BY <1>1, <1>4, <1>8 DEF Seen
  <2>2. /\ s \in DOMAIN allStats /\ found[s] \in 1 .. Runs /\ runs[s] = lastRun[s]
        /\ lastRun[s] \in Nat /\ allStats[s] \in Nat
    BY <2>1, <1>1, PartialIs DEF PollWell, FiguresTypeOK, FiguresAssumption, RunsUpwards
  <2>3. allStats[s] \in {0, runs[s]}
    BY <2>1, <2>2 DEF PollWell
  <2>4. s \in DOMAIN connections => connections[s] = runs[s]
    <3>1. s \in DOMAIN connections => connections[s] \in Nat
      BY PartialIs DEF FiguresTypeOK, FiguresAssumption
    <3> QED BY <3>1, <2>1, <2>2 DEF ConnectionsKnown
  <2>5. polled'[s] = 2 => allStats[s] = runs[s]
    <3>1. polled'[s] = 2 => s \notin spoilt /\ polled[s] # 0
      BY <1>4, <2>1
    <3> QED BY <3>1, <2>2 DEF Seen, FiguresTypeOK
  <2> QED BY <2>1, <2>2, <2>3, <2>4, <2>5, <1>1, <1>2, NoneIs DEF Seen, FiguresAssumption
<1> QED BY <1>6, <1>7, <1>8

LEMMA FiguresStep ==
  ASSUME FiguresAssumption, FiguresInv, [FiguresNext]_figureVars
  PROVE  FiguresInv'
<1>1. CASE UNCHANGED figureVars
  BY <1>1 DEF FiguresInv, FiguresTypeOK, RunsUpwards, PollWell, ConnectionsKnown, PointsCurrent, Seen,
     figureVars, runVars, pollVars, boundVars
<1>2. CASE FiguresNext
  BY <1>2, RunsKeep, LinkKeeps, DiscoverKeeps, CollectKeeps, CloseStoppedKeeps, UpdateKeeps
  DEF FiguresNext, PollStep
<1> QED BY <1>1, <1>2

LEMMA FiguresSafe ==
  ASSUME FiguresInv
  PROVE  PointsCurrent /\ FiguresRecover
BY DEF FiguresInv, FiguresRecover, Seen, FiguresTypeOK

-----------------------------------------------------------------------------
(* Placement.  A row stands for the request that inserted it, whose name   *)
(* and ports it has; what a handler has seen of the rows stays true of     *)
(* them; and, nobody having given up waiting, each question is waited for  *)
(* by the request it is of.                                                *)

PlaceRow ==
  [status : {"creating", "adopting", "running", "failed"}, name : Names, game : Nat \ {0},
   udp : Nat \ {0}, rcon : Nat, container : P!Ids \cup {"none"}, seen : SUBSET Requests]
PlaceRequest ==
  [at : P!Stages \cup {"done"}, kind : {"create", "adopt"}, name : Names, game : Nat, udp : Nat,
   rcon : Nat, seen : SUBSET Requests, answer : {"waiting", "ok", "no"}]
PlaceContainer == [place : P!Places, game : Nat \ {0}, udp : Nat \ {0}, runs : BOOLEAN]
PlaceQuestion == {"check", "inspect", "create", "adopt"} \X Requests
Worlds == {"none", "empty", "part", "fresh", "old", "world"}

PlaceTyped ==
  /\ servers \in [Requests -> {P!NoRow} \cup PlaceRow]
  /\ placements \in [Requests -> {P!Idle} \cup PlaceRequest]
  /\ asked \in Seq(PlaceQuestion)
  /\ adopting \in {P!Nobody} \cup [of : Requests, runs : BOOLEAN]
  /\ containers \in [P!Ids -> {P!Gone} \cup PlaceContainer]
  /\ bound \subseteq Foreign
  /\ places \in [P!Places -> Worlds]
  /\ happened \subseteq {"late", "mountless", "raced", "shared"}

\* A row is its request's, and no request that is still to insert one has one.
RowMatches(r) ==
  /\ placements[r] \in PlaceRequest /\ placements[r].at \in {"create", "adopt", "done"}
  /\ servers[r].name = placements[r].name
  /\ servers[r].game = placements[r].game /\ servers[r].udp = placements[r].udp
  /\ servers[r].seen \subseteq P!Rows
RowsMatch == \A r \in P!Rows : RowMatches(r)
Inserted ==
  \A r \in Requests : placements[r].at \in {"create", "adopt"} => r \in P!Rows /\ placements[r].at = placements[r].kind

\* The ports are known before they are compared, and differ from those that were seen.
Compared(q) == q.at \in {"picked", "check", "inserting"} \/ (q.at = "inspect" /\ q.answer = "ok")
PortsKnown ==
  \A r \in Requests : Compared(placements[r]) => placements[r].game # 0 /\ placements[r].udp # 0
SeenDiffer ==
  \A r \in Requests :
    placements[r].at \in {"check", "inserting"} =>
      placements[r].seen \subseteq P!Rows /\ \A x \in placements[r].seen : servers[x].udp # placements[r].udp

\* Some row has the largest port, of the games' and of RCON's.
Maxima ==
  P!Rows # {} =>
    /\ \E m \in P!Rows : \A r \in P!Rows : servers[r].game <= servers[m].game
    /\ \E m \in P!Rows : \A r \in P!Rows : servers[r].rcon <= servers[m].rcon

\* The agent is asked to make what has a row.
Questioned(op, r) == op \in {"create", "adopt"} => r \in P!Rows /\ placements[r].kind = op
AskedWell ==
  /\ \A i \in 1 .. Len(asked) : Questioned(asked[i][1], asked[i][2])
  /\ adopting # P!Nobody => Questioned("adopt", adopting.of) /\ containers["old"] # P!Gone

PlaceInv0 ==
  PlaceTyped /\ RowsMatch /\ Inserted /\ PortsKnown /\ SeenDiffer /\ Maxima /\ AskedWell /\ P!PortsApart

LEMMA PlaceSorts ==
  /\ P!NoRow \notin PlaceRow /\ P!Idle \notin PlaceRequest /\ P!Gone \notin PlaceContainer
  /\ P!Nobody \notin [of : Requests, runs : BOOLEAN]
  /\ P!Idle.at = "idle"
BY DEF P!NoRow, PlaceRow, P!Idle, PlaceRequest, P!Gone, PlaceContainer, P!Nobody, P!Stages

LEMMA PlaceStart ==
  ASSUME P!PlacementAssumption, P!PlacementInit
  PROVE  PlaceInv0
<1>1. PICK site \in Mounts, game \in Games, runs_ \in BOOLEAN :
        /\ containers = [c \in P!Ids |->
             IF c = "old" THEN [place |-> site, game |-> game, udp |-> game + 1, runs |-> runs_] ELSE P!Gone]
        /\ places = [p \in P!Places |-> IF p = site THEN "world" ELSE "none"]
        /\ happened = IF site = "inside" THEN {"mountless"} ELSE {}
  BY DEF P!PlacementInit
<1>2. site \in P!Places /\ game \in Nat \ {0}
  BY DEF P!PlacementAssumption, P!Places
<1>3. PlaceTyped
  <2>1. containers \in [P!Ids -> {P!Gone} \cup PlaceContainer] /\ places \in [P!Places -> Worlds]
    BY <1>1, <1>2 DEF PlaceContainer, Worlds
  <2>2. asked \in Seq(PlaceQuestion)
    BY DEF P!PlacementInit
  <2> QED BY <2>1, <2>2, <1>1 DEF P!PlacementInit, PlaceTyped
<1>4. P!Rows = {} /\ \A r \in Requests : placements[r].at = "idle"
  BY DEF P!PlacementInit, P!Rows, P!Idle
<1> QED BY <1>3, <1>4 DEF PlaceInv0, RowsMatch, Inserted, PortsKnown, Compared, SeenDiffer, Maxima, AskedWell, P!PortsApart,
      P!PlacementInit

\* What a step may do to a request: leave it, or take it further without forgetting what its
\* row has of it, its ports, and what it has seen.
Further(x) ==
  /\ placements'[x] \in PlaceRequest
  /\ x \in P!Rows =>
       /\ placements'[x].at \in {"create", "adopt", "done"} /\ placements'[x].kind = placements[x].kind
       /\ placements'[x].name = placements[x].name /\ placements'[x].game = placements[x].game
       /\ placements'[x].udp = placements[x].udp
  /\ placements'[x].at \in {"create", "adopt"} => x \in P!Rows /\ placements'[x].at = placements'[x].kind
  /\ Compared(placements'[x]) => placements'[x].game # 0 /\ placements'[x].udp # 0
  /\ placements'[x].at \in {"check", "inserting"} =>
       placements'[x].seen \subseteq P!Rows /\ \A y \in placements'[x].seen : servers[y].udp # placements'[x].udp
Follows(x) == placements'[x] = placements[x] \/ Further(x)

\* ... to the rows, but for inserting one, ...
SameRow(x) ==
  /\ servers'[x] # P!NoRow <=> servers[x] # P!NoRow
  /\ servers[x] # P!NoRow =>
       /\ servers'[x].name = servers[x].name /\ servers'[x].game = servers[x].game
       /\ servers'[x].udp = servers[x].udp /\ servers'[x].rcon = servers[x].rcon
       /\ servers'[x].seen = servers[x].seen

\* ... and to the questions.
FewerQuestions ==
  \A j \in 1 .. Len(asked') :
    asked'[j][1] \in {"check", "inspect"} \/ \E i \in 1 .. Len(asked) : asked'[j] = asked[i]

\* What does so, inserting nothing, keeps what is known of the rows.
LEMMA PlaceFrame ==
  ASSUME PlaceInv0, PlaceTyped', FewerQuestions,
         \A x \in Requests : Follows(x) /\ SameRow(x),
         adopting' # P!Nobody => Questioned("adopt", adopting'.of) /\ containers'["old"] # P!Gone
  PROVE  PlaceInv0'
<1> USE DEF PlaceInv0
<1>1. P!Rows' = P!Rows /\ P!Rows \subseteq Requests
  BY DEF P!Rows, SameRow
<1>2. ASSUME NEW r \in P!Rows PROVE RowMatches(r)'
  BY <1>1, <1>2 DEF RowsMatch, RowMatches, Follows, Further, SameRow, P!Rows
<1>3. RowsMatch'
  BY <1>1, <1>2 DEF RowsMatch
<1>4. PortsKnown' /\ Inserted'
  BY <1>1 DEF PortsKnown, Inserted, Follows, Further
<1>5. SeenDiffer'
  <2>1. ASSUME NEW r \in Requests, placements'[r].at \in {"check", "inserting"}
        PROVE  placements'[r].seen \subseteq P!Rows
                 /\ \A x \in placements'[r].seen : servers[x].udp # placements'[r].udp
    BY <2>1 DEF SeenDiffer, Follows, Further
  <2>2. \A x \in P!Rows : servers'[x].udp = servers[x].udp
    BY <1>1 DEF SameRow, P!Rows
  <2> QED BY <1>1, <2>1, <2>2 DEF SeenDiffer
<1>6. Maxima'
  <2>1. \A x \in P!Rows : servers'[x].game = servers[x].game /\ servers'[x].rcon = servers[x].rcon
    BY <1>1 DEF SameRow, P!Rows
  <2> QED BY <1>1, <2>1 DEF Maxima
<1>7. \A op, r : Questioned(op, r) /\ r \in Requests => Questioned(op, r)'
  BY <1>1 DEF Questioned, Follows, Further
<1>8. AskedWell'
  <2>1. \A j \in 1 .. Len(asked') : asked'[j] \in PlaceQuestion
    BY DEF PlaceTyped
  <2>2. \A i \in 1 .. Len(asked) : asked[i] \in PlaceQuestion
    BY DEF PlaceTyped
  <2>3. \A j \in 1 .. Len(asked') : Questioned(asked'[j][1], asked'[j][2])
    BY <2>1, <2>2 DEF FewerQuestions, AskedWell, Questioned, PlaceQuestion
  <2>4. adopting' # P!Nobody => adopting'.of \in Requests
    BY DEF PlaceTyped
  <2> QED BY <1>7, <2>1, <2>3, <2>4 DEF AskedWell, PlaceQuestion
<1>9. P!PortsApart'
  <2>1. \A x \in P!Rows : /\ servers'[x].name = servers[x].name /\ servers'[x].game = servers[x].game
                          /\ servers'[x].udp = servers[x].udp /\ servers'[x].seen = servers[x].seen
    BY <1>1 DEF SameRow, P!Rows
  <2> QED BY <1>1, <2>1 DEF P!PortsApart
<1> QED BY <1>3, <1>4, <1>5, <1>6, <1>8, <1>9

\* The host's own steps, and those of the handlers but for an insertion.
LEMMA HostKeeps ==
  ASSUME PlaceInv0, (\E p \in Foreign : P!Bind(p)) \/ (\E c \in P!Ids : P!Save(c)) \/ P!StopOld
  PROVE  PlaceInv0'
<1> USE DEF PlaceInv0
<1>1. UNCHANGED <<servers, placements, asked, adopting>>
  BY DEF P!Bind, P!Save, P!StopOld
<1>2. CASE \E p \in Foreign : P!Bind(p)
  <2>1. UNCHANGED <<containers, places, happened>> /\ bound' \subseteq Foreign
    BY <1>2 DEF P!Bind, PlaceTyped
  <2>2. PlaceTyped'
    BY <1>1, <2>1 DEF PlaceTyped
  <2> QED BY <1>1, <2>1, <2>2, PlaceFrame DEF AskedWell, Follows, SameRow, FewerQuestions
<1>3. CASE \E c \in P!Ids : P!Save(c)
  <2>1. PICK c \in P!Ids : P!Save(c)
    BY <1>3
  <2>2. UNCHANGED <<containers, bound>>
    BY <2>1 DEF P!Save
  <2>3. places' \in [P!Places -> Worlds]
    BY <2>1 DEF P!Save, PlaceTyped, Worlds
  <2>4. happened' \subseteq {"late", "mountless", "raced", "shared"}
    BY <2>1 DEF P!Save, PlaceTyped
  <2>5. PlaceTyped'
    BY <1>1, <2>2, <2>3, <2>4 DEF PlaceTyped
  <2> QED BY <1>1, <2>2, <2>5, PlaceFrame DEF AskedWell, Follows, SameRow, FewerQuestions
<1>4. CASE P!StopOld
  <2>1. /\ containers' = [containers EXCEPT !["old"].runs = FALSE] /\ containers["old"] # P!Gone
        /\ UNCHANGED <<bound, places, happened>>
    BY <1>4 DEF P!StopOld, P!Alive
  <2>2. "old" \in P!Ids /\ containers["old"] \in PlaceContainer
    BY <2>1 DEF P!Ids, PlaceTyped
  <2>3. /\ containers' \in [P!Ids -> {P!Gone} \cup PlaceContainer] /\ containers'["old"] \in PlaceContainer
    BY <2>1, <2>2 DEF PlaceTyped, PlaceContainer
  <2>4. containers'["old"] # P!Gone
    BY <2>3, PlaceSorts
  <2>5. PlaceTyped'
    BY <1>1, <2>1, <2>3 DEF PlaceTyped
  <2> QED BY <1>1, <2>4, <2>5, PlaceFrame DEF AskedWell, Follows, SameRow, FewerQuestions
<1> QED BY <1>2, <1>3, <1>4

\* The ports that are picked are numbers, and the first ones or beyond those of all rows.
LEMMA PicksAreBeyond ==
  ASSUME P!PlacementAssumption, PlaceTyped, Maxima
  PROVE  /\ P!NextGame \in Nat \ {0} /\ P!NextRcon \in Nat
         /\ \A r \in P!Rows : servers[r].game + 2 <= P!NextGame
<1>1. CASE P!Rows = {}
  BY <1>1 DEF P!NextGame, P!NextRcon, P!PlacementAssumption
<1>2. CASE P!Rows # {}
  <2>1. \A r \in P!Rows : servers[r] \in PlaceRow
    BY DEF P!Rows, PlaceTyped
  <2> DEFINE G == {servers[r].game : r \in P!Rows}
             R == {servers[r].rcon : r \in P!Rows}
  <2>2. G \subseteq Nat \ {0} /\ R \subseteq Nat
    BY <2>1 DEF PlaceRow
  <2>3. (\E g \in G : \A h \in G : h <= g) /\ (\E g \in R : \A h \in R : h <= g)
    BY <1>2 DEF Maxima
  <2>4. P!Max(G) \in G /\ \A h \in G : h <= P!Max(G)
    <3> HIDE DEF G
    <3> QED BY <2>2, <2>3 DEF P!Max
  <2>5. P!Max(R) \in R
    <3> HIDE DEF R
    <3> QED BY <2>2, <2>3 DEF P!Max
  <2>6. P!NextGame = P!Max(G) + 2 /\ P!NextRcon = P!Max(R) + 1
    BY <1>2 DEF P!NextGame, P!NextRcon
  <2>7. \A r \in P!Rows : servers[r].game \in G
    OBVIOUS
  <2> HIDE DEF G, R
  <2>8. P!Max(G) \in Nat \ {0} /\ P!Max(R) \in Nat
    BY <2>2, <2>4, <2>5
  <2>9. \A r \in P!Rows : servers[r].game \in Nat /\ servers[r].game <= P!Max(G)
    BY <2>2, <2>4, <2>7
  <2> HIDE DEF P!NextGame, P!NextRcon
  <2> QED BY <2>6, <2>8, <2>9
<1> QED BY <1>1, <1>2

\* A handler that takes its request further and may ask a question more.
LEMMA HandlerFrame ==
  ASSUME PlaceInv0, NEW r \in Requests, NEW new \in PlaceRequest,
         placements' = [placements EXCEPT ![r] = new], Further(r),
         UNCHANGED <<servers, adopting, containers, bound, places>>,
         happened' \in {happened, happened \cup {"late"}},
         asked' \in {asked, Append(asked, <<"check", r>>), Append(asked, <<"inspect", r>>)}
  PROVE  PlaceInv0'
<1> USE DEF PlaceInv0
<1>1. asked' \in Seq(PlaceQuestion) /\ FewerQuestions
  <2>1. asked \in Seq(PlaceQuestion) /\ \A op \in {"check", "inspect"} : <<op, r>> \in PlaceQuestion
    BY DEF PlaceTyped, PlaceQuestion
  <2>2. CASE asked' = asked
    BY <2>1, <2>2 DEF FewerQuestions
  <2>3. CASE \E op \in {"check", "inspect"} : asked' = Append(asked, <<op, r>>)
    <3>1. PICK op \in {"check", "inspect"} : asked' = Append(asked, <<op, r>>)
      BY <2>3
    <3>2. <<op, r>> \in PlaceQuestion /\ <<op, r>>[1] = op
      BY <2>1
    <3> HIDE DEF PlaceInv0
    <3>3. \A j \in 1 .. Len(asked') : asked'[j] = <<op, r>> \/ \E i \in 1 .. Len(asked) : asked'[j] = asked[i]
      BY <2>1, <3>1, <3>2
    <3> QED BY <2>1, <3>1, <3>2, <3>3 DEF FewerQuestions
  <2> QED BY <2>2, <2>3
<1>2. PlaceTyped'
  BY <1>1 DEF PlaceTyped
<1>3. \A x \in Requests : Follows(x) /\ SameRow(x)
  BY DEF Follows, SameRow, PlaceTyped
<1> QED BY <1>1, <1>2, <1>3, PlaceFrame DEF AskedWell

LEMMA BeginKeeps ==
  ASSUME P!PlacementAssumption, PlaceInv0, NEW r \in Requests, NEW name \in Names, NEW game \in Games \cup {0},
         P!BeginAdopt(r, name, game) \/ \E udp \in Udps \cup {0} : P!BeginCreate(r, name, game, udp)
  PROVE  PlaceInv0'
<1> USE DEF PlaceInv0
<1>1. placements[r] = P!Idle /\ r \notin P!Rows
  BY PlaceSorts DEF P!BeginAdopt, P!BeginCreate, RowsMatch, RowMatches
<1>2. CASE P!BeginAdopt(r, name, game)
  <2> DEFINE new == [at |-> "inspect", kind |-> "adopt", name |-> name, game |-> game,
                     udp |-> 0, rcon |-> 0, seen |-> {}, answer |-> "waiting"]
  <2>0. game \in Nat
    BY DEF P!PlacementAssumption
  <2>1. new \in PlaceRequest
    BY <2>0 DEF PlaceRequest, P!Stages
  <2>2. placements' = [placements EXCEPT ![r] = new] /\ asked' = Append(asked, <<"inspect", r>>)
        /\ UNCHANGED <<servers, adopting, containers, bound, places, happened>>
    BY <1>2 DEF P!BeginAdopt, P!hostVars
  <2>3. placements'[r] = new
    BY <2>2 DEF PlaceTyped
  <2>4. Further(r)
    BY <1>1, <2>1, <2>3 DEF Further, Compared
  <2> HIDE DEF new
  <2> QED BY <2>1, <2>2, <2>4, HandlerFrame
<1>3. CASE \E udp \in Udps \cup {0} : P!BeginCreate(r, name, game, udp)
  <2>1. PICK udp \in Udps \cup {0} : P!BeginCreate(r, name, game, udp)
    BY <1>3
  <2> DEFINE picked == IF game = 0 THEN P!NextGame ELSE game
             new == [at |-> "picked", kind |-> "create", name |-> name, game |-> picked,
                     udp |-> IF udp = 0 THEN picked + 1 ELSE udp, rcon |-> P!NextRcon, seen |-> {},
                     answer |-> "waiting"]
  <2>2. picked \in Nat \ {0} /\ P!NextRcon \in Nat
    BY PicksAreBeyond DEF P!PlacementAssumption
  <2>3. new \in PlaceRequest /\ new.udp # 0 /\ new.game # 0
    <3> HIDE DEF picked
    <3> QED BY <2>2 DEF PlaceRequest, P!Stages, P!PlacementAssumption
  <2>4. placements' = [placements EXCEPT ![r] = new]
        /\ UNCHANGED <<servers, asked, adopting, containers, bound, places, happened>>
    BY <2>1 DEF P!BeginCreate, P!hostVars
  <2>5. placements'[r] = new
    BY <2>4 DEF PlaceTyped
  <2>6. Further(r)
    BY <1>1, <2>3, <2>5 DEF Further, Compared
  <2> HIDE DEF new
  <2> QED BY <2>3, <2>4, <2>6, HandlerFrame
<1> QED BY <1>2, <1>3

LEMMA AnswersKeep ==
  ASSUME PlaceInv0, NEW r \in Requests, P!CheckRows(r) \/ P!GiveUp(r) \/ P!Timeout(r) \/ P!Throw(r)
  PROVE  PlaceInv0'
<1> USE DEF PlaceInv0
<1>1. placements[r] \in PlaceRequest
  BY PlaceSorts DEF P!CheckRows, P!GiveUp, P!Timeout, P!Throw, P!At, PlaceTyped, P!Stages
<1>2. UNCHANGED <<servers, adopting, containers, bound, places>>
      /\ happened' \in {happened, happened \cup {"late"}}
  BY DEF P!CheckRows, P!GiveUp, P!Timeout, P!Throw, P!hostVars
<1>3. r \in P!Rows => placements[r].at \in {"create", "adopt", "done"}
  BY DEF RowsMatch, RowMatches
<1>4. CASE P!GiveUp(r) \/ P!Throw(r) \/ (P!CheckRows(r) /\ P!Goes(r, "done") /\ UNCHANGED asked)
  <2> DEFINE new == [placements[r] EXCEPT !.at = "done", !.answer = "waiting"]
  <2>1. placements' = [placements EXCEPT ![r] = new] /\ asked' = asked
    BY <1>4 DEF P!GiveUp, P!Throw, P!Goes, PlaceTyped
  <2>2. new \in PlaceRequest
    BY <1>1 DEF PlaceRequest
  <2>3. placements'[r] = new
    BY <2>1 DEF PlaceTyped
  <2>4. Further(r)
    BY <1>1, <2>2, <2>3 DEF Further, Compared, PlaceRequest
  <2> HIDE DEF new
  <2> QED BY <1>2, <2>1, <2>2, <2>4, HandlerFrame
<1>5. CASE P!Timeout(r)
  <2> DEFINE new == [placements[r] EXCEPT !.answer = "no"]
  <2>1. placements' = [placements EXCEPT ![r] = new] /\ asked' = asked
    BY <1>5 DEF P!Timeout, PlaceTyped
  <2>2. new \in PlaceRequest
    BY <1>1 DEF PlaceRequest
  <2>3. placements'[r] = new
    BY <2>1 DEF PlaceTyped
  <2>4. Further(r)
    BY <1>1, <1>3, <2>2, <2>3 DEF Further, Compared, PlaceRequest, PortsKnown, SeenDiffer, Inserted
  <2> HIDE DEF new
  <2> QED BY <1>2, <2>1, <2>2, <2>4, HandlerFrame
<1>6. CASE P!CheckRows(r) /\ ~P!Conflict(placements[r].game, placements[r].udp)
  <2> DEFINE first == placements[r].at = "picked"
             new == [placements[r] EXCEPT !.seen = P!Rows, !.at = IF first THEN "check" ELSE "inserting",
                                          !.answer = IF first THEN "waiting" ELSE "ok"]
  <2>1. /\ placements[r].at = "picked" \/ P!At(r, "inspect", "ok")
        /\ placements' = [placements EXCEPT ![r] = new]
        /\ asked' \in {asked, Append(asked, <<"check", r>>)}
    <3>1. ~(P!Conflict(placements[r].game, placements[r].udp) /\ P!Goes(r, "done") /\ UNCHANGED asked)
      BY <1>6
    <3> QED BY <3>1, <1>6, <1>1 DEF P!CheckRows, PlaceTyped, PlaceRequest
  <2>2. r \notin P!Rows /\ Compared(placements[r])
    BY <1>3, <2>1 DEF Compared, P!At
  <2>3. new \in PlaceRequest
    BY <1>1 DEF PlaceRequest, P!Rows, P!Stages
  <2>4. placements'[r] = new
    BY <2>1 DEF PlaceTyped
  <2>5. \A y \in P!Rows : servers[y].udp # placements[r].udp
    BY <1>6 DEF P!Conflict
  <2>6. Further(r)
    BY <1>1, <2>2, <2>3, <2>4, <2>5 DEF Further, Compared, PlaceRequest, PortsKnown
  <2> HIDE DEF new
  <2> QED BY <1>2, <2>1, <2>3, <2>6, HandlerFrame
<1> QED BY <1>4, <1>5, <1>6 DEF P!CheckRows

\* A row is inserted under a name and a game port no other has, and under a UDP port that
\* none has that was seen; none has seen it yet.
LEMMA InsertKeeps ==
  ASSUME PlaceInv0, NEW r \in Requests, P!Insert(r)
  PROVE  PlaceInv0'
<1> USE DEF PlaceInv0
<1> DEFINE req == placements[r]
<1>1. req \in PlaceRequest /\ Compared(req) /\ req.at \in {"check", "inserting"}
  BY PlaceSorts DEF P!Insert, P!At, PlaceTyped, Compared
<1>2. r \notin P!Rows /\ req.game # 0 /\ req.udp # 0
  BY <1>1 DEF RowsMatch, RowMatches, PortsKnown
<1>3. UNCHANGED <<adopting, containers, bound, places, happened>>
  BY DEF P!Insert, P!hostVars
<1>4. CASE P!Goes(r, "done") /\ UNCHANGED <<servers, asked>>
  <2> DEFINE new == [placements[r] EXCEPT !.at = "done", !.answer = "waiting"]
  <2>1. placements' = [placements EXCEPT ![r] = new]
    BY <1>4 DEF P!Goes, PlaceTyped
  <2>2. new \in PlaceRequest
    BY <1>1 DEF PlaceRequest
  <2>3. placements'[r] = new
    BY <2>1 DEF PlaceTyped
  <2>4. Further(r)
    BY <1>1, <2>2, <2>3 DEF Further, Compared, PlaceRequest
  <2> HIDE DEF new
  <2> QED BY <1>3, <1>4, <2>1, <2>2, <2>4, HandlerFrame
<1>5. CASE P!Unique(r) /\ ~(P!Goes(r, "done") /\ UNCHANGED <<servers, asked>>)
  <2> DEFINE row_ == [status |-> IF req.kind = "create" THEN "creating" ELSE "adopting", name |-> req.name,
                     game |-> req.game, udp |-> req.udp, rcon |-> req.rcon, container |-> "none",
                     seen |-> req.seen]
             new == [placements[r] EXCEPT !.at = req.kind, !.answer = "waiting"]
  <2>1. /\ servers' = [servers EXCEPT ![r] = row_] /\ placements' = [placements EXCEPT ![r] = new]
        /\ asked' = Append(asked, <<req.kind, r>>)
    BY <1>5 DEF P!Insert, P!Asks, P!Goes, PlaceTyped
  <2>2. /\ row_ \in PlaceRow /\ row_.name = req.name /\ row_.game = req.game /\ row_.udp = req.udp
        /\ row_.seen = req.seen /\ row_.rcon = req.rcon
    BY <1>1, <1>2 DEF PlaceRow, PlaceRequest
  <2>3. /\ new \in PlaceRequest /\ new.at \in {"create", "adopt"} /\ new.name = req.name /\ new.game = req.game
        /\ new.udp = req.udp /\ new.kind = req.kind /\ new.seen = req.seen /\ new.at = new.kind /\ ~Compared(new)
    BY <1>1 DEF PlaceRequest, P!Stages, Compared
  <2> HIDE DEF row_, new
  <2>4. servers'[r] = row_ /\ placements'[r] = new
        /\ \A x \in Requests \ {r} : servers'[x] = servers[x] /\ placements'[x] = placements[x]
    BY <2>1 DEF PlaceTyped
  <2>5. P!Rows' = P!Rows \cup {r} /\ r \notin P!Rows /\ P!Rows \subseteq Requests
    BY <1>2, <2>2, <2>4, PlaceSorts DEF P!Rows
  <2>6. PlaceTyped'
    <3>1. <<req.kind, r>> \in PlaceQuestion
      BY <1>1 DEF PlaceRequest, PlaceQuestion
    <3>2. asked' \in Seq(PlaceQuestion)
      BY <2>1, <3>1 DEF PlaceTyped
    <3> QED BY <1>3, <2>1, <2>2, <2>3, <3>2 DEF PlaceTyped
  <2>7. req.seen \subseteq P!Rows /\ \A x \in req.seen : servers[x].udp # req.udp
    BY <1>1 DEF SeenDiffer
  <2>8. RowsMatch'
    BY <2>2, <2>3, <2>4, <2>5, <2>7 DEF RowsMatch, RowMatches
  <2>9. PortsKnown' /\ SeenDiffer' /\ Inserted'
    BY <2>3, <2>4, <2>5 DEF PortsKnown, SeenDiffer, Inserted
  <2>10. Maxima'
    <3>1. \A x \in P!Rows' : servers'[x].game \in Nat /\ servers'[x].rcon \in Nat
      BY <2>6, <2>5 DEF PlaceTyped, P!Rows, PlaceRow
    <3>2. \E m \in P!Rows' : \A x \in P!Rows' : servers'[x].game <= servers'[m].game
      BY <3>1, <2>4, <2>5 DEF Maxima
    <3>3. \E m \in P!Rows' : \A x \in P!Rows' : servers'[x].rcon <= servers'[m].rcon
      BY <3>1, <2>4, <2>5 DEF Maxima
    <3> QED BY <3>2, <3>3 DEF Maxima
  <2>11. AskedWell'
    <3> DEFINE Ops == {"check", "inspect", "create", "adopt"}
    <3>1. \A op, x : Questioned(op, x) /\ x \in Requests => Questioned(op, x)'
      BY <2>3, <2>4, <2>5 DEF Questioned
    <3>2. r \in P!Rows' /\ placements'[r].kind = req.kind
      BY <2>3, <2>4, <2>5
    <3>3. \A i \in 1 .. Len(asked) : asked[i] \in PlaceQuestion /\ asked'[i] = asked[i]
      BY <2>1 DEF PlaceTyped
    <3>4. Len(asked') = Len(asked) + 1 /\ asked'[Len(asked) + 1] = <<req.kind, r>> /\ Len(asked) \in Nat
      BY <2>1 DEF PlaceTyped
    <3>5. \A j \in 1 .. Len(asked') :
            \/ asked'[j] = <<req.kind, r>>
            \/ \E x \in Requests, op \in Ops : asked'[j][1] = op /\ asked'[j][2] = x /\ Questioned(op, x)
      BY <3>3, <3>4 DEF AskedWell, PlaceQuestion
    <3>7. (\A j \in 1 .. Len(asked) : Questioned(asked[j][1], asked[j][2]))'
      <4> HIDE DEF PlaceInv0
      <4>1. ASSUME NEW j \in 1 .. Len(asked'), asked'[j][1] \in {"create", "adopt"}
            PROVE  asked'[j][2] \in P!Rows' /\ placements'[asked'[j][2]].kind = asked'[j][1]
        <5>1. CASE asked'[j] = <<req.kind, r>>
          BY <5>1, <3>2
        <5>2. CASE \E x \in Requests, op \in Ops : asked'[j][1] = op /\ asked'[j][2] = x /\ Questioned(op, x)
          <6>1. PICK x \in Requests, op \in Ops : asked'[j][1] = op /\ asked'[j][2] = x /\ Questioned(op, x)
            BY <5>2
          <6>2. Questioned(op, x)'
            BY <6>1, <3>1
          <6> QED BY <4>1, <6>1, <6>2 DEF Questioned
        <5> QED BY <3>5, <5>1, <5>2
      <4> QED BY <4>1 DEF Questioned
    <3>6. adopting # P!Nobody => adopting.of \in Requests
      BY DEF PlaceTyped
    <3> QED BY <1>3, <3>1, <3>6, <3>7 DEF AskedWell
  <2>12. P!PortsApart'
    <3>1. \A x \in P!Rows : /\ servers[x].name # req.name /\ servers[x].game # req.game
                            /\ servers[x].udp = req.udp => x \notin req.seen
                            /\ r \notin servers[x].seen
      BY <1>5, <2>5, <2>7 DEF P!Unique, RowsMatch, RowMatches
    <3> QED BY <3>1, <2>2, <2>4, <2>5 DEF P!PortsApart
  <2> QED BY <2>6, <2>8, <2>9, <2>10, <2>11, <2>12
<1> QED BY <1>4, <1>5 DEF P!Insert

LEMMA FinishKeeps ==
  ASSUME PlaceInv0, NEW r \in Requests, P!Finish(r)
  PROVE  PlaceInv0'
<1> USE DEF PlaceInv0
<1>1. /\ placements[r] \in PlaceRequest /\ placements[r].at \in {"create", "adopt"}
      /\ UNCHANGED <<asked, adopting, containers, bound, places, happened>>
  BY PlaceSorts DEF P!Finish, PlaceTyped, P!hostVars
<1> DEFINE new == [placements[r] EXCEPT !.at = "done", !.answer = "waiting"]
<1>2. placements' = [placements EXCEPT ![r] = new]
  BY DEF P!Finish, P!Goes, PlaceTyped
<1>3. new \in PlaceRequest
  BY <1>1 DEF PlaceRequest
<1>4. placements'[r] = new
  BY <1>2 DEF PlaceTyped
<1>5. Further(r)
  BY <1>1, <1>3, <1>4 DEF Further, Compared, PlaceRequest
<1> HIDE DEF new
<1>6. \A x \in Requests : Follows(x)
  BY <1>2, <1>5 DEF Follows, PlaceTyped
<1>7. servers' \in [Requests -> {P!NoRow} \cup PlaceRow] /\ \A x \in Requests : SameRow(x)
  <2>1. servers[r] \in PlaceRow /\ r \in P!Rows
    BY <1>1 DEF Inserted, P!Rows, PlaceTyped
  <2>2. /\ servers'[r] \in PlaceRow /\ \A x \in Requests \ {r} : servers'[x] = servers[x]
        /\ servers' \in [Requests -> {P!NoRow} \cup PlaceRow]
        /\ servers'[r].name = servers[r].name /\ servers'[r].game = servers[r].game
        /\ servers'[r].udp = servers[r].udp /\ servers'[r].rcon = servers[r].rcon
        /\ servers'[r].seen = servers[r].seen
    BY <2>1 DEF P!Finish, PlaceTyped, PlaceRow, P!Ids
  <2> QED BY <2>1, <2>2, PlaceSorts DEF SameRow
<1> QED BY <1>1, <1>2, <1>3, <1>6, <1>7, PlaceFrame DEF AskedWell, FewerQuestions, PlaceTyped

\* The agent takes a question, answers it, and makes what has a row.
LEMMA TakesOne ==
  ASSUME PlaceInv0, NEW op, NEW r, P!Takes(op, r)
  PROVE  /\ asked' \in Seq(PlaceQuestion) /\ FewerQuestions /\ <<op, r>> \in PlaceQuestion /\ Questioned(op, r)
         /\ adopting = P!Nobody
<1>1. asked \in Seq(PlaceQuestion) /\ asked # <<>> /\ asked' = Tail(asked) /\ asked[1] = <<op, r>>
  BY DEF PlaceInv0, PlaceTyped, P!Takes
<1>2. Len(asked) \in Nat \ {0} /\ Len(asked') = Len(asked) - 1 /\ \A j \in 1 .. Len(asked') : asked'[j] = asked[j + 1]
  BY <1>1
<1>3. FewerQuestions
  BY <1>2 DEF FewerQuestions
<1>4. <<op, r>> \in PlaceQuestion /\ Questioned(asked[1][1], asked[1][2])
  BY <1>1, <1>2 DEF PlaceInv0, AskedWell
<1>5. Questioned(op, r)
  BY <1>1, <1>4
<1> QED BY <1>1, <1>3, <1>4, <1>5 DEF P!Takes

LEMMA ReplyFollows ==
  ASSUME PlaceInv0, NEW op, NEW r \in Requests, NEW answer \in {"ok", "no"}, P!Reply(op, r, answer),
         op = "inspect" => answer = "no"
  PROVE  placements' \in [Requests -> {P!Idle} \cup PlaceRequest] /\ \A x \in Requests : Follows(x)
<1> USE DEF PlaceInv0
<1>1. CASE placements' = placements
  BY <1>1 DEF Follows, PlaceTyped
<1>2. CASE placements[r].at = op /\ placements[r].answer = "waiting" /\ placements # placements'
  <2> DEFINE new == [placements[r] EXCEPT !.answer = answer]
  <2>1. placements' = [placements EXCEPT ![r] = new]
    BY <1>2 DEF P!Reply
  <2>2. CASE placements[r] = P!Idle
    BY <1>2, <2>1, <2>2 DEF P!Idle, PlaceTyped
  <2>3. CASE placements[r] \in PlaceRequest
    <3>1. new \in PlaceRequest /\ placements'[r] = new
      BY <2>1, <2>3 DEF PlaceRequest, PlaceTyped
    <3>2. Further(r)
      BY <1>2, <2>3, <3>1 DEF Further, Compared, PlaceRequest, PortsKnown, SeenDiffer, Inserted, RowsMatch, RowMatches
    <3> QED BY <2>1, <3>1, <3>2 DEF Follows, PlaceTyped
  <2> QED BY <2>2, <2>3 DEF PlaceTyped
<1> QED BY <1>1, <1>2 DEF P!Reply

LEMMA StartsTyped ==
  ASSUME PlaceInv0, NEW r \in P!Rows, NEW op \in {"create", "adopt"},
         NEW host \in [P!Ids -> {P!Gone} \cup PlaceContainer], P!Starts(r, op, host)
  PROVE  /\ containers' \in [P!Ids -> {P!Gone} \cup PlaceContainer]
         /\ placements' \in [Requests -> {P!Idle} \cup PlaceRequest] /\ \A x \in Requests : Follows(x)
<1> USE DEF PlaceInv0
<1>1. r \in Requests /\ placements[r] \in PlaceRequest /\ placements[r].game # 0 /\ placements[r].udp # 0
  BY DEF RowsMatch, RowMatches, P!Rows, PlaceTyped, PlaceRow
<1>2. P!Made(r, host) \in [P!Ids -> {P!Gone} \cup PlaceContainer]
  BY <1>1 DEF P!Made, PlaceContainer, PlaceRequest, P!Places
<1>3. \E answer \in {"ok", "no"} : P!Reply(op, r, answer)
  BY DEF P!Starts
<1>4. containers' \in {P!Made(r, host), host}
  BY DEF P!Starts
<1> QED BY <1>1, <1>2, <1>3, <1>4, ReplyFollows

LEMMA AgentKeeps ==
  ASSUME P!PlacementAssumption, PlaceInv0, NEW r \in Requests, P!AgentStep(r)
  PROVE  PlaceInv0'
<1> USE DEF PlaceInv0
<1>1. ASSUME placements' \in [Requests -> {P!Idle} \cup PlaceRequest], \A x \in Requests : Follows(x),
             asked' \in Seq(PlaceQuestion), FewerQuestions, adopting' = P!Nobody,
             containers' \in [P!Ids -> {P!Gone} \cup PlaceContainer], places' \in [P!Places -> Worlds],
             happened' \subseteq {"late", "mountless", "raced", "shared"}, UNCHANGED <<servers, bound>>
      PROVE  PlaceInv0'
  <2>1. PlaceTyped'
    BY <1>1 DEF PlaceTyped
  <2> QED BY <1>1, <2>1, PlaceFrame DEF SameRow
<1>2. CASE P!CheckPortAvailability(r)
  <2>1. P!Takes("check", r) /\ \E answer \in {"ok", "no"} : P!Reply("check", r, answer)
    BY <1>2 DEF P!CheckPortAvailability
  <2>2. placements' \in [Requests -> {P!Idle} \cup PlaceRequest] /\ \A x \in Requests : Follows(x)
    BY <2>1, ReplyFollows
  <2> QED BY <1>1, <1>2, <2>1, <2>2, TakesOne DEF P!CheckPortAvailability, P!hostVars, PlaceTyped
<1>3. CASE P!InspectContainer(r)
  <2>1. P!Takes("inspect", r)
    BY <1>3 DEF P!InspectContainer
  <2>2. placements' \in [Requests -> {P!Idle} \cup PlaceRequest] /\ \A x \in Requests : Follows(x)
    <3>1. CASE P!Reply("inspect", r, "no")
      BY <3>1, ReplyFollows
    <3>2. CASE UNCHANGED placements
      BY <3>2 DEF PlaceTyped, Follows
    <3>3. CASE /\ containers["old"] # P!Gone /\ P!At(r, "inspect", "waiting")
               /\ placements' = [placements EXCEPT ![r].answer = "ok", ![r].udp = containers["old"].udp,
                    ![r].game = IF @ = 0 THEN containers["old"].game ELSE @]
      <4> DEFINE q == placements[r]
                 old == containers["old"]
                 new == [q EXCEPT !.answer = "ok", !.udp = old.udp, !.game = IF @ = 0 THEN old.game ELSE @]
      <4>1. old \in PlaceContainer /\ q \in PlaceRequest /\ q.at = "inspect" /\ r \notin P!Rows
        BY <3>3, PlaceSorts DEF P!Ids, PlaceTyped, P!At, RowsMatch, RowMatches
      <4>2. placements' = [placements EXCEPT ![r] = new]
        BY <3>3, <4>1 DEF PlaceTyped, PlaceRequest
      <4>3. new \in PlaceRequest /\ new.at = "inspect" /\ new.game # 0 /\ new.udp # 0
        BY <4>1 DEF PlaceContainer, PlaceRequest
      <4> HIDE DEF new
      <4>4. Further(r)
        BY <4>1, <4>2, <4>3 DEF Further, PlaceTyped
      <4> QED BY <4>2, <4>3, <4>4 DEF PlaceTyped, Follows
    <3> QED BY <1>3, <3>1, <3>2, <3>3 DEF P!InspectContainer
  <2> QED BY <1>1, <1>3, <2>1, <2>2, TakesOne DEF P!InspectContainer, P!hostVars, PlaceTyped
<1>4. CASE P!CreateServer(r)
  <2>1. P!Takes("create", r) /\ UNCHANGED <<servers, adopting, bound>>
    BY <1>4 DEF P!CreateServer
  <2>2. r \in P!Rows
    BY <2>1, TakesOne DEF Questioned
  <2>3. containers \in [P!Ids -> {P!Gone} \cup PlaceContainer] /\ placements[r].name \in P!Places
    BY <2>2 DEF PlaceTyped, RowsMatch, RowMatches, PlaceRequest, P!Places
  <2>4. /\ containers' \in [P!Ids -> {P!Gone} \cup PlaceContainer]
        /\ placements' \in [Requests -> {P!Idle} \cup PlaceRequest] /\ \A x \in Requests : Follows(x)
    BY <1>4, <2>2, <2>3, StartsTyped, ReplyFollows DEF P!CreateServer
  <2>5. places' \in [P!Places -> Worlds] /\ happened' \subseteq {"late", "mountless", "raced", "shared"}
    BY <1>4, <2>3 DEF P!CreateServer, P!Directory, PlaceTyped, Worlds
  <2> QED BY <1>1, <2>1, <2>4, <2>5, TakesOne
<1>5. CASE P!AdoptBegins(r)
  <2>1. P!Takes("adopt", r) /\ UNCHANGED <<servers, bound, happened>>
    BY <1>5 DEF P!AdoptBegins
  <2>2. CASE containers["old"] = P!Gone
    <3>1. P!Reply("adopt", r, "no") /\ UNCHANGED <<adopting, containers, places>>
      BY <1>5, <2>2 DEF P!AdoptBegins
    <3>2. placements' \in [Requests -> {P!Idle} \cup PlaceRequest] /\ \A x \in Requests : Follows(x)
      BY <3>1, ReplyFollows
    <3> QED BY <1>1, <2>1, <3>1, <3>2, TakesOne DEF PlaceTyped
  <2>3. CASE containers["old"] # P!Gone
    <3>1. PICK runs_ \in BOOLEAN :
            /\ containers' = [containers EXCEPT !["old"].runs = runs_] /\ adopting' = [of |-> r, runs |-> runs_]
            /\ places' = P!Directory(placements[r].name) /\ UNCHANGED placements
      BY <1>5, <2>3 DEF P!AdoptBegins, PlaceTyped, P!Ids, PlaceContainer
    <3>2. r \in P!Rows /\ Questioned("adopt", r)
      BY <2>1, TakesOne DEF Questioned
    <3>3. placements[r].name \in P!Places
      BY <3>2 DEF PlaceTyped, RowsMatch, RowMatches, PlaceRequest, P!Places
    <3>4. places' \in [P!Places -> Worlds]
      BY <3>1, <3>3 DEF P!Directory, PlaceTyped, Worlds
    <3>5. "old" \in P!Ids /\ containers["old"] \in PlaceContainer
      BY <2>3 DEF P!Ids, PlaceTyped
    <3>6. containers' \in [P!Ids -> {P!Gone} \cup PlaceContainer] /\ containers'["old"] \in PlaceContainer
      BY <3>1, <3>5 DEF PlaceTyped, PlaceContainer
    <3>7. PlaceTyped'
      BY <2>1, <3>1, <3>4, <3>6, TakesOne DEF PlaceTyped
    <3> QED BY <2>1, <3>1, <3>2, <3>6, <3>7, PlaceFrame, PlaceSorts, TakesOne DEF Follows, SameRow
  <2> QED BY <2>2, <2>3
<1>6. CASE P!CopyFails(r) \/ P!AdoptEnds(r)
  <2>1. adopting # P!Nobody /\ adopting.of = r /\ UNCHANGED <<servers, asked, bound, happened>> /\ adopting' = P!Nobody
    BY <1>6 DEF P!CopyFails, P!AdoptEnds
  <2>2. r \in P!Rows /\ containers["old"] # P!Gone /\ "old" \in P!Ids /\ FewerQuestions
    BY <2>1 DEF AskedWell, Questioned, P!Ids, FewerQuestions
  <2>3. placements[r].name \in P!Places /\ containers["old"] \in PlaceContainer
    BY <2>2 DEF PlaceTyped, RowsMatch, RowMatches, PlaceRequest, P!Places
  <2>4. /\ [containers EXCEPT !["old"] = P!Gone] \in [P!Ids -> {P!Gone} \cup PlaceContainer]
    BY DEF PlaceTyped
  <2>5. /\ containers' \in [P!Ids -> {P!Gone} \cup PlaceContainer]
        /\ placements' \in [Requests -> {P!Idle} \cup PlaceRequest] /\ \A x \in Requests : Follows(x)
    <3>1. CASE P!CopyFails(r)
      BY <3>1, ReplyFollows DEF P!CopyFails, PlaceTyped
    <3>2. CASE P!AdoptEnds(r)
      BY <3>2, <2>2, <2>4, StartsTyped, ReplyFollows DEF P!AdoptEnds, PlaceTyped
    <3> QED BY <1>6, <3>1, <3>2
  <2>6. places' \in [P!Places -> Worlds]
    BY <1>6, <2>3 DEF P!CopyFails, P!AdoptEnds, PlaceTyped, Worlds, PlaceContainer
  <2> QED BY <1>1, <2>1, <2>2, <2>5, <2>6 DEF PlaceTyped
<1> QED BY <1>2, <1>3, <1>4, <1>5, <1>6 DEF P!AgentStep

LEMMA PlaceStep0 ==
  ASSUME P!PlacementAssumption, PlaceInv0, [P!PlacementNext]_placeVars
  PROVE  PlaceInv0'
<1>1. CASE UNCHANGED placeVars
  BY <1>1 DEF placeVars, PlaceInv0, PlaceTyped, RowsMatch, RowMatches, Inserted, PortsKnown, Compared, SeenDiffer,
       Maxima, AskedWell, Questioned, P!PortsApart, P!Rows
<1>2. CASE P!PlacementNext
  BY <1>2, HostKeeps, BeginKeeps, AnswersKeep, InsertKeeps, FinishKeeps, AgentKeeps
     DEF P!PlacementNext, P!HandlerStep
<1> QED BY <1>1, <1>2

\* As long as nobody gives up waiting, each question on its way is its request's only one, and
\* the handler waits for it; and so with the adoption that is under way.
Waiting(op, r) == placements[r].at = op /\ placements[r].answer = "waiting"
Patient ==
  /\ \A i \in 1 .. Len(asked) : Waiting(asked[i][1], asked[i][2])
  /\ \A i, j \in 1 .. Len(asked) : asked[i][2] = asked[j][2] => i = j
  /\ adopting # P!Nobody =>
       Waiting("adopt", adopting.of) /\ \A i \in 1 .. Len(asked) : asked[i][2] # adopting.of

\* ... and a container that was made is one the row has, or its handler knows of.
There(c) == containers[c] # P!Gone
Known(r) ==
  There(r) => /\ r \in P!Rows
              /\ \/ servers[r].container = r
                 \/ placements[r].at \in {"create", "adopt"} /\ placements[r].answer = "ok"
OwnedInv == "late" \notin happened => Patient /\ \A r \in Requests : Known(r)

\* A handler that nothing is asked for may ask a question.
LEMMA AskerWaits ==
  ASSUME PlaceInv0, Patient, NEW r \in Requests,
         placements[r].answer # "waiting" \/ placements[r].at \notin {"check", "inspect", "create", "adopt"},
         \A x \in Requests \ {r} : placements'[x] = placements[x], adopting' = adopting,
         \/ asked' = asked
         \/ \E op \in {"check", "inspect", "create", "adopt"} :
              asked' = Append(asked, <<op, r>>) /\ placements'[r].at = op /\ placements'[r].answer = "waiting"
  PROVE  Patient'
<1>1. /\ \A i \in 1 .. Len(asked) : asked[i] \in PlaceQuestion
      /\ adopting # P!Nobody => adopting.of \in Requests
      /\ asked \in Seq(PlaceQuestion)
  BY DEF PlaceInv0, PlaceTyped
<1>2. /\ \A i \in 1 .. Len(asked) : asked[i][2] \in Requests \ {r}
      /\ adopting # P!Nobody => adopting.of \in Requests \ {r}
  BY <1>1 DEF Patient, Waiting, PlaceQuestion
<1>3. CASE asked' = asked
  BY <1>2, <1>3 DEF Patient, Waiting
<1>4. ASSUME NEW op \in {"check", "inspect", "create", "adopt"}, asked' = Append(asked, <<op, r>>),
             placements'[r].at = op, placements'[r].answer = "waiting"
      PROVE  Patient'
  <2>1. /\ Len(asked) \in Nat /\ Len(asked') = Len(asked) + 1 /\ asked'[Len(asked) + 1] = <<op, r>>
        /\ \A i \in 1 .. Len(asked) : asked'[i] = asked[i]
    BY <1>1, <1>4
  <2>2. <<op, r>>[1] = op /\ <<op, r>>[2] = r
    OBVIOUS
  <2> DEFINE n == Len(asked)
  <2> HIDE DEF n
  <2>3. /\ n \in Nat /\ Len(asked') = n + 1 /\ asked'[n + 1] = <<op, r>>
        /\ \A i \in 1 .. n : /\ asked'[i] = asked[i] /\ asked[i][2] \in Requests \ {r}
                            /\ Waiting(asked[i][1], asked[i][2])
        /\ \A i, j \in 1 .. n : asked[i][2] = asked[j][2] => i = j
    BY <2>1, <1>2 DEF n, Patient
  <2>4. \A i \in 1 .. Len(asked') : i \in 1 .. n \/ i = n + 1
    BY <2>3
  <2>5. \A i \in 1 .. Len(asked') :
          placements'[asked'[i][2]].at = asked'[i][1] /\ placements'[asked'[i][2]].answer = "waiting"
    BY <1>4, <2>2, <2>3, <2>4 DEF Waiting
  <2>6. /\ asked'[n + 1][2] = r
        /\ \A i \in 1 .. n : asked'[i][2] = asked[i][2] /\ asked'[i][2] # r
        /\ \A i, j \in 1 .. n : asked[i][2] = asked[j][2] => i = j
        /\ \A i \in 1 .. Len(asked') : i \in 1 .. n \/ i = n + 1
    BY <2>2, <2>3, <2>4
  <2>7. \A i, j \in 1 .. Len(asked') : asked'[i][2] = asked'[j][2] => i = j
    <3> SUFFICES ASSUME NEW i \in 1 .. Len(asked'), NEW j \in 1 .. Len(asked'), asked'[i][2] = asked'[j][2]
                 PROVE  i = j
      OBVIOUS
    <3> QED BY <2>6
  <2>8. adopting # P!Nobody => /\ placements'[adopting.of].at = "adopt" /\ placements'[adopting.of].answer = "waiting"
                               /\ \A i \in 1 .. Len(asked') : asked'[i][2] # adopting.of
    <3>1. adopting # P!Nobody => /\ Waiting("adopt", adopting.of) /\ adopting.of # r
                                 /\ placements'[adopting.of] = placements[adopting.of]
                                 /\ \A i \in 1 .. n : asked[i][2] # adopting.of
      BY <1>2 DEF Patient, n
    <3> QED BY <3>1, <2>6 DEF Waiting
  <2> QED BY <2>5, <2>7, <2>8 DEF Patient, Waiting
<1> QED BY <1>3, <1>4

\* The agent takes a question, which is answered or becomes the adoption under way.
LEMMA TakerWaits ==
  ASSUME PlaceInv0, Patient, NEW op, NEW r \in Requests, P!Takes(op, r),
         \A x \in Requests \ {r} : placements'[x] = placements[x],
         \/ adopting' = P!Nobody
         \/ op = "adopt" /\ adopting'.of = r /\ UNCHANGED placements
  PROVE  Patient' /\ Waiting(op, r)
<1>1. asked \in Seq(PlaceQuestion) /\ asked # <<>> /\ asked' = Tail(asked) /\ asked[1] = <<op, r>>
  BY DEF PlaceInv0, PlaceTyped, P!Takes
<1>2. Len(asked) \in Nat \ {0} /\ Len(asked') = Len(asked) - 1 /\ \A j \in 1 .. Len(asked') : asked'[j] = asked[j + 1]
  BY <1>1
<1>3. \A i \in 1 .. Len(asked) : asked[i][2] \in Requests
  BY <1>1 DEF PlaceQuestion
<1>4. <<op, r>>[1] = op /\ <<op, r>>[2] = r
  OBVIOUS
<1>5. Waiting(op, r)
  BY <1>1, <1>2, <1>4 DEF Patient
<1> DEFINE n == Len(asked)
<1> HIDE DEF n
<1>6. /\ n \in Nat \ {0} /\ Len(asked') = n - 1 /\ asked[1][2] = r
      /\ \A i \in 1 .. n : asked[i][2] \in Requests /\ Waiting(asked[i][1], asked[i][2])
      /\ \A i, j \in 1 .. n : asked[i][2] = asked[j][2] => i = j
  BY <1>1, <1>2, <1>3, <1>4 DEF Patient, n
<1>7. \A j \in 1 .. Len(asked') : j + 1 \in 1 .. n /\ j + 1 # 1 /\ asked'[j] = asked[j + 1]
  BY <1>2, <1>6
<1>8. \A j \in 1 .. Len(asked') : asked'[j][2] \in Requests \ {r} /\ Waiting(asked'[j][1], asked'[j][2])
  <2>1. 1 \in 1 .. n
    BY <1>6
  <2> QED BY <2>1, <1>6, <1>7
<1>9. \A i, j \in 1 .. Len(asked') : asked'[i][2] = asked'[j][2] => i = j
  <2> SUFFICES ASSUME NEW i \in 1 .. Len(asked'), NEW j \in 1 .. Len(asked'), asked'[i][2] = asked'[j][2]
               PROVE  i = j
    OBVIOUS
  <2>1. i + 1 = j + 1
    BY <1>6, <1>7
  <2> QED BY <2>1, <1>6
<1>10. \A j \in 1 .. Len(asked') :
         placements'[asked'[j][2]].at = asked'[j][1] /\ placements'[asked'[j][2]].answer = "waiting"
  BY <1>8 DEF Waiting
<1>11. adopting' # P!Nobody => /\ placements'[adopting'.of].at = "adopt" /\ placements'[adopting'.of].answer = "waiting"
                               /\ \A i \in 1 .. Len(asked') : asked'[i][2] # adopting'.of
  BY <1>5, <1>8 DEF Waiting
<1> QED BY <1>5, <1>9, <1>10, <1>11 DEF Patient, Waiting

\* The agent's steps change one request, and no row.
LEMMA AnswersOne ==
  ASSUME PlaceInv0, NEW r \in Requests, P!AgentStep(r)
  PROVE  /\ UNCHANGED servers
         /\ \A x \in Requests \ {r} : placements'[x] = placements[x]
         /\ placements[r] \in PlaceRequest => placements'[r].kind = placements[r].kind
<1>1. placements \in [Requests -> {P!Idle} \cup PlaceRequest]
  BY DEF PlaceInv0, PlaceTyped
<1>2. ASSUME NEW op, NEW answer, P!Reply(op, r, answer)
      PROVE  /\ \A x \in Requests \ {r} : placements'[x] = placements[x]
             /\ placements[r] \in PlaceRequest => placements'[r].kind = placements[r].kind
  BY <1>1, <1>2 DEF P!Reply, PlaceRequest
<1>3. CASE \E op \in {"check", "inspect", "create", "adopt"}, answer \in {"ok", "no"} : P!Reply(op, r, answer)
  BY <1>2, <1>3 DEF P!AgentStep, P!CheckPortAvailability, P!InspectContainer, P!CreateServer, P!AdoptBegins,
     P!CopyFails, P!AdoptEnds
<1>4. CASE UNCHANGED placements
  BY <1>4 DEF P!AgentStep, P!CheckPortAvailability, P!InspectContainer, P!CreateServer, P!AdoptBegins,
     P!CopyFails, P!AdoptEnds
<1>5. CASE /\ P!InspectContainer(r)
           /\ placements' = [placements EXCEPT ![r].answer = "ok", ![r].udp = containers["old"].udp,
                ![r].game = IF @ = 0 THEN containers["old"].game ELSE @]
  BY <1>1, <1>5 DEF P!InspectContainer, PlaceRequest
<1>6. ASSUME NEW op \in {"create", "adopt"}, NEW host, P!Starts(r, op, host)
      PROVE  \E answer \in {"ok", "no"} : P!Reply(op, r, answer)
  BY <1>6 DEF P!Starts
<1>7. P!CheckPortAvailability(r) => \E answer \in {"ok", "no"} : P!Reply("check", r, answer)
  BY DEF P!CheckPortAvailability
<1> QED BY <1>3, <1>4, <1>5, <1>6, <1>7 DEF P!AgentStep, P!InspectContainer, P!CreateServer, P!AdoptBegins,
      P!CopyFails, P!AdoptEnds

\* What a row says of its name, and its request of its kind, stays.
LEMMA RowsStay ==
  ASSUME PlaceInv0, PlaceInv0', P!PlacementNext, NEW x \in P!Rows
  PROVE  x \in P!Rows' /\ servers'[x].name = servers[x].name /\ placements'[x].kind = placements[x].kind
<1>1. /\ x \in Requests /\ placements[x] \in PlaceRequest /\ placements[x].at \in {"create", "adopt", "done"}
      /\ servers[x] \in PlaceRow /\ servers \in [Requests -> {P!NoRow} \cup PlaceRow]
      /\ placements \in [Requests -> {P!Idle} \cup PlaceRequest]
  BY DEF PlaceInv0, RowsMatch, RowMatches, P!Rows, PlaceTyped
<1>2. placements'[x].kind = placements[x].kind
  <2>1. CASE UNCHANGED placements
    BY <2>1
  <2>2. ASSUME NEW r \in Requests, P!AgentStep(r) PROVE placements'[x].kind = placements[x].kind
    BY <1>1, <2>2, AnswersOne
  <2>3. ASSUME NEW r \in Requests, P!HandlerStep(r) PROVE placements'[x].kind = placements[x].kind
    <3>1. CASE P!CheckRows(r) \/ P!GiveUp(r) \/ P!Insert(r) \/ P!Finish(r) \/ P!Timeout(r) \/ P!Throw(r)
      BY <1>1, <3>1 DEF P!CheckRows, P!GiveUp, P!Insert, P!Finish, P!Timeout, P!Throw, P!Goes, P!Asks, PlaceRequest
    <3>2. CASE \E name \in Names, game \in Games \cup {0} :
                 P!BeginAdopt(r, name, game) \/ \E udp \in Udps \cup {0} : P!BeginCreate(r, name, game, udp)
      <4>1. placements[r] = P!Idle /\ \E q : placements' = [placements EXCEPT ![r] = q]
        BY <3>2 DEF P!BeginAdopt, P!BeginCreate
      <4>2. r # x
        BY <1>1, <4>1, PlaceSorts
      <4> QED BY <1>1, <4>1, <4>2
    <3> QED BY <2>3, <3>1, <3>2 DEF P!HandlerStep
  <2> QED BY <2>1, <2>2, <2>3 DEF P!PlacementNext, P!Bind, P!Save, P!StopOld
<1>3. servers'[x].name = servers[x].name /\ servers'[x] # P!NoRow
  <2>1. CASE UNCHANGED servers
    BY <1>1, <2>1, PlaceSorts
  <2>2. ASSUME NEW r \in Requests, P!Insert(r) PROVE servers'[x].name = servers[x].name /\ servers'[x] # P!NoRow
    <3>1. placements[r].at \in {"check", "inserting"}
      BY <2>2 DEF P!Insert, P!At
    <3>2. r # x
      BY <1>1, <3>1
    <3> QED BY <1>1, <2>2, <3>2, PlaceSorts DEF P!Insert
  <2>3. ASSUME NEW r \in Requests, P!Finish(r) PROVE servers'[x].name = servers[x].name /\ servers'[x] # P!NoRow
    <3>1. servers'[x] \in PlaceRow /\ servers'[x].name = servers[x].name
      BY <1>1, <2>3 DEF P!Finish, PlaceRow, P!Ids
    <3> QED BY <3>1, PlaceSorts
  <2>4. (\E r \in Requests : P!Insert(r) \/ P!Finish(r)) \/ UNCHANGED servers
    BY DEF P!PlacementNext, P!Bind, P!Save, P!StopOld, P!HandlerStep, P!BeginAdopt, P!BeginCreate, P!CheckRows,
       P!GiveUp, P!Timeout, P!Throw, P!AgentStep, P!CheckPortAvailability, P!InspectContainer, P!CreateServer,
       P!AdoptBegins, P!CopyFails, P!AdoptEnds
  <2> QED BY <2>1, <2>2, <2>3, <2>4
<1> QED BY <1>1, <1>2, <1>3 DEF P!Rows

\* What the agent does to the host: it changes the old container and the one of its request,
\* and that is there only once the handler has been told.
LEMMA HandlersOwn ==
  ASSUME PlaceInv0, PlaceInv0', OwnedInv, "late" \notin happened', NEW r \in Requests, P!HandlerStep(r)
  PROVE  Patient' /\ \A x \in Requests : Known(x)'
<1>1. "late" \notin happened /\ Patient /\ \A x \in Requests : Known(x)
  BY DEF OwnedInv, P!HandlerStep, P!BeginAdopt, P!BeginCreate, P!CheckRows, P!GiveUp, P!Insert, P!Finish, P!Timeout,
     P!Throw
<1>2. /\ placements \in [Requests -> {P!Idle} \cup PlaceRequest] /\ servers \in [Requests -> {P!NoRow} \cup PlaceRow]
      /\ UNCHANGED <<adopting, containers>> /\ \A x \in P!Rows : x \in P!Rows'
  BY RowsStay DEF PlaceInv0, PlaceTyped, P!HandlerStep, P!BeginAdopt, P!BeginCreate, P!CheckRows, P!GiveUp, P!Insert,
     P!Finish, P!Timeout, P!Throw, P!hostVars, P!PlacementNext
<1>3. \A x \in P!Rows : placements[x].at \in {"create", "adopt", "done"}
  BY DEF PlaceInv0, RowsMatch, RowMatches
<1>4. ASSUME placements[r].answer # "waiting" \/ placements[r].at \notin {"check", "inspect", "create", "adopt"},
             \A x \in Requests \ {r} : placements'[x] = placements[x] /\ servers'[x] = servers[x],
             Known(r)',
             \/ asked' = asked
             \/ \E op \in {"check", "inspect", "create", "adopt"} :
                  asked' = Append(asked, <<op, r>>) /\ placements'[r].at = op /\ placements'[r].answer = "waiting"
      PROVE  Patient' /\ \A x \in Requests : Known(x)'
  <2>1. Patient'
    BY <1>1, <1>2, <1>4, AskerWaits
  <2>2. ASSUME NEW x \in Requests \ {r} PROVE Known(x)'
    BY <1>1, <1>2, <1>4, <2>2 DEF Known, There
  <2> QED BY <1>4, <2>1, <2>2
<1>5. CASE \E name \in Names, game \in Games \cup {0} :
             P!BeginAdopt(r, name, game) \/ \E udp \in Udps \cup {0} : P!BeginCreate(r, name, game, udp)
  <2>1. /\ placements[r].at = "idle" /\ UNCHANGED servers
        /\ \A x \in Requests \ {r} : placements'[x] = placements[x]
    BY <1>2, <1>5, PlaceSorts DEF P!BeginAdopt, P!BeginCreate
  <2>2. \/ asked' = asked
        \/ asked' = Append(asked, <<"inspect", r>>) /\ placements'[r].at = "inspect" /\ placements'[r].answer = "waiting"
    BY <1>2, <1>5 DEF P!BeginAdopt, P!BeginCreate
  <2>3. Known(r)'
    BY <1>1, <1>2, <1>3, <2>1 DEF Known, There
  <2> QED BY <1>4, <2>1, <2>2, <2>3
<1>6. CASE P!CheckRows(r) \/ P!GiveUp(r)
  <2>1. /\ placements[r] \in PlaceRequest
        /\ \/ placements[r].at = "picked"
           \/ placements[r].at \in {"check", "inspect"} /\ placements[r].answer # "waiting"
    BY <1>2, <1>6, PlaceSorts DEF P!CheckRows, P!GiveUp, P!At
  <2>2. /\ UNCHANGED servers /\ \A x \in Requests \ {r} : placements'[x] = placements[x]
        /\ \/ asked' = asked
           \/ asked' = Append(asked, <<"check", r>>) /\ placements'[r].at = "check" /\ placements'[r].answer = "waiting"
    BY <1>2, <1>6, <2>1 DEF P!CheckRows, P!GiveUp, P!Goes, PlaceRequest
  <2>3. Known(r)'
    BY <1>1, <1>2, <1>3, <2>1, <2>2 DEF Known, There
  <2> QED BY <1>4, <2>1, <2>2, <2>3
<1>7. CASE P!Insert(r)
  <2>1. /\ placements[r] \in PlaceRequest
        /\ placements[r].at \in {"check", "inserting"} /\ placements[r].answer = "ok"
    BY <1>2, <1>7, PlaceSorts DEF P!Insert, P!At
  <2>2. /\ \A x \in Requests \ {r} : placements'[x] = placements[x] /\ servers'[x] = servers[x]
        /\ \/ asked' = asked
           \/ \E op \in {"create", "adopt"} :
                asked' = Append(asked, <<op, r>>) /\ placements'[r].at = op /\ placements'[r].answer = "waiting"
    BY <1>2, <1>7, <2>1 DEF P!Insert, P!Goes, P!Asks, PlaceRequest
  <2>3. Known(r)'
    BY <1>1, <1>2, <1>3, <2>1 DEF Known, There
  <2> QED BY <1>4, <2>1, <2>2, <2>3
<1>8. CASE P!Finish(r)
  <2>1. /\ placements[r] \in PlaceRequest /\ placements[r].at \in {"create", "adopt"} /\ placements[r].answer # "waiting"
        /\ UNCHANGED asked
    BY <1>2, <1>8, PlaceSorts DEF P!Finish
  <2>2. r \in P!Rows /\ servers[r] \in PlaceRow
    BY <1>2, <2>1 DEF PlaceInv0, Inserted, P!Rows
  <2>3. /\ \A x \in Requests \ {r} : placements'[x] = placements[x] /\ servers'[x] = servers[x]
        /\ placements[r].answer = "ok" => servers'[r].container = r
        /\ placements[r].answer # "ok" => servers'[r].container = servers[r].container
    BY <1>2, <1>8, <2>2 DEF P!Finish, P!Goes, PlaceRow
  <2>4. Known(r)'
    BY <1>1, <1>2, <2>1, <2>2, <2>3 DEF Known, There
  <2> QED BY <1>4, <2>1, <2>3, <2>4
<1>9. ~P!Timeout(r) /\ ~P!Throw(r)
  BY DEF P!Timeout, P!Throw
<1> QED BY <1>5, <1>6, <1>7, <1>8, <1>9 DEF P!HandlerStep

LEMMA AgentOwns ==
  ASSUME PlaceInv0, PlaceInv0', OwnedInv, "late" \notin happened', NEW r \in Requests, P!AgentStep(r),
         P!PlacementAssumption
  PROVE  Patient' /\ \A x \in Requests : Known(x)'
<1>1. Patient /\ \A x \in Requests : Known(x)
  BY DEF OwnedInv, P!AgentStep, P!CheckPortAvailability, P!InspectContainer, P!CreateServer, P!AdoptBegins,
     P!CopyFails, P!AdoptEnds
<1>2. /\ placements \in [Requests -> {P!Idle} \cup PlaceRequest] /\ containers \in [P!Ids -> {P!Gone} \cup PlaceContainer]
      /\ UNCHANGED servers /\ P!Rows' = P!Rows /\ "old" \notin Requests /\ Requests \subseteq P!Ids
      /\ \A x \in Requests \ {r} : placements'[x] = placements[x]
  BY AnswersOne DEF PlaceInv0, PlaceTyped, P!Rows, P!PlacementAssumption, P!Ids
<1>3. ASSUME NEW op \in {"create", "adopt"}, Waiting(op, r), r \in P!Rows,
             \/ containers'[r] = containers[r] /\ (P!Reply(op, r, "no") \/ UNCHANGED placements)
             \/ P!Reply(op, r, "ok")
      PROVE  Known(r)'
  <2>1. placements[r] \in PlaceRequest /\ placements[r].at = op /\ placements[r].answer = "waiting"
    BY <1>2, <1>3, PlaceSorts DEF Waiting
  <2>2. CASE containers'[r] = containers[r]
    BY <1>1, <1>2, <1>3, <2>1, <2>2 DEF Known, There, P!Reply, PlaceRequest
  <2>3. CASE P!Reply(op, r, "ok")
    BY <1>2, <1>3, <2>1, <2>3 DEF Known, There, P!Reply, PlaceRequest
  <2> QED BY <1>3, <2>2, <2>3
<1>4. ASSUME Patient', Known(r)', \A x \in Requests \ {r} : containers'[x] = containers[x]
      PROVE  Patient' /\ \A x \in Requests : Known(x)'
  <2>1. ASSUME NEW x \in Requests \ {r} PROVE Known(x)'
    BY <1>1, <1>2, <1>4, <2>1 DEF Known, There
  <2> QED BY <1>4, <2>1
<1>5. ASSUME NEW op \in {"create", "adopt"}, P!Starts(r, op, containers) \/ P!Starts(r, op, [containers EXCEPT !["old"] = P!Gone])
      PROVE  /\ \A x \in Requests \ {r} : containers'[x] = containers[x]
             /\ (containers'[r] = containers[r] /\ P!Reply(op, r, "no")) \/ P!Reply(op, r, "ok")
  BY <1>2, <1>5 DEF P!Starts, P!Made
<1>6. CASE P!CheckPortAvailability(r) \/ P!InspectContainer(r)
  <2>1. PICK op \in {"check", "inspect"} : P!Takes(op, r)
    BY <1>6 DEF P!CheckPortAvailability, P!InspectContainer
  <2>2. adopting' = P!Nobody /\ UNCHANGED containers
    BY <1>6 DEF P!CheckPortAvailability, P!InspectContainer, P!Takes, P!hostVars
  <2>3. Patient' /\ Waiting(op, r)
    BY <1>1, <1>2, <2>1, <2>2, TakerWaits
  <2>4. Known(r)'
    BY <1>1, <1>2, <2>2, <2>3 DEF Known, There, Waiting
  <2> QED BY <1>4, <2>2, <2>3, <2>4
<1>7. CASE P!CreateServer(r)
  <2>1. P!Takes("create", r) /\ adopting' = P!Nobody
    BY <1>7 DEF P!CreateServer, P!Takes
  <2>2. Patient' /\ Waiting("create", r)
    BY <1>1, <1>2, <2>1, TakerWaits
  <2>3. r \in P!Rows
    BY <2>1, TakesOne DEF Questioned
  <2>4. /\ \A x \in Requests \ {r} : containers'[x] = containers[x]
        /\ (containers'[r] = containers[r] /\ P!Reply("create", r, "no")) \/ P!Reply("create", r, "ok")
    BY <1>5, <1>7 DEF P!CreateServer
  <2>5. Known(r)'
    BY <1>3, <2>2, <2>3, <2>4
  <2> QED BY <1>4, <2>2, <2>4, <2>5
<1>8. CASE P!AdoptBegins(r)
  <2>1. /\ P!Takes("adopt", r)
        /\ \/ P!Reply("adopt", r, "no") /\ UNCHANGED <<adopting, containers>>
           \/ adopting'.of = r /\ UNCHANGED placements /\ \E b : containers' = [containers EXCEPT !["old"].runs = b]
    <3>1. CASE containers["old"] # P!Gone
      <4>1. PICK b : containers' = [containers EXCEPT !["old"].runs = b] /\ adopting' = [of |-> r, runs |-> b]
        BY <1>8, <3>1 DEF P!AdoptBegins
      <4> QED BY <1>8, <3>1, <4>1 DEF P!AdoptBegins
    <3> QED BY <1>8, <3>1 DEF P!AdoptBegins
  <2>2. adopting' = P!Nobody \/ (adopting'.of = r /\ UNCHANGED placements)
    BY <2>1 DEF P!Takes
  <2>3. Patient' /\ Waiting("adopt", r)
    BY <1>1, <1>2, <2>1, <2>2, TakerWaits
  <2>4. r \in P!Rows
    BY <2>1, TakesOne DEF Questioned
  <2>5. \A x \in Requests : containers'[x] = containers[x]
    BY <1>2, <2>1
  <2>6. Known(r)'
    BY <1>3, <2>1, <2>3, <2>4, <2>5
  <2> QED BY <1>4, <2>3, <2>5, <2>6
<1>9. CASE P!CopyFails(r) \/ P!AdoptEnds(r)
  <2>1. adopting # P!Nobody /\ adopting.of = r /\ UNCHANGED asked /\ adopting' = P!Nobody
    BY <1>9 DEF P!CopyFails, P!AdoptEnds
  <2>2. Waiting("adopt", r) /\ r \in P!Rows
    BY <1>1, <2>1 DEF Patient, PlaceInv0, AskedWell, Questioned
  <2>3. Patient'
    <3>1. \A i \in 1 .. Len(asked) : asked[i][2] \in Requests \ {r}
      <4>1. \A i \in 1 .. Len(asked) : asked[i] \in PlaceQuestion
        BY DEF PlaceInv0, PlaceTyped
      <4> QED BY <4>1, <1>1, <2>1 DEF Patient, PlaceQuestion
    <3> QED BY <1>1, <1>2, <2>1, <3>1 DEF Patient, Waiting
  <2>4. /\ \A x \in Requests \ {r} : containers'[x] = containers[x]
        /\ (containers'[r] = containers[r] /\ P!Reply("adopt", r, "no")) \/ P!Reply("adopt", r, "ok")
    BY <1>5, <1>9 DEF P!CopyFails, P!AdoptEnds
  <2>5. Known(r)'
    BY <1>3, <2>2, <2>4
  <2> QED BY <1>4, <2>3, <2>4, <2>5
<1> QED BY <1>6, <1>7, <1>8, <1>9 DEF P!AgentStep

LEMMA OwnedStep ==
  ASSUME P!PlacementAssumption, PlaceInv0, PlaceInv0', OwnedInv, [P!PlacementNext]_placeVars
  PROVE  OwnedInv'
<1>1. CASE UNCHANGED placeVars
  BY <1>1 DEF placeVars, OwnedInv, Patient, Waiting, Known, There, P!Rows
<1>2. CASE (\E p \in Foreign : P!Bind(p)) \/ (\E c \in P!Ids : P!Save(c)) \/ P!StopOld
  <2>1. UNCHANGED <<servers, placements, asked, adopting>> /\ ("late" \in happened => "late" \in happened')
    BY <1>2 DEF P!Bind, P!Save, P!StopOld
  <2>2. \A x \in Requests : containers'[x] = containers[x]
    BY <1>2 DEF P!Bind, P!Save, P!StopOld, P!PlacementAssumption, P!Ids, PlaceInv0, PlaceTyped
  <2> QED BY <2>1, <2>2 DEF OwnedInv, Patient, Waiting, Known, There, P!Rows
<1>3. CASE \E r \in Requests : P!HandlerStep(r) \/ P!AgentStep(r)
  BY <1>3, HandlersOwn, AgentOwns DEF OwnedInv
<1> QED BY <1>1, <1>2, <1>3 DEF P!PlacementNext

\* Where the worlds are: as long as the old container is there, no container has been adopted,
\* and the newest world is in its directory, if that is one of the host and it alone plays in
\* it; afterwards it is in the directory of the one that was adopted.
Clean == happened \cap {"mountless", "raced", "shared"} = {}
Adopted(r) == There(r) /\ placements[r].kind = "adopt"
WorldAt(r) == (places[containers[r].place] = "world") <=> placements[r].kind = "adopt"
WorldsWell ==
  /\ There("old") => places[containers["old"].place] = "world" /\ containers["old"].place # "inside"
  /\ \A r \in Requests : There(r) => WorldAt(r)
Standard(r) == There(r) => r \in P!Rows /\ containers[r].place = servers[r].name
WorldsInv ==
  /\ \A r \in Requests : Standard(r)
  /\ There("old") => \A r \in Requests : ~Adopted(r)
  /\ \A r, x \in Requests : Adopted(r) /\ Adopted(x) => r = x
  /\ Clean => WorldsWell

LEMMA CleanBefore ==
  ASSUME P!PlacementNext
  PROVE  happened \subseteq happened' /\ (Clean' => Clean)
BY DEF Clean, P!PlacementNext, P!Bind, P!Save, P!StopOld, P!HandlerStep, P!BeginAdopt, P!BeginCreate, P!CheckRows,
   P!GiveUp, P!Insert, P!Finish, P!Timeout, P!Throw, P!AgentStep, P!CheckPortAvailability, P!InspectContainer,
   P!CreateServer, P!AdoptBegins, P!CopyFails, P!AdoptEnds

\* What of the rows and requests matters to the places.
LEMMA PlacesFrame ==
  ASSUME PlaceInv0, PlaceInv0', P!PlacementNext, WorldsInv, NEW S \in SUBSET Requests,
         \A r \in S : There(r)' => There(r) /\ containers'[r].place = containers[r].place
  PROVE  /\ \A r \in S : Standard(r)' /\ (Adopted(r)' => Adopted(r))
         /\ \A r \in S : There(r)' => placements'[r].kind = placements[r].kind
         /\ \A r \in S : There(r)' => containers'[r].place \in Names
<1> SUFFICES ASSUME NEW r \in S, There(r)'
             PROVE  /\ Standard(r)' /\ (Adopted(r)' => Adopted(r)) /\ placements'[r].kind = placements[r].kind
                    /\ containers'[r].place \in Names
  BY DEF Standard, Adopted
<1>1. There(r) /\ r \in P!Rows /\ containers'[r].place = servers[r].name
  BY DEF WorldsInv, Standard
<1>2. servers[r].name \in Names
  BY <1>1 DEF PlaceInv0, PlaceTyped, P!Rows, PlaceRow
<1>3. r \in P!Rows' /\ servers'[r].name = servers[r].name /\ placements'[r].kind = placements[r].kind
  BY <1>1, RowsStay
<1> QED BY <1>1, <1>2, <1>3 DEF Standard, Adopted

\* The containers stay where they are, and the worlds in them where they were.
LEMMA WorldsFrame ==
  ASSUME PlaceInv0, PlaceInv0', P!PlacementNext, WorldsInv,
         \A c \in P!Ids : There(c)' => There(c) /\ containers'[c].place = containers[c].place,
         Clean' => \A c \in P!Ids : There(c)' =>
                     ((places'[containers[c].place] = "world") <=> (places[containers[c].place] = "world"))
  PROVE  WorldsInv'
<1>1. Requests \in SUBSET Requests /\ Requests \subseteq P!Ids /\ "old" \in P!Ids
  BY DEF P!Ids
<1>2. /\ \A r \in Requests : Standard(r)' /\ (Adopted(r)' => Adopted(r))
      /\ \A r \in Requests : There(r)' => placements'[r].kind = placements[r].kind
  BY <1>1, PlacesFrame
<1>3. /\ There("old")' => \A r \in Requests : ~Adopted(r)'
      /\ \A r, x \in Requests : Adopted(r)' /\ Adopted(x)' => r = x
  BY <1>1, <1>2 DEF WorldsInv
<1>4. ASSUME Clean' PROVE WorldsWell'
  <2>1. WorldsWell
    BY <1>4, CleanBefore DEF WorldsInv
  <2>2. There("old")' => places'[containers'["old"].place] = "world" /\ containers'["old"].place # "inside"
    BY <1>1, <1>4, <2>1 DEF WorldsWell
  <2>3. ASSUME NEW r \in Requests, There(r)' PROVE WorldAt(r)'
    BY <1>1, <1>2, <1>4, <2>1, <2>3 DEF WorldsWell, WorldAt
  <2> QED BY <2>2, <2>3 DEF WorldsWell
<1> QED BY <1>2, <1>3, <1>4 DEF WorldsInv

\* A new container stands in the directory of its name, where no other server's is.
LEMMA NewPlace ==
  ASSUME P!PlacementAssumption, PlaceInv0, WorldsInv, NEW r \in P!Rows
  PROVE  /\ r \in Requests /\ placements[r].name \in Names /\ placements[r].name # "inside"
         /\ placements[r].name = servers[r].name
         /\ \A x \in Requests \ {r} : There(x) => containers[x].place # placements[r].name
<1>1. r \in Requests /\ placements[r].name \in Names /\ placements[r].name = servers[r].name
  BY DEF P!Rows, PlaceInv0, RowsMatch, RowMatches, PlaceRequest
<1>2. \A x \in P!Rows : x # r => servers[x].name # servers[r].name
  BY DEF PlaceInv0, P!PortsApart
<1> QED BY <1>1, <1>2 DEF WorldsInv, Standard, P!PlacementAssumption

LEMMA HostsWorlds ==
  ASSUME PlaceInv0, PlaceInv0', WorldsInv, P!PlacementAssumption,
         (\E p \in Foreign : P!Bind(p)) \/ (\E c \in P!Ids : P!Save(c)) \/ P!StopOld
  PROVE  WorldsInv'
<1>1. P!PlacementNext /\ UNCHANGED placements
  BY DEF P!PlacementNext, P!Bind, P!Save, P!StopOld
<1>2. containers \in [P!Ids -> {P!Gone} \cup PlaceContainer] /\ places \in [P!Places -> Worlds]
  BY DEF PlaceInv0, PlaceTyped
<1>3. CASE \E p \in Foreign : P!Bind(p)
  BY <1>1, <1>3, WorldsFrame DEF P!Bind, There
<1>4. CASE P!StopOld
  <2>1. UNCHANGED places /\ containers' = [containers EXCEPT !["old"].runs = FALSE] /\ containers["old"] # P!Gone
    BY <1>4 DEF P!StopOld, P!Alive
  <2>2. \A c \in P!Ids : There(c)' => There(c) /\ containers'[c].place = containers[c].place
    BY <1>2, <2>1 DEF There, PlaceContainer
  <2> QED BY <1>1, <2>1, <2>2, WorldsFrame
<1>5. ASSUME NEW c \in P!Ids, P!Save(c) PROVE WorldsInv'
  <2> DEFINE p == containers[c].place
  <2>1. There(c) /\ UNCHANGED containers /\ places[p] \in {"empty", "world"} /\ p \in P!Places
    BY <1>2, <1>5 DEF P!Save, P!Alive, There, PlaceContainer
  <2>2. \A x \in P!Ids : There(x) => containers[x].place \in P!Places
    BY <1>2 DEF There, PlaceContainer
  <2>3. CASE places[p] = "empty"
    <3>1. \A q \in P!Places : (places'[q] = "world") <=> (places[q] = "world")
      BY <1>2, <1>5, <2>1, <2>3 DEF P!Save
    <3> QED BY <1>1, <2>1, <2>2, <3>1, WorldsFrame DEF There
  <2>4. CASE places[p] = "world"
    <3>1. \A q \in P!Places : (places'[q] = "world") <=> (q = p)
      BY <1>2, <1>5, <2>1, <2>4 DEF P!Save
    <3>2. ASSUME Clean', NEW x \in P!Ids, There(x), places[containers[x].place] = "world"
          PROVE  containers[x].place = p
      <4>1. WorldsWell
        BY <3>2, <1>1, CleanBefore DEF WorldsInv
      <4>2. \A y \in Requests : There(y) /\ places[containers[y].place] = "world" => Adopted(y)
        BY <4>1 DEF WorldsWell, WorldAt, Adopted
      <4>3. c = x
        BY <4>2, <3>2, <2>1, <2>4 DEF WorldsInv, P!Ids
      <4> QED BY <4>3
    <3>3. Clean' => \A x \in P!Ids : There(x)' =>
            ((places'[containers[x].place] = "world") <=> (places[containers[x].place] = "world"))
      BY <2>1, <2>2, <2>4, <3>1, <3>2 DEF There
    <3> HIDE DEF p
    <3> QED BY <1>1, <2>1, <3>3, WorldsFrame DEF There
  <2> QED BY <2>1, <2>3, <2>4
<1> QED BY <1>3, <1>4, <1>5

LEMMA HandlersWorlds ==
  ASSUME PlaceInv0, PlaceInv0', WorldsInv, NEW r \in Requests,
         P!HandlerStep(r) \/ P!CheckPortAvailability(r) \/ P!InspectContainer(r)
  PROVE  WorldsInv'
<1>1. P!PlacementNext /\ UNCHANGED <<containers, places>>
  BY DEF P!PlacementNext, P!HandlerStep, P!BeginAdopt, P!BeginCreate, P!CheckRows, P!GiveUp, P!Insert, P!Finish,
     P!Timeout, P!Throw, P!AgentStep, P!CheckPortAvailability, P!InspectContainer, P!hostVars
<1> QED BY <1>1, WorldsFrame DEF There

\* A server is created in a directory that is empty, or it is noted.
LEMMA CreatesWorlds ==
  ASSUME P!PlacementAssumption, PlaceInv0, PlaceInv0', WorldsInv, NEW r \in Requests, P!CreateServer(r)
  PROVE  WorldsInv'
<1> DEFINE name == placements[r].name
<1>1. /\ P!PlacementNext /\ P!Takes("create", r)
      /\ containers \in [P!Ids -> {P!Gone} \cup PlaceContainer] /\ places \in [P!Places -> Worlds]
      /\ r \in P!Ids /\ "old" \in P!Ids /\ "old" # r
  BY DEF P!PlacementNext, P!AgentStep, P!CreateServer, PlaceInv0, PlaceTyped, P!Ids, P!PlacementAssumption
<1>2. r \in P!Rows /\ placements[r].kind = "create"
  BY <1>1, TakesOne DEF Questioned
<1>3. /\ name \in Names /\ name = servers[r].name /\ name \in P!Places
      /\ \A x \in Requests \ {r} : There(x) => containers[x].place # name
  BY <1>2, NewPlace DEF P!Places
<1>4. \A c \in P!Ids : There(c) => containers[c].place \in P!Places
  BY <1>1 DEF There, PlaceContainer
<1>5. \A q \in P!Places : (places'[q] = "world") <=> (places[q] = "world")
  BY <1>1, <1>3 DEF P!CreateServer, P!Directory
<1>6. containers' \in {containers, P!Made(r, containers)}
  BY DEF P!CreateServer, P!Starts
<1>7. CASE containers' = containers
  BY <1>1, <1>4, <1>5, <1>7, WorldsFrame DEF There
<1>8. CASE containers' = P!Made(r, containers) /\ containers' # containers
  <2>1. /\ \A c \in P!Ids \ {r} : containers'[c] = containers[c]
        /\ containers'[r].place = name
        /\ Clean' => places[name] # "world"
    <3>1. containers'[r].place = name /\ \A c \in P!Ids \ {r} : containers'[c] = containers[c]
      BY <1>1, <1>8 DEF P!Made
    <3>2. happened' = IF places[name] \in {"none", "empty"} THEN happened ELSE happened \cup {"shared"}
      BY <1>8 DEF P!CreateServer
    <3> QED BY <3>1, <3>2 DEF Clean
  <2>2. /\ \A x \in Requests \ {r} : Standard(x)' /\ (Adopted(x)' => Adopted(x))
        /\ \A x \in Requests \ {r} : There(x)' => placements'[x].kind = placements[x].kind
    <3>1. \A x \in Requests \ {r} : There(x)' => There(x) /\ containers'[x].place = containers[x].place
      BY <2>1 DEF There, P!Ids
    <3> QED BY <3>1, <1>1, PlacesFrame
  <2>3. r \in P!Rows' /\ servers'[r].name = name /\ placements'[r].kind = "create"
    BY <1>1, <1>2, <1>3, RowsStay
  <2>4. Standard(r)' /\ ~Adopted(r)'
    BY <2>1, <2>3 DEF Standard, Adopted
  <2>5. There("old")' = There("old")
    BY <1>1, <2>1 DEF There
  <2>6. ASSUME Clean' PROVE WorldsWell'
    <3>1. WorldsWell /\ places[name] # "world"
      BY <1>1, <2>1, <2>6, CleanBefore DEF WorldsInv
    <3>2. There("old")' => places'[containers'["old"].place] = "world" /\ containers'["old"].place # "inside"
      BY <1>1, <1>4, <1>5, <2>1, <3>1 DEF WorldsWell, There
    <3>3. WorldAt(r)'
      BY <1>3, <1>5, <2>1, <2>3, <3>1 DEF WorldAt
    <3>4. ASSUME NEW x \in Requests \ {r}, There(x)' PROVE WorldAt(x)'
      <4>1. x \in P!Ids /\ There(x) /\ containers'[x] = containers[x]
        BY <2>1, <3>4 DEF There, P!Ids
      <4> QED BY <4>1, <1>4, <1>5, <2>2, <3>1, <3>4 DEF WorldsWell, WorldAt
    <3> QED BY <3>2, <3>3, <3>4 DEF WorldsWell
  <2> QED BY <2>2, <2>4, <2>5, <2>6 DEF WorldsInv
<1> QED BY <1>6, <1>7, <1>8

\* What the adoption does to the directories, before it replaces the container.
LEMMA AdoptionPrepares ==
  ASSUME P!PlacementAssumption, PlaceInv0, PlaceInv0', WorldsInv, NEW r \in Requests,
         P!AdoptBegins(r) \/ P!CopyFails(r) \/ (P!AdoptEnds(r) /\ There("old")')
  PROVE  WorldsInv'
<1> DEFINE name == placements[r].name
           old == containers["old"]
<1>1. /\ P!PlacementNext
      /\ containers \in [P!Ids -> {P!Gone} \cup PlaceContainer] /\ places \in [P!Places -> Worlds]
      /\ r \in P!Ids /\ "old" \in P!Ids /\ "old" # r
  BY DEF P!PlacementNext, P!AgentStep, PlaceInv0, PlaceTyped, P!Ids, P!PlacementAssumption
<1>2. \A c \in P!Ids : There(c) => containers[c].place \in P!Places
  BY <1>1 DEF There, PlaceContainer
<1>3. CASE P!AdoptBegins(r) /\ ~There("old")
  BY <1>1, <1>3, WorldsFrame DEF P!AdoptBegins, There
<1>4. CASE P!AdoptBegins(r) /\ There("old")
  <2>1. r \in P!Rows
    BY <1>4, TakesOne DEF P!AdoptBegins, Questioned
  <2>2. name \in P!Places
    BY <2>1, NewPlace DEF P!Places
  <2>3. places' = P!Directory(name) /\ \E b : containers' = [containers EXCEPT !["old"].runs = b]
    <3>1. containers["old"] # P!Gone
      BY <1>4 DEF There
    <3>2. PICK b : containers' = [containers EXCEPT !["old"].runs = b] /\ adopting' = [of |-> r, runs |-> b]
      BY <1>4, <3>1 DEF P!AdoptBegins
    <3> QED BY <1>4, <3>1, <3>2 DEF P!AdoptBegins
  <2>4. \A q \in P!Places : (places'[q] = "world") <=> (places[q] = "world")
    BY <1>1, <2>2, <2>3 DEF P!Directory
  <2>5. \A c \in P!Ids : There(c)' => There(c) /\ containers'[c].place = containers[c].place
    BY <1>1, <1>4, <2>3 DEF There, PlaceContainer
  <2> QED BY <1>1, <1>2, <2>4, <2>5, WorldsFrame
<1>5. CASE P!CopyFails(r) \/ (P!AdoptEnds(r) /\ There("old")')
  <2>1. adopting # P!Nobody /\ adopting.of = r /\ There("old") /\ r \in P!Rows /\ placements[r].kind = "adopt"
    BY <1>5 DEF P!CopyFails, P!AdoptEnds, PlaceInv0, AskedWell, Questioned, There
  <2>2. /\ name \in Names /\ name \in P!Places
        /\ \A x \in Requests \ {r} : There(x) => containers[x].place # name
    BY <2>1, NewPlace DEF P!Places
  <2>3. UNCHANGED containers
    <3>1. ASSUME P!Starts(r, "adopt", [containers EXCEPT !["old"] = P!Gone]) PROVE ~There("old")'
      BY <1>1, <3>1 DEF P!Starts, P!Made, There
    <3> QED BY <1>5, <3>1 DEF P!CopyFails, P!AdoptEnds
  <2>4. \E w : places' = [places EXCEPT ![name] = IF P!Migrates(r) THEN w ELSE @]
    <3>1. CASE P!CopyFails(r)
      BY <3>1 DEF P!CopyFails
    <3>2. CASE P!AdoptEnds(r) /\ There("old")'
      <4>1. ~P!Starts(r, "adopt", [containers EXCEPT !["old"] = P!Gone])
        BY <1>1, <3>2 DEF P!Starts, P!Made, There
      <4> QED BY <3>2, <4>1 DEF P!AdoptEnds
    <3> QED BY <1>5, <3>1, <3>2
  <2>5. \A q \in P!Places : (q = name /\ P!Migrates(r)) \/ places'[q] = places[q]
    BY <1>1, <2>2, <2>4
  <2>6. P!Migrates(r) => old.place # name
    BY DEF P!Migrates
  <2>7. ~There(r)
    BY <2>1 DEF WorldsInv, Adopted
  <2>8. ASSUME NEW c \in P!Ids, There(c) PROVE places'[containers[c].place] = places[containers[c].place]
    BY <1>2, <2>2, <2>5, <2>6, <2>7, <2>8 DEF P!Ids
  <2> QED BY <1>1, <2>3, <2>8, WorldsFrame DEF There
<1> QED BY <1>3, <1>4, <1>5

\* The container that takes the place of the old one stands on the newest world: on the copy,
\* or where the world was already.
LEMMA AdoptionReplaces ==
  ASSUME P!PlacementAssumption, PlaceInv0, PlaceInv0', WorldsInv, NEW r \in Requests,
         P!AdoptEnds(r), ~There("old")'
  PROVE  WorldsInv'
<1> DEFINE name == placements[r].name
           old == containers["old"]
           host == [containers EXCEPT !["old"] = P!Gone]
           copied == IF "raced" \in happened THEN "part" ELSE places[old.place]
           kept == [places EXCEPT ![name] = IF P!Migrates(r) THEN copied ELSE @]
<1>1. /\ P!PlacementNext
      /\ containers \in [P!Ids -> {P!Gone} \cup PlaceContainer] /\ places \in [P!Places -> Worlds]
      /\ r \in P!Ids /\ "old" \in P!Ids /\ "old" # r /\ UNCHANGED happened
  BY DEF P!PlacementNext, P!AgentStep, PlaceInv0, PlaceTyped, P!Ids, P!PlacementAssumption, P!AdoptEnds
<1>2. adopting # P!Nobody /\ adopting.of = r /\ There("old") /\ r \in P!Rows /\ placements[r].kind = "adopt"
  BY DEF P!AdoptEnds, PlaceInv0, AskedWell, Questioned, There
<1>3. /\ name \in Names /\ name \in P!Places /\ name # "inside" /\ name = servers[r].name
      /\ \A x \in Requests \ {r} : There(x) => containers[x].place # name
  BY <1>2, NewPlace DEF P!Places
<1>4. places' = [kept EXCEPT !["inside"] = "none"] /\ containers' \in {host, P!Made(r, host)}
  <2>1. P!Starts(r, "adopt", host) /\ places' = [kept EXCEPT !["inside"] = "none"]
    BY <1>2 DEF P!AdoptEnds, There
  <2> QED BY <2>1 DEF P!Starts
<1>5. \A x \in Requests : ~Adopted(x)
  BY <1>2 DEF WorldsInv
<1>6. /\ \A x \in Requests \ {r} : containers'[x] = containers[x]
      /\ There(r)' => containers'[r].place = name
  <2>1. ~There(r)
    BY <1>2, <1>5 DEF Adopted
  <2> QED BY <1>1, <1>4, <2>1 DEF P!Made, There, P!Ids, P!PlacementAssumption
<1>7. /\ \A x \in Requests \ {r} : Standard(x)' /\ ~Adopted(x)'
      /\ \A x \in Requests \ {r} : There(x)' => placements'[x].kind = placements[x].kind
      /\ \A x \in Requests \ {r} : There(x)' => containers'[x].place \in Names
  <2>1. \A x \in Requests \ {r} : There(x)' => There(x) /\ containers'[x].place = containers[x].place
    BY <1>6 DEF There
  <2> QED BY <2>1, <1>1, <1>5, PlacesFrame
<1>8. r \in P!Rows' /\ servers'[r].name = name /\ placements'[r].kind = "adopt"
  BY <1>1, <1>2, <1>3, RowsStay
<1>9. Standard(r)'
  BY <1>6, <1>8 DEF Standard
<1>10. ASSUME Clean' PROVE WorldsWell'
  <2>1. WorldsWell /\ "raced" \notin happened
    BY <1>1, <1>10, CleanBefore DEF WorldsInv, Clean
  <2>2. places[old.place] = "world" /\ old.place # "inside"
    BY <1>2, <2>1 DEF WorldsWell
  <2>3. kept[name] = "world"
    BY <1>1, <1>3, <2>1, <2>2 DEF P!Migrates
  <2>4. places'[name] = "world" /\ \A q \in P!Places \ {name, "inside"} : places'[q] = places[q]
    <3>1. kept \in [P!Places -> Worlds \cup {copied}] /\ \A q \in P!Places \ {name} : kept[q] = places[q]
      BY <1>1, <1>3
    <3> HIDE DEF kept
    <3> QED BY <1>3, <1>4, <2>3, <3>1
  <2>5. There(r)' => WorldAt(r)'
    BY <1>6, <1>8, <2>4 DEF WorldAt
  <2>6. ASSUME NEW x \in Requests \ {r}, There(x)' PROVE WorldAt(x)'
    <3>1. There(x) /\ containers'[x] = containers[x] /\ containers[x].place # name /\ containers[x].place \in Names
      BY <1>3, <1>6, <1>7, <2>6 DEF There
    <3>2. places'[containers[x].place] = places[containers[x].place]
      BY <2>4, <3>1 DEF P!Places, P!PlacementAssumption
    <3> QED BY <1>7, <2>1, <2>6, <3>1, <3>2 DEF WorldsWell, WorldAt
  <2> QED BY <2>5, <2>6 DEF WorldsWell
<1> QED BY <1>7, <1>9, <1>10 DEF WorldsInv

LEMMA WorldsStep ==
  ASSUME P!PlacementAssumption, PlaceInv0, PlaceInv0', WorldsInv, [P!PlacementNext]_placeVars
  PROVE  WorldsInv'
<1>1. CASE UNCHANGED placeVars
  BY <1>1 DEF placeVars, WorldsInv, WorldsWell, WorldAt, Standard, Adopted, There, Clean, P!Rows
<1>2. CASE P!PlacementNext
  BY <1>2, HostsWorlds, HandlersWorlds, CreatesWorlds, AdoptionPrepares, AdoptionReplaces
     DEF P!PlacementNext, P!AgentStep
<1> QED BY <1>1, <1>2

\* The whole invariant, where it begins, and what it says.
PlaceInv == PlaceInv0 /\ OwnedInv /\ WorldsInv

LEMMA PlaceBegins ==
  ASSUME P!PlacementAssumption, P!PlacementInit
  PROVE  PlaceInv
<1>1. PlaceInv0
  BY PlaceStart
<1>2. asked = <<>> /\ adopting = P!Nobody /\ \A r \in Requests : ~There(r)
  BY DEF P!PlacementInit, P!PlacementAssumption, There, P!Ids
<1>3. OwnedInv
  BY <1>2 DEF OwnedInv, Patient, Known
<1>4. Clean => places[containers["old"].place] = "world" /\ containers["old"].place # "inside"
  <2>1. PICK site \in Mounts, game \in Games, runs_ \in BOOLEAN :
          /\ containers = [c \in P!Ids |->
               IF c = "old" THEN [place |-> site, game |-> game, udp |-> game + 1, runs |-> runs_] ELSE P!Gone]
          /\ places = [p \in P!Places |-> IF p = site THEN "world" ELSE "none"]
          /\ happened = IF site = "inside" THEN {"mountless"} ELSE {}
    BY DEF P!PlacementInit
  <2> QED BY <2>1 DEF Clean, P!PlacementAssumption, P!Places, P!Ids
<1>5. WorldsInv
  BY <1>2, <1>4 DEF WorldsInv, WorldsWell, Adopted, Standard
<1> QED BY <1>1, <1>3, <1>5 DEF PlaceInv

LEMMA PlaceStep ==
  ASSUME P!PlacementAssumption, PlaceInv, [P!PlacementNext]_placeVars
  PROVE  PlaceInv'
BY PlaceStep0, OwnedStep, WorldsStep DEF PlaceInv

LEMMA PlaceSafe ==
  ASSUME P!PlacementAssumption, PlaceInv
  PROVE  P!TypeOK /\ P!Owned /\ P!AdoptedWhole /\ P!PortsApart /\ P!PicksFit
<1> USE DEF PlaceInv, PlaceInv0
<1>1. P!TypeOK
  BY DEF PlaceTyped, P!TypeOK, PlaceRow, PlaceRequest, PlaceContainer, PlaceQuestion, Worlds
<1>2. P!Owned
  BY DEF OwnedInv, Known, There, P!Owned
<1>3. P!AdoptedWhole
  BY DEF WorldsInv, WorldsWell, WorldAt, There, Clean, P!AdoptedWhole
<1>4. P!PicksFit
  <2>1. ASSUME \A r \in P!Rows : servers[r].udp = servers[r].game + 1
        PROVE  {P!NextGame, P!NextGame + 1} \cap P!Allocated = {}
    <3> SUFFICES ASSUME NEW r \in P!Rows, NEW p \in {servers[r].game, servers[r].udp},
                        p \in {P!NextGame, P!NextGame + 1}
                 PROVE  FALSE
      BY DEF P!Allocated
    <3>1. servers[r].game \in Nat /\ servers[r].udp = servers[r].game + 1
      BY <2>1 DEF PlaceTyped, P!Rows, PlaceRow
    <3>2. P!NextGame \in Nat /\ servers[r].game + 2 <= P!NextGame
      BY PicksAreBeyond
    <3> HIDE DEF P!NextGame
    <3> QED BY <3>1, <3>2
  <2> QED BY <2>1 DEF P!PicksFit
<1> QED BY <1>1, <1>2, <1>3, <1>4

-----------------------------------------------------------------------------
(* The composition, and each part alone.                                   *)

ToldInv == AlertsInv /\ FiguresInv

\* What an agent tells by itself is so, of any number of servers, runs, outages and
\* processes and for any delay: an alert is about an outage of the whole delay, each process
\* sends one about each at most, "back online" is said of every outage an alert was about once
\* it is over and of no other, the recipients are those the manager named last, a server that
\* two polls in a row have found and asked is shown with the players of its run, and the
\* charts count none of an earlier run once a poll has seen it.
THEOREM AgentsTellTruly == HostsSpec => []ToldTruly
<1> USE HostsAssumption DEF HostsAssumption
<1>1. HostsInit => ToldInv
  BY AlertsStart, FiguresStart DEF HostsInit, ToldInv
<1>2. ToldInv /\ [HostsNext]_allVars => ToldInv'
  <2>1. [HostsNext]_allVars => [AlertsNext]_alertVars /\ [FiguresNext]_figureVars
    BY DEF HostsNext, allVars, ownVars
  <2> QED BY <2>1, AlertsStep, FiguresStep DEF ToldInv
<1>3. ToldInv => ToldTruly
  BY AlertsSafe, FiguresSafe DEF ToldInv, ToldTruly
<1> QED BY <1>1, <1>2, <1>3, PTL DEF HostsSpec

THEOREM AlertsAreTrue ==
  ASSUME AlertsAssumption
  PROVE  AlertsSpec => [](AlertsTypeOK /\ AlertsEarned /\ AlertsAnswered /\ RecipientsKept)
<1>1. AlertsInit => AlertsInv
  BY AlertsStart
<1>2. AlertsInv /\ [AlertsNext]_alertVars => AlertsInv'
  BY AlertsStep
<1>3. AlertsInv => AlertsTypeOK /\ AlertsEarned /\ AlertsAnswered /\ RecipientsKept
  BY AlertsSafe DEF AlertsInv
<1> QED BY <1>1, <1>2, <1>3, PTL DEF AlertsSpec

\* The players of a server are those of the run there is once two polls in a row could find and
\* ask it, though others fail or Docker inspects only some of the servers; and the charts count
\* none of a run before the one that was polled.
THEOREM FiguresAreTrue ==
  ASSUME FiguresAssumption
  PROVE  FiguresSpec => [](FiguresTypeOK /\ PointsCurrent /\ FiguresRecover)
<1>1. FiguresInit => FiguresInv
  BY FiguresStart
<1>2. FiguresInv /\ [FiguresNext]_figureVars => FiguresInv'
  BY FiguresStep
<1>3. FiguresInv => FiguresTypeOK /\ PointsCurrent /\ FiguresRecover
  BY FiguresSafe DEF FiguresInv
<1> QED BY <1>1, <1>2, <1>3, PTL DEF FiguresSpec

\* Rows and containers belong together, for any names, requests and ports: a container that was
\* made is that of a row that says so or is about to, unless its handler has stopped waiting; an
\* adopted server stands on the newest world of the container it replaces, if that had stopped
\* and had its data in a directory of its own; no two rows have one name or one game port; and
\* the ports that are picked are free as far as the rows tell.
THEOREM RowsAreTrue == HostsSpec => []RowsTrue
<1> USE HostsAssumption DEF HostsAssumption
<1>1. HostsInit => PlaceInv
  BY PlaceBegins DEF HostsInit
<1>2. PlaceInv /\ [HostsNext]_allVars => PlaceInv'
  <2>1. [HostsNext]_allVars => [P!PlacementNext]_placeVars
    BY DEF HostsNext, allVars, dataVars, placeVars
  <2> QED BY <2>1, PlaceStep
<1>3. PlaceInv => RowsTrue
  BY PlaceSafe DEF RowsTrue
<1> QED BY <1>1, <1>2, <1>3, PTL DEF HostsSpec

\* A behaviour of the composition is one of each part, so what is proved of a part (of moves in
\* DataMoves_proofs, of backups in Backups_proofs) holds of the composition.
THEOREM PartsTogether ==
  HostsSpec => MovesSpec /\ P!PlacementSpec /\ Spec /\ FiguresSpec /\ AlertsSpec
<1>1. HostsInit => MovesInit /\ P!PlacementInit /\ Init /\ FiguresInit /\ AlertsInit
  BY DEF HostsInit
<1>2. [HostsNext]_allVars =>
        /\ [MovesNext]_movesVars /\ [P!PlacementNext]_P!placementVars /\ [Next]_vars
        /\ [FiguresNext]_figureVars /\ [AlertsNext]_alertVars
  BY DEF HostsNext, allVars, dataVars, ownVars, placeVars, P!placementVars, P!hostVars
<1> QED BY <1>1, <1>2, PTL DEF HostsSpec, MovesSpec, P!PlacementSpec, Spec, FiguresSpec, AlertsSpec

PartKnown == part \in {"moves", "placement", "backups", "figures", "outages"}

\* The state of each part has its type, whatever the number of its requests, servers and faults;
\* what that says of the moves is how many containers their requests can make at all.
THEOREM HostsTypesCorrect == HostsSpec => []HostsTypeOK
<1> USE HostsAssumption DEF HostsAssumption
<1>1. HostsInit => ToldInv /\ PlaceInv /\ PartKnown
  BY AlertsStart, FiguresStart, PlaceBegins DEF HostsInit, ToldInv, PartKnown
<1>2. ToldInv /\ PlaceInv /\ PartKnown /\ [HostsNext]_allVars
      => ToldInv' /\ PlaceInv' /\ PartKnown'
  <2>1. [HostsNext]_allVars =>
          [AlertsNext]_alertVars /\ [FiguresNext]_figureVars /\ [P!PlacementNext]_placeVars /\ UNCHANGED part
    BY DEF HostsNext, allVars, ownVars, dataVars, placeVars
  <2> QED BY <2>1, AlertsStep, FiguresStep, PlaceStep DEF ToldInv, PartKnown
<1>3. /\ ToldInv /\ PlaceInv /\ PartKnown
      /\ MovesTypeOK /\ TypeOK
      => HostsTypeOK
  <2>1. ToldInv => AlertsTypeOK /\ FiguresTypeOK
    BY FiguresSafe DEF ToldInv, AlertsInv, FiguresInv
  <2>2. PlaceInv => P!TypeOK
    BY PlaceSafe
  <2> QED BY <2>1, <2>2 DEF HostsTypeOK, PartKnown
<1>4. HostsSpec => []MovesTypeOK /\ []TypeOK
  BY PartsTogether, MovesTyped, TypeCorrect, PTL
<1> QED BY <1>1, <1>2, <1>3, <1>4, PTL DEF HostsSpec

=============================================================================
