---------------------------- MODULE OutageAlerts ----------------------------
(***************************************************************************)
(* The e-mails an agent sends by itself, because the manager that would    *)
(* send them is what it cannot reach: one after ten minutes of failing     *)
(* authentications, one when it is back, each from a goroutine of its own  *)
(* and to the recipients the manager named last, kept on disk.             *)
(*                                                                         *)
(* A list of recipients is a number, 0 an empty one.  Clocks count ticks   *)
(* and stop at Delay.  What a socket of the manager does with a dial is in *)
(* AgentPresence; here it answers, refuses or fails as it likes.           *)
(***************************************************************************)
EXTENDS Naturals, FiniteSets

CONSTANTS
  Delay,     \* ticks before the alert: alertDelay
  Lists,     \* bound on the lists of recipients the manager comes to have
  Outages,   \* bound on the outages
  Processes  \* bound on the processes of the agent

AlertsAssumption == Delay \in Nat /\ Lists \in Nat /\ Outages \in Nat \ {0} /\ Processes \in Nat \ {0}

VARIABLES
  at,          \* where RunWithReconnect stands
  retrying,    \* transientRetries > 0
  failing,     \* ticks since firstFailure
  alertSent,
  token,       \* has it its permanent token?
  alertConfig, \* the recipients in memory
  disk,        \* those in alert-config.json
  recipients,  \* those the manager has
  mailers,     \* the goroutines that are about to send
  outage,      \* the number of the outage (history)
  down,        \* ticks it has lasted, or those of the last one (history)
  process,     \* the number of the agent's process (history)
  alerted,     \* the outages and processes that began an alert (history)
  mails,       \* what has been sent, and to whom (history)
  named,       \* the last recipients the manager named (history)
  unsaved      \* has saving them failed? (history)

loopVars == <<at, retrying, failing, alertSent, token>>
pastVars == <<outage, down, process, alerted>>
listVars == <<alertConfig, disk, named, unsaved>>
alertVars == <<loopVars, pastVars, listVars, recipients, mailers, mails>>

Mails == [number : Nat, kind : {"alert", "recovery"}, outage : 1 .. Outages, down : 0 .. Delay,
          process : 1 .. Processes, to : 0 .. Lists]

AlertsTypeOK ==
  /\ at \in {"dialling", "asking", "online", "exited"}
  /\ retrying \in BOOLEAN /\ failing \in 0 .. Delay /\ alertSent \in BOOLEAN /\ token \in BOOLEAN
  /\ {alertConfig, disk, recipients, named} \subseteq 0 .. Lists /\ unsaved \in BOOLEAN
  /\ mailers \subseteq Mails /\ mails \subseteq Mails
  /\ outage \in 1 .. Outages /\ down \in 0 .. Delay /\ process \in 1 .. Processes
  /\ alerted \subseteq (1 .. Outages) \X (1 .. Processes)

AlertsInit ==
  /\ at = "dialling" /\ retrying = FALSE /\ failing = 0 /\ alertSent = FALSE /\ token \in BOOLEAN
  /\ alertConfig = 0 /\ disk = 0 /\ named = 0 /\ unsaved = FALSE
  /\ recipients \in {0, Lists} /\ mailers = {} /\ mails = {}
  /\ outage = 1 /\ down = 0 /\ process = 1 /\ alerted = {}

Mailer(kind) ==
  [number |-> 1 + Cardinality(mails \cup mailers), kind |-> kind, outage |-> outage, down |-> down,
   process |-> process, to |-> 0]

-----------------------------------------------------------------------------
\* The loop

\* ConnectWithRetry, which tries until it has a connection: none of its failures counts.
Connect ==
  /\ at = "dialling" /\ at' = "asking"
  /\ UNCHANGED <<retrying, failing, alertSent, token, pastVars, listVars, recipients, mailers, mails>>

\* An error that may pass: firstFailure is that of the first in a row.
FailTransient ==
  /\ at = "asking" /\ at' = "dialling" /\ retrying' = TRUE
  /\ failing' = IF retrying THEN failing ELSE 0
  /\ LET due == ~alertSent /\ failing' >= Delay
     IN  /\ alertSent' = (alertSent \/ due)
         /\ mailers' = IF due THEN mailers \cup {Mailer("alert")} ELSE mailers
         /\ alerted' = IF due THEN alerted \cup {<<outage, process>>} ELSE alerted
  /\ UNCHANGED <<token, outage, down, process, listVars, recipients, mails>>

\* The manager says no, or the token it gives cannot be saved.
Reject ==
  /\ at = "asking" /\ at' = "exited"
  /\ UNCHANGED <<retrying, failing, alertSent, token, pastVars, listVars, recipients, mailers, mails>>

\* Mutant: the file is written when the agent has none.
CacheOnce ==
  IF recipients = 0 THEN UNCHANGED listVars
  ELSE /\ alertConfig' = recipients /\ named' = recipients
       /\ disk' = IF disk = 0 THEN recipients ELSE disk
       /\ UNCHANGED unsaved

\* Mutant: the count of the failures is not reset.
OnlineCounting ==
  /\ at = "asking" /\ at' = "online"
  /\ mailers' = IF alertSent THEN mailers \cup {Mailer("recovery")} ELSE mailers
  /\ alertSent' = FALSE
  /\ UNCHANGED <<retrying, failing, pastVars, recipients, mails>>

\* The recipients that came with the answer; an empty list is not kept.
Cache ==
  IF recipients = 0 THEN UNCHANGED listVars
  ELSE /\ alertConfig' = recipients /\ named' = recipients
       /\ \/ disk' = recipients /\ unsaved' = FALSE
          \/ disk' \in {disk, 0} /\ unsaved' = TRUE

Online ==
  /\ at = "asking" /\ at' = "online"
  /\ mailers' = IF alertSent THEN mailers \cup {Mailer("recovery")} ELSE mailers
  /\ retrying' = FALSE /\ alertSent' = FALSE
  /\ UNCHANGED <<failing, pastVars, recipients, mails>>

\* With its permanent token, which brings the recipients, or with the first one, which does not.
Authenticate == token /\ Online /\ Cache /\ UNCHANGED token
Register == ~token /\ Online /\ token' = TRUE /\ UNCHANGED listVars

NextOutage == outage < Outages /\ outage' = outage + 1 /\ down' = 0

Disconnect ==
  /\ at = "online" /\ at' = "dialling" /\ NextOutage
  /\ UNCHANGED <<retrying, failing, alertSent, token, process, alerted, listVars, recipients, mailers, mails>>

\* The process ends, its goroutines with it, and systemd starts another, but not after a refusal.
Restart ==
  /\ at # "exited" /\ process < Processes /\ process' = process + 1
  /\ IF at = "online" THEN NextOutage ELSE UNCHANGED <<outage, down>>
  /\ at' = "dialling" /\ retrying' = FALSE /\ alertSent' = FALSE /\ failing' = 0
  /\ mailers' = {} /\ alertConfig' = disk
  /\ UNCHANGED <<token, alerted, disk, named, unsaved, recipients, mails>>

-----------------------------------------------------------------------------
\* The rest

\* SendAlertEmail, SendRecoveryEmail: to the recipients as they are then, or to nobody.
SendEmail ==
  \E m \in mailers :
    /\ mailers' = mailers \ {m}
    /\ mails' = mails \cup {[m EXCEPT !.to = alertConfig]}
    /\ UNCHANGED <<loopVars, pastVars, listVars, recipients>>

Tick ==
  /\ failing < Delay \/ down < Delay
  /\ failing' = IF failing < Delay THEN failing + 1 ELSE failing
  /\ down' = IF at # "online" /\ down < Delay THEN down + 1 ELSE down
  /\ UNCHANGED <<at, retrying, alertSent, token, outage, process, alerted, listVars, recipients, mailers, mails>>

SetRecipients ==
  /\ recipients' \in (0 .. Lists) \ {recipients}
  /\ UNCHANGED <<loopVars, pastVars, listVars, mailers, mails>>

AlertsNext ==
  \/ Connect \/ FailTransient \/ Reject \/ Authenticate \/ Register
  \/ Disconnect \/ Restart \/ SendEmail \/ Tick \/ SetRecipients

AlertsSpec == AlertsInit /\ [][AlertsNext]_alertVars

-----------------------------------------------------------------------------
\* Properties

Over(o) == o < outage \/ at = "online"

\* An alert is about an outage that has lasted ten minutes, however short the one before was
\* and however long ago it failed; and a process sends one about each outage at most.
AlertsEarned ==
  /\ \A m \in mails \cup mailers : m.kind = "alert" => m.down = Delay
  /\ \A m, n \in mails \cup mailers :
       m.kind = "alert" /\ n.kind = "alert" /\ m.outage = n.outage /\ m.process = n.process => m = n

\* "Back online" is said of an outage that is over and that the process has raised an alert
\* about; and it is said of each such outage, by the process if it lives.
AlertsAnswered ==
  /\ \A m \in mails \cup mailers :
       m.kind = "recovery" => Over(m.outage) /\ <<m.outage, m.process>> \in alerted
  /\ \A a \in alerted :
       a[2] = process /\ Over(a[1]) =>
         \E m \in mails \cup mailers : m.kind = "recovery" /\ m.outage = a[1] /\ m.process = process

\* The agent knows those the manager named last, also after a restart with no manager to ask.
RecipientsKept == ~unsaved => alertConfig = named /\ disk = named
=============================================================================
