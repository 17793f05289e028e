---------------------------- MODULE AgentUpdates ----------------------------
(***************************************************************************)
(* How an agent comes to run a new version: the release on GitHub, the     *)
(* Worker's cached answer about it, the push to connected agents, the      *)
(* goroutines that fetch, replace the binary and exec it, and what the     *)
(* Durable Object makes of the disconnection: a longer grace period before *)
(* the offline alert, and an e-mail about the update.                      *)
(*                                                                         *)
(* A version is a number; 1 is the one the Worker falls back to when       *)
(* GitHub does not answer.  A goroutine that finds no newer version, or    *)
(* cannot fetch it, ends.  The DO handles a message or a close event at    *)
(* once, for it awaits its own storage only; the next connection is        *)
(* accepted after the close of the last (AgentPresence has the rest of     *)
(* connecting, and the alert itself).                                      *)
(***************************************************************************)
EXTENDS Naturals, Sequences

CONSTANTS
  NewestRelease, \* bound on the releases
  Checks,        \* names of the updater's goroutines
  Startup,       \* the one a new process starts with
  Pushes,        \* bound on the pushes
  Faults         \* bound on the failures

ASSUME UpdatesAssumption == NewestRelease \in Nat \ {0} /\ Startup \in Checks /\ Pushes \in Nat /\ Faults \in Nat

VARIABLES
  released,     \* the newest release
  cache,        \* the version in the Worker's cache, or 0
  puts,         \* answers on their way into the cache
  version,      \* the version the agent's process runs
  binary,       \* the version of the binary on its disk
  checks,       \* checks[k]: a goroutine of the updater
  link,         \* does the agent have an authenticated connection?
  toAgent,      \* the number of update notifications on their way
  toManager,    \* the restart notices on their way, each with a version
  connected,    \* what the DO makes of the link
  flag,         \* storage: updatePending
  fromVersion,  \* storage: updateFromVersion, or 0
  toVersion,    \* storage: updateToVersion, or 0
  alarm,        \* the alarm that was set at the disconnection
  mails,        \* update e-mails: the versions they name, and the one that runs (history)
  updates,      \* execs of another version (history)
  misled,       \* has a notice been sent that no restart followed at once? (history)
  cause,        \* why the link went down last (history)
  due,          \* the version pushed to an idle agent when nothing could fail any more, or 0 (history)
  pushes, faults

managerVars == <<released, cache, puts>>
agentVars == <<version, binary, checks>>
doVars == <<connected, flag, fromVersion, toVersion, alarm, mails>>
historyVars == <<updates, misled, cause, due, pushes, faults>>
updateVars == <<managerVars, agentVars, link, toAgent, toManager, doVars, historyVars>>

Versions == 1 .. NewestRelease
NoCheck == [at |-> "none"]

TypeOK ==
  /\ released \in Versions /\ cache \in Versions \cup {0} /\ puts \subseteq Versions
  /\ version \in Versions /\ binary \in Versions
  /\ checks \in [Checks -> {NoCheck} \cup
       [at : {"asking"}, bust : BOOLEAN] \cup [at : {"found", "renamed", "noticed", "silent"}, version : Versions]]
  /\ link \in BOOLEAN /\ toAgent \in 0 .. Pushes /\ toManager \in Seq(Versions)
  /\ connected \in BOOLEAN /\ flag \in BOOLEAN
  /\ fromVersion \in Versions \cup {0} /\ toVersion \in Versions \cup {0}
  /\ alarm \in IF connected THEN {"none"} ELSE {"none", "short", "long"}
  /\ mails \in Seq([from : Versions, to : Versions, runs : Versions, updates : Nat])
  /\ updates \in Nat /\ misled \in BOOLEAN /\ cause \in {"none", "fault", "update", "unnoticed"} /\ due \in Versions \cup {0}
  /\ pushes \in 0 .. Pushes /\ faults \in 0 .. Faults

NewProcess == [k \in Checks |-> IF k = Startup THEN [at |-> "asking", bust |-> FALSE] ELSE NoCheck]

UpdatesInit ==
  /\ released = 1 /\ cache = 0 /\ puts = {}
  /\ version = 1 /\ binary = 1 /\ checks = NewProcess
  /\ link = TRUE /\ toAgent = 0 /\ toManager = <<>>
  /\ connected = TRUE /\ flag = FALSE /\ fromVersion = 0 /\ toVersion = 0 /\ alarm = "none" /\ mails = <<>>
  /\ updates = 0 /\ misled = FALSE /\ cause = "none" /\ due = 0 /\ pushes = 0 /\ faults = 0

Fault == faults < Faults /\ faults' = faults + 1
Spared == UNCHANGED faults

-----------------------------------------------------------------------------
\* The release and the Worker

Release ==
  /\ released < NewestRelease /\ released' = released + 1
  /\ UNCHANGED <<cache, puts, agentVars, link, toAgent, toManager, doVars, historyVars>>

\* The cache entry gets too old, or the answer of an earlier request gets there.
Expire ==
  /\ cache # 0 /\ cache' = 0
  /\ UNCHANGED <<released, puts, agentVars, link, toAgent, toManager, doVars, historyVars>>

Put ==
  /\ \E v \in puts : cache' = v /\ puts' = puts \ {v}
  /\ UNCHANGED <<released, agentVars, link, toAgent, toManager, doVars, historyVars>>

\* POST /broadcast-update, of the newest release, to the agents that are online.
BroadcastUpdate == connected /\ pushes < Pushes /\ pushes' = pushes + 1

NotifyUpdate ==
  /\ BroadcastUpdate
  /\ toAgent' = IF link THEN toAgent + 1 ELSE toAgent
  /\ flag' = TRUE /\ toVersion' = released
  /\ due' = IF link /\ faults = Faults /\ toAgent = 0 /\ \A k \in Checks : checks[k] = NoCheck
            THEN released ELSE due
  /\ UNCHANGED <<managerVars, agentVars, link, toManager, connected, fromVersion, alarm, mails,
                 updates, misled, cause, faults>>

-----------------------------------------------------------------------------
\* The agent

Ends(k) == checks' = [checks EXCEPT ![k] = NoCheck]

\* Mutant: the check of a start, which takes what the cache has.
HandleUpdateAvailableCached ==
  /\ link /\ toAgent > 0 /\ toAgent' = toAgent - 1
  /\ \E k \in Checks : checks[k] = NoCheck /\ checks' = [checks EXCEPT ![k] = [at |-> "asking", bust |-> FALSE]]
  /\ UNCHANGED <<managerVars, version, binary, link, toManager, doVars, historyVars>>

\* A goroutine is started; there are as many as Checks, and no notification waits for one.
HandleUpdateAvailable ==
  /\ link /\ toAgent > 0 /\ toAgent' = toAgent - 1
  /\ \E k \in Checks : checks[k] = NoCheck /\ checks' = [checks EXCEPT ![k] = [at |-> "asking", bust |-> TRUE]]
  /\ UNCHANGED <<managerVars, version, binary, link, toManager, doVars, historyVars>>

IsNewerVersion(remote) == remote > version

\* GET /api/agent/version, from the cache unless it is busted, or from GitHub.
GetLatestVersion(k) ==
  /\ checks[k].at = "asking"
  /\ \E answer \in Versions :
       /\ \/ /\ ~checks[k].bust /\ cache # 0 /\ answer = cache /\ Spared /\ UNCHANGED puts
          \/ /\ checks[k].bust \/ cache = 0
             /\ answer = released /\ Spared /\ puts' = puts \cup {released}
          \/ /\ checks[k].bust \/ cache = 0
             /\ answer = 1 /\ Fault /\ UNCHANGED puts
       /\ checks' = [checks EXCEPT ![k] =
            IF IsNewerVersion(answer) THEN [at |-> "found", version |-> answer] ELSE NoCheck]
  /\ UNCHANGED <<released, cache, version, binary, link, toAgent, toManager, doVars, updates, misled, cause, due, pushes>>

\* The download ends in the rename over the old binary, or somewhere before.
DownloadAndApply(k) ==
  /\ checks[k].at = "found"
  /\ \/ /\ binary' = checks[k].version
        /\ checks' = [checks EXCEPT ![k].at = "renamed"]
        /\ Spared
     \/ Fault /\ Ends(k) /\ UNCHANGED binary
  /\ UNCHANGED <<managerVars, version, link, toAgent, toManager, doVars, updates, misled, cause, due, pushes>>

\* onBeforeRestart: the manager is told if it can be.
BeforeRestart(k) ==
  /\ checks[k].at = "renamed"
  /\ checks' = [checks EXCEPT ![k].at = IF link THEN "noticed" ELSE "silent"]
  /\ toManager' = IF link THEN Append(toManager, version) ELSE toManager
  /\ UNCHANGED <<managerVars, version, binary, link, toAgent, doVars, historyVars>>

\* A process is replaced, and its connection is gone.  How much of what it sent arrives?
Replaced ==
  /\ version' = binary
  /\ checks' = NewProcess
  /\ link' = FALSE /\ toAgent' = 0
  /\ updates' = IF binary # version THEN updates + 1 ELSE updates

\* The binary is run in place of the process, unless that fails: it may be no binary at all.
Exec(k) ==
  /\ checks[k].at \in {"noticed", "silent"}
  /\ \/ /\ Replaced /\ Spared /\ UNCHANGED misled
        /\ cause' = IF link THEN (IF checks[k].at = "noticed" THEN "update" ELSE "unnoticed") ELSE cause
     \/ /\ Fault /\ Ends(k)
        /\ misled' = TRUE /\ cause' = cause
        /\ UNCHANGED <<version, link, toAgent, updates>>
  /\ UNCHANGED <<managerVars, binary, toManager, doVars, due, pushes>>

\* A broken connection loses the last of what was sent on it.
Lost == toManager' \in {SubSeq(toManager, 1, n) : n \in IF link THEN 0 .. Len(toManager) ELSE {Len(toManager)}}

Mislead == misled' = (misled \/ \E k \in Checks : checks[k].at = "noticed")

\* The process ends and systemd starts it again.
Restart ==
  /\ Fault /\ Replaced /\ Lost /\ Mislead
  /\ cause' = IF link THEN "fault" ELSE cause
  /\ UNCHANGED <<managerVars, binary, doVars, due, pushes>>

\* The connection breaks, with what was under way.
Break ==
  /\ link /\ Fault
  /\ link' = FALSE /\ toAgent' = 0 /\ Lost /\ Mislead
  /\ cause' = "fault"
  /\ checks' = [k \in Checks |-> IF checks[k].at = "noticed" THEN [checks[k] EXCEPT !.at = "silent"] ELSE checks[k]]
  /\ UNCHANGED <<managerVars, version, binary, doVars, updates, due, pushes>>

-----------------------------------------------------------------------------
\* The Durable Object

\* Mutant: only the version is kept.
HandleUpdateStartingUnflagged ==
  /\ connected /\ toManager # <<>>
  /\ toManager' = Tail(toManager) /\ fromVersion' = Head(toManager)
  /\ UNCHANGED <<managerVars, agentVars, link, toAgent, connected, flag, toVersion, alarm, mails, historyVars>>

HandleUpdateStarting ==
  /\ connected /\ toManager # <<>>
  /\ toManager' = Tail(toManager)
  /\ fromVersion' = Head(toManager) /\ flag' = TRUE
  /\ UNCHANGED <<managerVars, agentVars, link, toAgent, connected, toVersion, alarm, mails, historyVars>>

\* The close event comes after the last message.
HandleAgentClose ==
  /\ connected /\ ~link /\ toManager = <<>>
  /\ connected' = FALSE
  /\ alarm' = IF flag THEN "long" ELSE "short"
  /\ UNCHANGED <<managerVars, agentVars, link, toAgent, toManager, flag, fromVersion, toVersion, mails, historyVars>>

\* The agent is back: the alarm and the flags are cleared, and an update is announced.
HandleAgentAuth ==
  /\ ~link /\ ~connected
  /\ link' = TRUE /\ connected' = TRUE /\ alarm' = "none" /\ flag' = FALSE
  /\ mails' = IF fromVersion # 0 /\ toVersion # 0 /\ fromVersion # toVersion
              THEN Append(mails, [from |-> fromVersion, to |-> toVersion, runs |-> version, updates |-> updates])
              ELSE mails
  /\ fromVersion' = 0 /\ toVersion' = 0
  /\ UNCHANGED <<managerVars, agentVars, toAgent, toManager, historyVars>>

\* The alarm is over: the alert is that of AgentPresence.
Alarm ==
  /\ alarm # "none" /\ alarm' = "none" /\ flag' = FALSE
  /\ UNCHANGED <<managerVars, agentVars, link, toAgent, toManager, connected, fromVersion, toVersion, mails, historyVars>>

CheckStep(k) == GetLatestVersion(k) \/ DownloadAndApply(k) \/ BeforeRestart(k) \/ Exec(k)
AgentStep == HandleUpdateAvailable \/ \E k \in Checks : CheckStep(k)
DoStep == HandleUpdateStarting \/ HandleAgentClose \/ HandleAgentAuth
UpdatesNext ==
  \/ AgentStep \/ DoStep \/ Release \/ Expire \/ Put \/ NotifyUpdate \/ Restart \/ Break \/ Alarm

\* Everybody goes on with what they have begun.
UpdatesSpec == UpdatesInit /\ [][UpdatesNext]_updateVars /\ WF_updateVars(AgentStep) /\ WF_updateVars(DoStep)

-----------------------------------------------------------------------------
\* Properties

\* Ten minutes are given to an agent that has gone down to update itself: the notice it sends
\* comes before the close, also when a reconnection has cleared the flag of the push.
GraceGiven == (cause = "update" /\ ~connected) => alarm # "short"

\* An update e-mail is sent only about an update that has taken place, and about each but
\* once, if no restart failed that the DO was told of; the version it names may be another.
MailsTrue ==
  ~misled =>
    \A i \in 1 .. Len(mails) :
      /\ mails[i].from < mails[i].runs
      /\ \A j \in 1 .. i - 1 : mails[j].updates < mails[i].updates

\* What is told of an update is so: its grace period, and its e-mail.
UpdatesTold == GraceGiven /\ MailsTrue

\* A version that is pushed to a connected agent whose updater has nothing in hand comes to
\* run, if nothing fails any more.
Updated == \A v \in Versions : due = v ~> version >= v
=============================================================================
