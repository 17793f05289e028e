------------------------- MODULE MCConnection_proofs -------------------------
(***************************************************************************)
(* What holds of MCConnection for all its constants, part after part.  Of  *)
(* AgentUpdates: the types; the agent that goes down to update itself is   *)
(* given the longer grace period; and the e-mail about an update is of one *)
(* that took place.  Of RconSessions: what RconSessions_proofs says of it, *)
(* for terminals and for one-shot commands.  Of LogStreams and AgentLog:   *)
(* what is streamed is what is watched, in order and alike for whoever     *)
(* watches.  The end puts them together.                                   *)
(***************************************************************************)
EXTENDS MCConnection, SequenceTheorems, TLAPS

-----------------------------------------------------------------------------
(* AgentUpdates                                                            *)

\* As much of the types as the argument needs.
Typed ==
  /\ checks \in [Checks -> {NoCheck} \cup
       [at : {"asking"}, bust : BOOLEAN] \cup [at : {"found", "renamed", "noticed", "silent"}, version : Versions]]
  /\ toManager \in Seq(Versions) /\ version \in Versions /\ binary \in Versions
  /\ released \in Versions /\ cache \in Versions \cup {0} /\ puts \subseteq Versions

\* The DO has the notice of this update, or will find it before the close.
Known == flag \/ toManager # <<>>
Noticed == \E k \in Checks : checks[k].at = "noticed"

\* A connection the agent has is one the DO has, and a notice is sent on a connection; it is
\* known while the connection lasts, and after it until the DO has seen it close.
NoticeInv ==
  /\ link => connected
  /\ connected => alarm = "none"
  /\ Noticed => link /\ Known
  /\ cause = "update" /\ ~link /\ connected => Known
  /\ GraceGiven

-----------------------------------------------------------------------------
LEMMA NewTyped ==
  /\ NewProcess \in [Checks -> {NoCheck} \cup
       [at : {"asking"}, bust : BOOLEAN] \cup [at : {"found", "renamed", "noticed", "silent"}, version : Versions]]
  /\ \A k \in Checks : NewProcess[k].at # "noticed"
BY DEF NewProcess, NoCheck

\* What a broken connection leaves of the notices, and that it leaves all of them when there
\* was none to break.
LEMMA LostTyped ==
  ASSUME toManager \in Seq(Versions), Lost
  PROVE  toManager' \in Seq(Versions) /\ (~link => toManager' = toManager)
<1>1. PICK n \in IF link THEN 0 .. Len(toManager) ELSE {Len(toManager)} :
        toManager' = SubSeq(toManager, 1, n)
  BY DEF Lost
<1>2. n \in 0 .. Len(toManager)
  BY <1>1
<1>3. toManager' \in Seq(Versions)
  BY <1>1, <1>2
<1>4. ~link => toManager' = toManager
  BY <1>1
<1> QED
  BY <1>3, <1>4

LEMMA InitInv ==
  ASSUME UpdatesInit
  PROVE  Typed /\ NoticeInv
BY NewTyped, UpdatesAssumption DEF UpdatesInit, Typed, Versions, NoticeInv, GraceGiven, Noticed

\* A step of the agent's.
LEMMA CheckInv ==
  ASSUME Typed, NoticeInv, NEW k \in Checks, CheckStep(k)
  PROVE  (Typed /\ NoticeInv)'
<1>1. CASE GetLatestVersion(k)
  <2> PICK answer \in Versions :
        /\ puts' \subseteq Versions
        /\ checks' = [checks EXCEPT ![k] =
             IF IsNewerVersion(answer) THEN [at |-> "found", version |-> answer] ELSE NoCheck]
    BY <1>1 DEF GetLatestVersion, Typed
  <2>1. UNCHANGED <<released, cache, version, binary, link, toAgent, toManager, doVars, cause>>
    BY <1>1 DEF GetLatestVersion
  <2>2. Noticed' => Noticed
    BY DEF Noticed, Typed, NoCheck
  <2> QED
    BY <2>1, <2>2 DEF Typed, NoticeInv, GraceGiven, Known, doVars
<1>2. CASE DownloadAndApply(k)
  <2>1. checks[k] \in [at : {"found", "renamed", "noticed", "silent"}, version : Versions]
    BY <1>2 DEF DownloadAndApply, Typed, NoCheck
  <2>2. checks' \in [Checks -> {NoCheck} \cup
          [at : {"asking"}, bust : BOOLEAN] \cup [at : {"found", "renamed", "noticed", "silent"}, version : Versions]]
    BY <1>2, <2>1 DEF DownloadAndApply, Typed, Ends
  <2>3. Noticed' => Noticed
    BY <1>2, <2>1 DEF DownloadAndApply, Noticed, Typed, Ends, NoCheck
  <2> QED
    BY <1>2, <2>1, <2>2, <2>3
    DEF DownloadAndApply, Typed, NoticeInv, GraceGiven, Known, doVars, managerVars
<1>3. CASE BeforeRestart(k)
  <2>1. checks[k] \in [at : {"found", "renamed", "noticed", "silent"}, version : Versions]
    BY <1>3 DEF BeforeRestart, Typed, NoCheck
  <2>2. checks' \in [Checks -> {NoCheck} \cup
          [at : {"asking"}, bust : BOOLEAN] \cup [at : {"found", "renamed", "noticed", "silent"}, version : Versions]]
    BY <1>3, <2>1 DEF BeforeRestart, Typed
  <2>3. toManager' \in Seq(Versions) /\ (link => toManager' # <<>>)
        /\ (toManager # <<>> => toManager' # <<>>)
    BY <1>3 DEF BeforeRestart, Typed
  <2>4. Noticed' => link \/ Noticed
    BY <1>3, <2>1 DEF BeforeRestart, Noticed, Typed
  <2> QED
    BY <1>3, <2>2, <2>3, <2>4
    DEF BeforeRestart, Typed, NoticeInv, GraceGiven, Known, doVars, managerVars, historyVars
<1>4. CASE Exec(k)
  <2>1. UNCHANGED <<managerVars, binary, toManager, doVars>>
    BY <1>4 DEF Exec
  <2>2. CASE Replaced /\ cause' = IF link THEN (IF checks[k].at = "noticed" THEN "update" ELSE "unnoticed") ELSE cause
    <3>1. ~Noticed'
      BY <2>2, NewTyped DEF Replaced, Noticed
    <3>2. Known' = Known
      BY <2>1 DEF Known, doVars
    <3>3. checks[k].at = "noticed" => Noticed
      BY DEF Noticed
    <3> QED
      BY <2>1, <2>2, <3>1, <3>2, <3>3, NewTyped
      DEF Replaced, Typed, NoticeInv, GraceGiven, doVars, managerVars
  <2>3. CASE Ends(k) /\ cause' = cause /\ UNCHANGED <<version, link>>
    <3>1. Noticed' => Noticed
      BY <2>3 DEF Ends, Noticed, Typed, NoCheck
    <3> QED
      BY <2>1, <2>3, <3>1 DEF Ends, Typed, NoticeInv, GraceGiven, Known, doVars, managerVars
  <2> QED
    BY <1>4, <2>2, <2>3 DEF Exec
<1> QED
  BY <1>1, <1>2, <1>3, <1>4 DEF CheckStep

\* The other steps.
LEMMA StepInv ==
  ASSUME Typed, NoticeInv, [UpdatesNext]_updateVars
  PROVE  (Typed /\ NoticeInv)'
<1>1. CASE HandleUpdateAvailable
  <2>1. Noticed' => Noticed
    BY <1>1 DEF HandleUpdateAvailable, Noticed, Typed
  <2> QED
    BY <1>1, <2>1
    DEF HandleUpdateAvailable, Typed, NoticeInv, GraceGiven, Known, doVars, managerVars, historyVars
<1>2. ASSUME NEW k \in Checks, CheckStep(k)
      PROVE  (Typed /\ NoticeInv)'
  BY <1>2, CheckInv
<1>3. CASE HandleUpdateStarting
  <2>1. toManager' \in Seq(Versions)
    BY <1>3 DEF HandleUpdateStarting, Typed
  <2> QED
    BY <1>3, <2>1
    DEF HandleUpdateStarting, Typed, NoticeInv, GraceGiven, Known, Noticed, agentVars, managerVars, historyVars
<1>4. CASE HandleAgentClose
  BY <1>4
  DEF HandleAgentClose, Typed, NoticeInv, GraceGiven, Known, Noticed, agentVars, managerVars, historyVars
<1>5. CASE HandleAgentAuth
  BY <1>5
  DEF HandleAgentAuth, Typed, NoticeInv, GraceGiven, Known, Noticed, agentVars, managerVars, historyVars
<1>6. CASE Release \/ Expire \/ Put
  <2>1. released' \in Versions /\ cache' \in Versions \cup {0} /\ puts' \subseteq Versions
    <3>1. CASE Release
      BY <3>1, UpdatesAssumption DEF Release, Typed, Versions
    <3>2. CASE Expire
      BY <3>2 DEF Expire, Typed
    <3>3. CASE Put
      BY <3>3 DEF Put, Typed
    <3> QED
      BY <1>6, <3>1, <3>2, <3>3
  <2>2. UNCHANGED <<agentVars, link, toManager, doVars, historyVars>>
    BY <1>6 DEF Release, Expire, Put
  <2> QED
    BY <2>1, <2>2 DEF Typed, NoticeInv, GraceGiven, Known, Noticed, agentVars, doVars, historyVars
<1>7. CASE NotifyUpdate
  BY <1>7 DEF NotifyUpdate, Typed, NoticeInv, GraceGiven, Known, Noticed, agentVars, managerVars
<1>8. CASE Restart
  <2>1. ~Noticed'
    BY <1>8, NewTyped DEF Restart, Replaced, Noticed
  <2>2. toManager' \in Seq(Versions) /\ (~link => toManager' = toManager)
    BY <1>8, LostTyped DEF Restart, Typed
  <2> QED
    BY <1>8, <2>1, <2>2, NewTyped
    DEF Restart, Replaced, Typed, NoticeInv, GraceGiven, Known, doVars, managerVars
<1>9. CASE Break
  <2>1. ~Noticed'
    BY <1>9 DEF Break, Noticed, Typed, NoCheck
  <2>2. toManager' \in Seq(Versions)
    BY <1>9, LostTyped DEF Break, Typed
  <2>3. checks' \in [Checks -> {NoCheck} \cup
          [at : {"asking"}, bust : BOOLEAN] \cup [at : {"found", "renamed", "noticed", "silent"}, version : Versions]]
    BY <1>9 DEF Break, Typed, NoCheck
  <2> QED
    BY <1>9, <2>1, <2>2, <2>3 DEF Break, Typed, NoticeInv, GraceGiven, Known, doVars, managerVars
<1>10. CASE Alarm
  BY <1>10 DEF Alarm, Typed, NoticeInv, GraceGiven, Known, Noticed, agentVars, managerVars, historyVars
<1>11. CASE UNCHANGED updateVars
  BY <1>11
  DEF updateVars, Typed, NoticeInv, GraceGiven, Known, Noticed, agentVars, managerVars, doVars, historyVars
<1> QED
  BY <1>1, <1>2, <1>3, <1>4, <1>5, <1>6, <1>7, <1>8, <1>9, <1>10, <1>11
  DEF UpdatesNext, AgentStep, DoStep

\* An agent that went down to update itself is not given the short grace period, whatever
\* pushes, restarts and reconnections came before.
THEOREM GraceIsGiven == UpdatesSpec => []GraceGiven
<1> DEFINE Inv == Typed /\ NoticeInv
<1>1. UpdatesInit => Inv
  BY InitInv
<1>2. Inv /\ [UpdatesNext]_updateVars => Inv'
  BY StepInv
<1>3. Inv => GraceGiven
  BY DEF NoticeInv
<1> QED
  BY <1>1, <1>2, <1>3, PTL DEF UpdatesSpec

-----------------------------------------------------------------------------
(***************************************************************************)
(* The types, all of them.                                                 *)
(***************************************************************************)

Mail == [from : Versions, to : Versions, runs : Versions, updates : Nat]
Causes == {"none", "fault", "update", "unnoticed"}

\* What is counted and remembered.
Counted ==
  /\ updates \in Nat /\ misled \in BOOLEAN /\ cause \in Causes /\ due \in Versions \cup {0}
  /\ pushes \in 0 .. Pushes /\ faults \in 0 .. Faults
  /\ link \in BOOLEAN /\ toAgent \in 0 .. Pushes /\ toAgent <= pushes

\* What the DO has in storage.
Stored ==
  /\ connected \in BOOLEAN /\ flag \in BOOLEAN
  /\ fromVersion \in Versions \cup {0} /\ toVersion \in Versions \cup {0}
  /\ alarm \in {"none", "short", "long"} /\ mails \in Seq(Mail)

TypeInv == Typed /\ NoticeInv /\ Counted /\ Stored

LEMMA FaultCounted ==
  ASSUME faults \in 0 .. Faults, Fault \/ Spared
  PROVE  faults' \in 0 .. Faults
BY UpdatesAssumption DEF Fault, Spared

LEMMA CountedKept ==
  ASSUME Typed, Counted, [UpdatesNext]_updateVars
  PROVE  Counted'
<1> USE DEF Counted, Causes
<1>1. CASE HandleUpdateAvailable
  BY <1>1, UpdatesAssumption DEF HandleUpdateAvailable, historyVars
<1>2. ASSUME NEW k \in Checks, CheckStep(k)
      PROVE  Counted'
  <2>1. CASE GetLatestVersion(k)
    <3>1. Fault \/ Spared
      BY <2>1 DEF GetLatestVersion
    <3>2. faults' \in 0 .. Faults
      BY <3>1, FaultCounted
    <3> QED
      BY <2>1, <3>2 DEF GetLatestVersion
  <2>2. CASE DownloadAndApply(k)
    BY <2>2, FaultCounted DEF DownloadAndApply
  <2>3. CASE BeforeRestart(k)
    BY <2>3 DEF BeforeRestart, historyVars
  <2>4. CASE Exec(k)
    <3>1. Fault \/ Spared
      BY <2>4 DEF Exec
    <3>2. faults' \in 0 .. Faults
      BY <3>1, FaultCounted
    <3>3. toAgent' \in {0, toAgent} /\ updates' \in {updates, updates + 1} /\ UNCHANGED <<due, pushes>>
      BY <2>4 DEF Exec, Replaced
    <3>4. link' \in BOOLEAN
      BY <2>4 DEF Exec, Replaced
    <3>5. misled' \in BOOLEAN
      BY <2>4 DEF Exec
    <3>6. cause' \in Causes
      BY <2>4 DEF Exec
    <3> QED
      BY <3>2, <3>3, <3>4, <3>5, <3>6, UpdatesAssumption
  <2> QED
    BY <1>2, <2>1, <2>2, <2>3, <2>4 DEF CheckStep
<1>3. CASE HandleUpdateStarting \/ HandleAgentClose \/ HandleAgentAuth \/ Alarm \/ Release \/ Expire \/ Put
  BY <1>3 DEF HandleUpdateStarting, HandleAgentClose, HandleAgentAuth, Alarm, Release, Expire, Put, historyVars
<1>4. CASE NotifyUpdate
  BY <1>4, UpdatesAssumption DEF NotifyUpdate, BroadcastUpdate, Typed
<1>5. CASE Restart
  <2>1. faults' \in 0 .. Faults
    BY <1>5, FaultCounted DEF Restart
  <2>2. misled' \in BOOLEAN
    BY <1>5 DEF Restart, Mislead
  <2>3. updates' \in Nat /\ UNCHANGED <<due, pushes>> /\ toAgent' = 0
    BY <1>5 DEF Restart, Replaced
  <2>4. cause' \in Causes
    BY <1>5 DEF Restart
  <2>5. link' \in BOOLEAN
    BY <1>5 DEF Restart, Replaced
  <2> QED
    BY <2>1, <2>2, <2>3, <2>4, <2>5, UpdatesAssumption
<1>6. CASE Break
  <2>1. faults' \in 0 .. Faults
    BY <1>6, FaultCounted DEF Break
  <2>2. misled' \in BOOLEAN
    BY <1>6 DEF Break, Mislead
  <2>3. UNCHANGED <<updates, due, pushes>> /\ toAgent' = 0
    BY <1>6 DEF Break
  <2>4. cause' \in Causes
    BY <1>6 DEF Break
  <2>5. link' \in BOOLEAN
    BY <1>6 DEF Break
  <2> QED
    BY <2>1, <2>2, <2>3, <2>4, <2>5, UpdatesAssumption
<1>7. CASE UNCHANGED updateVars
  BY <1>7 DEF updateVars, historyVars
<1> QED
  BY <1>1, <1>2, <1>3, <1>4, <1>5, <1>6, <1>7 DEF UpdatesNext, AgentStep, DoStep

LEMMA StoredKept ==
  ASSUME Typed, Counted, Stored, [UpdatesNext]_updateVars
  PROVE  Stored'
<1> USE DEF Stored
<1>1. ASSUME UNCHANGED doVars
      PROVE  Stored'
  BY <1>1 DEF doVars
<1>2. CASE NotifyUpdate
  BY <1>2 DEF NotifyUpdate, Typed
<1>3. CASE HandleUpdateStarting
  <2>1. Head(toManager) \in Versions
    BY <1>3 DEF HandleUpdateStarting, Typed
  <2> QED
    BY <1>3, <2>1 DEF HandleUpdateStarting
<1>4. CASE HandleAgentClose
  BY <1>4 DEF HandleAgentClose
<1>5. CASE HandleAgentAuth
  <2> DEFINE mail == [from |-> fromVersion, to |-> toVersion, runs |-> version, updates |-> updates]
  <2>1. fromVersion # 0 /\ toVersion # 0 => mail \in Mail
    BY DEF Typed, Counted, Mail
  <2>2. mails' = mails \/ (mail \in Mail /\ mails' = Append(mails, mail))
    BY <1>5, <2>1 DEF HandleAgentAuth
  <2> HIDE DEF mail
  <2>3. mails' \in Seq(Mail)
    BY <2>2
  <2> QED
    BY <1>5, <2>3 DEF HandleAgentAuth
<1>6. CASE Alarm
  BY <1>6 DEF Alarm
<1>7. HandleUpdateAvailable \/ Release \/ Expire \/ Put \/ Restart \/ Break \/ UNCHANGED updateVars
      => UNCHANGED doVars
  BY DEF HandleUpdateAvailable, Release, Expire, Put, Restart, Break, updateVars
<1>8. ASSUME NEW k \in Checks, CheckStep(k)
      PROVE  UNCHANGED doVars
  BY <1>8 DEF CheckStep, GetLatestVersion, DownloadAndApply, BeforeRestart, Exec
<1> QED
  BY <1>1, <1>2, <1>3, <1>4, <1>5, <1>6, <1>7, <1>8 DEF UpdatesNext, AgentStep, DoStep

\* The steps of an update, with no regard to whether they are ever taken.
Updating == UpdatesInit /\ [][UpdatesNext]_updateVars

LEMMA TypeInvariant == Updating => []TypeInv
<1>1. UpdatesInit => TypeInv
  <2> SUFFICES ASSUME UpdatesInit
               PROVE  TypeInv
    OBVIOUS
  <2>1. link \in BOOLEAN /\ misled \in BOOLEAN /\ connected \in BOOLEAN /\ flag \in BOOLEAN
    BY DEF UpdatesInit
  <2>2. Counted
    <3>1. updates = 0 /\ cause = "none" /\ due = 0 /\ pushes = 0 /\ faults = 0 /\ toAgent = 0
      BY DEF UpdatesInit
    <3> QED
      BY <2>1, <3>1, UpdatesAssumption DEF Counted, Causes
  <2>3. Stored
    <3>1. fromVersion = 0 /\ toVersion = 0 /\ alarm = "none" /\ mails = <<>>
      BY DEF UpdatesInit
    <3> QED
      BY <2>1, <3>1 DEF Stored
  <2> QED
    BY <2>2, <2>3, InitInv DEF TypeInv
<1>2. TypeInv /\ [UpdatesNext]_updateVars => TypeInv'
  BY StepInv, CountedKept, StoredKept DEF TypeInv
<1> QED
  BY <1>1, <1>2, PTL DEF Updating

\* Every variable keeps its type, and an agent that is connected has no alarm set, however
\* many pushes, checks and failures there are.
THEOREM TypeCorrect == UpdatesSpec => []TypeOK
<1>1. TypeInv => TypeOK
  BY DEF TypeInv, Typed, NoticeInv, Counted, Causes, Stored, TypeOK, Mail
<1> QED
  BY <1>1, TypeInvariant, PTL DEF UpdatesSpec, Updating

-----------------------------------------------------------------------------
(***************************************************************************)
(* The e-mails.  A notice is sent on a connection that the DO has, by a    *)
(* goroutine that is about to replace the process by a newer binary; so    *)
(* what the DO knows of it, once the connection is gone and unless the     *)
(* restart failed, is the version of a process that has been replaced, and *)
(* an update later than all that have been announced.                      *)
(***************************************************************************)

\* The binary on the disk is newer once a goroutine has put it there.
Replacing == \E k \in Checks : checks[k].at \in {"renamed", "noticed", "silent"}
Newer ==
  /\ binary >= version
  /\ \A k \in Checks : checks[k].at = "found" => checks[k].version > version
  /\ Replacing => binary > version

\* The versions the DO has been told, or will be before the close.
Told == {toManager[n] : n \in 1 .. Len(toManager)} \cup ({fromVersion} \ {0})

Follows ==
  /\ link /\ Told # {} => Noticed /\ Told = {version}
  /\ ~link => \A v \in Told : v < version
  /\ \A i \in 1 .. Len(mails) : mails[i].updates <= updates
  /\ ~link /\ Told # {} => \A i \in 1 .. Len(mails) : mails[i].updates < updates

MailInv ==
  /\ Newer /\ (~misled => Follows /\ MailsTrue)
  /\ ~connected => toManager = <<>>

LEMMA NewProcessNew ==
  \A k \in Checks : NewProcess[k].at \notin {"found", "renamed", "noticed", "silent"}
BY DEF NewProcess, NoCheck

LEMMA VersionsNumbers == Versions \subseteq Nat \ {0}
BY UpdatesAssumption DEF Versions

LEMMA NewerKept ==
  ASSUME TypeInv, Newer, [UpdatesNext]_updateVars
  PROVE  Newer'
<1> USE DEF TypeInv
<1>1. binary \in Nat /\ version \in Nat
  BY VersionsNumbers DEF Typed
<1>2. CASE UNCHANGED <<version, binary, checks>>
  BY <1>2 DEF Newer, Replacing
<1>3. CASE HandleUpdateAvailable
  <2>1. PICK k \in Checks : checks' = [checks EXCEPT ![k] = [at |-> "asking", bust |-> TRUE]]
    BY <1>3 DEF HandleUpdateAvailable
  <2>2. UNCHANGED <<version, binary>>
    BY <1>3 DEF HandleUpdateAvailable
  <2>3. \A j \in Checks : checks'[j].at = "asking" \/ checks'[j] = checks[j]
    BY <2>1 DEF Typed
  <2> QED
    BY <2>2, <2>3 DEF Newer, Replacing
<1>4. ASSUME NEW k \in Checks, CheckStep(k)
      PROVE  Newer'
  <2>1. CASE GetLatestVersion(k)
    <3>1. PICK answer \in Versions : checks' = [checks EXCEPT ![k] =
            IF IsNewerVersion(answer) THEN [at |-> "found", version |-> answer] ELSE NoCheck]
      BY <2>1 DEF GetLatestVersion
    <3>2. \A j \in Checks : \/ checks'[j] = checks[j] \/ checks'[j].at = "none"
                            \/ checks'[j].at = "found" /\ checks'[j].version > version
      BY <3>1 DEF IsNewerVersion, NoCheck, Typed
    <3>3. UNCHANGED <<version, binary>>
      BY <2>1 DEF GetLatestVersion
    <3> QED
      BY <3>2, <3>3 DEF Newer, Replacing
  <2>2. CASE DownloadAndApply(k)
    <3>1. UNCHANGED version
      BY <2>2 DEF DownloadAndApply
    <3>2. checks[k] \in [at : {"found", "renamed", "noticed", "silent"}, version : Versions]
      BY <2>2 DEF DownloadAndApply, Typed, NoCheck
    <3>3. checks[k].version \in Nat /\ checks[k].version > version
      BY <2>2, <3>2, VersionsNumbers DEF DownloadAndApply, Newer
    <3>4. CASE binary' = checks[k].version /\ checks' = [checks EXCEPT ![k].at = "renamed"]
      <4>1. \A j \in Checks : checks'[j].at = "renamed" \/ checks'[j] = checks[j]
        BY <3>2, <3>4 DEF Typed
      <4> QED
        BY <1>1, <3>1, <3>3, <3>4, <4>1 DEF Newer
    <3>5. CASE Ends(k) /\ UNCHANGED binary
      <4>1. \A j \in Checks : checks'[j].at = "none" \/ checks'[j] = checks[j]
        BY <3>5 DEF Ends, NoCheck, Typed
      <4> QED
        BY <3>1, <3>5, <4>1 DEF Newer, Replacing
    <3> QED
      BY <2>2, <3>4, <3>5 DEF DownloadAndApply
  <2>3. CASE BeforeRestart(k)
    <3>1. UNCHANGED <<version, binary>> /\ checks[k].at = "renamed"
          /\ checks' = [checks EXCEPT ![k].at = IF link THEN "noticed" ELSE "silent"]
      BY <2>3 DEF BeforeRestart
    <3>2. \A j \in Checks : \/ checks'[j] = checks[j] \/ checks'[j].at \in {"noticed", "silent"}
      BY <3>1 DEF Typed, NoCheck
    <3>3. Replacing
      BY <3>1 DEF Replacing
    <3> QED
      BY <3>1, <3>2, <3>3 DEF Newer
  <2>4. CASE Exec(k)
    <3>1. CASE Replaced /\ UNCHANGED binary
      BY <1>1, <3>1, NewProcessNew DEF Replaced, Newer, Replacing
    <3>2. CASE Ends(k) /\ UNCHANGED <<version, binary>>
      <4>1. \A j \in Checks : checks'[j].at = "none" \/ checks'[j] = checks[j]
        BY <3>2 DEF Ends, NoCheck, Typed
      <4> QED
        BY <3>2, <4>1 DEF Newer, Replacing
    <3> QED
      BY <2>4, <3>1, <3>2 DEF Exec
  <2> QED
    BY <1>4, <2>1, <2>2, <2>3, <2>4 DEF CheckStep
<1>5. CASE Restart
  BY <1>1, <1>5, NewProcessNew DEF Restart, Replaced, Newer, Replacing
<1>6. CASE Break
  <2>1. UNCHANGED <<version, binary>>
    BY <1>6 DEF Break
  <2>2. \A j \in Checks : \/ checks'[j] = checks[j]
                          \/ checks'[j].at = "silent" /\ checks[j].at = "noticed"
    BY <1>6 DEF Break, Typed, NoCheck
  <2>3. Replacing' => Replacing
    BY <2>2 DEF Replacing
  <2>4. \A j \in Checks : checks'[j].at = "found" => checks'[j] = checks[j]
    BY <2>2
  <2> QED
    BY <2>1, <2>3, <2>4 DEF Newer
<1>7. HandleUpdateStarting \/ HandleAgentClose \/ HandleAgentAuth \/ Alarm \/ Release \/ Expire \/ Put
      \/ NotifyUpdate \/ UNCHANGED updateVars => UNCHANGED <<version, binary, checks>>
  BY DEF HandleUpdateStarting, HandleAgentClose, HandleAgentAuth, Alarm, Release, Expire, Put, NotifyUpdate,
         agentVars, updateVars
<1> QED
  BY <1>2, <1>3, <1>4, <1>5, <1>6, <1>7 DEF UpdatesNext, AgentStep, DoStep

\* What is on its way is of versions, and goes when there is none.
LEMMA ToldSome ==
  ASSUME TypeInv
  PROVE  Told \subseteq Versions /\ (Told = {} <=> toManager = <<>> /\ fromVersion = 0)
<1>1. toManager \in Seq(Versions) /\ fromVersion \in Versions \cup {0} /\ 0 \notin Versions
  BY VersionsNumbers DEF TypeInv, Typed, Stored
<1>2. toManager # <<>> => toManager[1] \in Told
  BY <1>1 DEF Told
<1>3. \A n \in 1 .. Len(toManager) : toManager[n] \in Versions
  BY <1>1
<1>4. toManager = <<>> => 1 .. Len(toManager) = {}
  OBVIOUS
<1> QED
  BY <1>1, <1>2, <1>3, <1>4 DEF Told

\* A step that sends, takes and announces nothing, and ends no goroutine that has sent.
LEMMA QuietFollows ==
  ASSUME TypeInv, MailInv, UNCHANGED <<link, toManager, fromVersion, version, updates, mails, misled>>,
         Noticed => Noticed'
  PROVE  ~misled' => (Follows /\ MailsTrue)'
<1>1. Told' = Told
  BY DEF Told
<1> QED
  BY <1>1 DEF MailInv, Follows, MailsTrue

\* Each e-mail carries the number of updates there had been.
LEMMA MailsCount ==
  ASSUME TypeInv
  PROVE  \A i \in 1 .. Len(mails) : mails[i].updates \in Nat
<1>1. mails \in Seq(Mail)
  BY DEF TypeInv, Stored
<1>2. \A i \in 1 .. Len(mails) : mails[i] \in Mail
  BY <1>1
<1>3. \A mail \in Mail : mail.updates \in Nat
  BY DEF Mail
<1> QED
  BY <1>2, <1>3

\* What is left of what was told, and all of it where there was no connection to break.
LEMMA ToldLost ==
  ASSUME TypeInv, Lost, UNCHANGED fromVersion
  PROVE  Told' \subseteq Told /\ (~link => Told' = Told)
<1>1. toManager \in Seq(Versions)
  BY DEF TypeInv, Typed
<1>2. PICK n \in IF link THEN 0 .. Len(toManager) ELSE {Len(toManager)} : toManager' = SubSeq(toManager, 1, n)
  BY DEF Lost
<1>3. n \in 0 .. Len(toManager)
  BY <1>1, <1>2
<1>4. Len(toManager') = n /\ \A i \in 1 .. n : toManager'[i] = toManager[i] /\ i \in 1 .. Len(toManager)
  BY <1>1, <1>2, <1>3
<1>5. ~link => toManager' = toManager
  BY <1>1, LostTyped
<1> QED
  BY <1>4, <1>5 DEF Told

\* The connection goes without a notice just sent, be the process replaced or not.
LEMMA DroppedFollows ==
  ASSUME TypeInv, MailInv, Lost, Mislead, UNCHANGED <<fromVersion, mails>>, ~link',
         version' \in {version, binary}, updates' \in {updates, updates + 1}
  PROVE  ~misled' => (Follows /\ MailsTrue)'
<1> SUFFICES ASSUME ~misled'
             PROVE  (Follows /\ MailsTrue)'
  OBVIOUS
<1>1. ~misled /\ ~Noticed
  BY DEF Mislead, Noticed
<1>2. Follows /\ MailsTrue
  BY <1>1 DEF MailInv
<1>3. link => Told' = {}
  BY <1>1, <1>2, ToldLost DEF Follows
<1>4. ~link => Told' = Told
  BY ToldLost
<1>5. version \in Nat /\ binary \in Nat /\ binary >= version /\ updates \in Nat
  BY VersionsNumbers DEF TypeInv, Typed, Counted, MailInv, Newer
<1>6. \A v \in Told' : v < version'
  <2> SUFFICES ASSUME NEW v \in Told' PROVE v < version'
    OBVIOUS
  <2>1. v \in Told /\ ~link
    BY <1>3, <1>4
  <2>2. v \in Nat
    BY <2>1, ToldSome, VersionsNumbers
  <2>3. v < version
    BY <2>1, <1>2 DEF Follows
  <2> QED
    BY <2>2, <2>3, <1>5
<1>7. \A i \in 1 .. Len(mails) : mails[i].updates \in Nat
  BY MailsCount
<1>8. \A i \in 1 .. Len(mails') : mails'[i].updates <= updates'
  BY <1>2, <1>5, <1>7 DEF Follows
<1>9. Told' # {} => \A i \in 1 .. Len(mails') : mails'[i].updates < updates'
  BY <1>2, <1>3, <1>4, <1>5, <1>7 DEF Follows
<1>10. MailsTrue'
  BY <1>1, <1>2 DEF MailsTrue
<1> QED
  BY <1>6, <1>8, <1>9, <1>10 DEF Follows

\* A goroutine goes on.
LEMMA CheckFollows ==
  ASSUME TypeInv, MailInv, NEW k \in Checks, CheckStep(k)
  PROVE  ~misled' => (Follows /\ MailsTrue)'
<1>1. CASE GetLatestVersion(k)
  <2>1. UNCHANGED <<link, toManager, fromVersion, version, updates, mails, misled>>
    BY <1>1 DEF GetLatestVersion, doVars
  <2>2. \A j \in Checks : j # k => checks'[j] = checks[j]
    BY <1>1 DEF GetLatestVersion, TypeInv, Typed
  <2>3. Noticed => Noticed'
    BY <1>1, <2>2 DEF GetLatestVersion, Noticed
  <2> QED
    BY <2>1, <2>3, QuietFollows
<1>2. CASE DownloadAndApply(k)
  <2>1. UNCHANGED <<link, toManager, fromVersion, version, updates, mails, misled>>
    BY <1>2 DEF DownloadAndApply, doVars
  <2>2. \A j \in Checks : j # k => checks'[j] = checks[j]
    BY <1>2 DEF DownloadAndApply, Ends, TypeInv, Typed
  <2>3. Noticed => Noticed'
    BY <1>2, <2>2 DEF DownloadAndApply, Noticed
  <2> QED
    BY <2>1, <2>3, QuietFollows
<1>3. CASE BeforeRestart(k)
  <2>1. checks[k].at = "renamed" /\ checks' = [checks EXCEPT ![k].at = IF link THEN "noticed" ELSE "silent"]
        /\ UNCHANGED <<link, fromVersion, version, updates, mails, misled>>
        /\ toManager' = IF link THEN Append(toManager, version) ELSE toManager
    BY <1>3 DEF BeforeRestart, doVars, historyVars
  <2>2. \A j \in Checks : j # k => checks'[j] = checks[j]
    BY <2>1 DEF TypeInv, Typed
  <2>3. CASE ~link
    <3>1. Noticed => Noticed'
      BY <2>1, <2>2 DEF Noticed
    <3> QED
      BY <2>1, <2>3, <3>1, QuietFollows
  <2>4. CASE link
    <3>1. checks'[k].at = "noticed"
      BY <2>1, <2>4 DEF TypeInv, Typed, NoCheck
    <3>2. Noticed'
      BY <3>1 DEF Noticed
    <3>3. toManager \in Seq(Versions) /\ version \in Versions
      BY DEF TypeInv, Typed
    <3>4. Len(toManager') = Len(toManager) + 1
          /\ \A n \in 1 .. Len(toManager') : toManager'[n] = IF n = Len(toManager) + 1 THEN version ELSE toManager[n]
      BY <2>1, <2>4, <3>3
    <3>5. Told' = Told \cup {version}
      <4>1. \A v \in Told' : v \in Told \cup {version}
        BY <2>1, <3>3, <3>4 DEF Told
      <4>2. \A v \in Told : v \in Told'
        BY <2>1, <3>3, <3>4 DEF Told
      <4>3. version \in Told'
        BY <3>3, <3>4 DEF Told
      <4> QED
        BY <4>1, <4>2, <4>3
    <3> QED
      BY <2>1, <2>4, <3>2, <3>5 DEF MailInv, Follows, MailsTrue
  <2> QED
    BY <2>3, <2>4
<1>4. CASE Exec(k)
  <2>1. UNCHANGED <<toManager, fromVersion, mails>>
    BY <1>4 DEF Exec, doVars
  <2>2. CASE Replaced /\ UNCHANGED <<binary, misled>>
    <3> SUFFICES ASSUME ~misled'
                 PROVE  (Follows /\ MailsTrue)'
      OBVIOUS
    <3>1. Follows /\ MailsTrue
      BY <2>2 DEF MailInv
    <3>2. Replacing
      BY <1>4 DEF Exec, Replacing
    <3>3. version \in Nat /\ version' = binary /\ binary \in Nat /\ binary > version /\ updates \in Nat
          /\ updates' = updates + 1 /\ ~link'
      BY <2>2, <3>2, VersionsNumbers DEF Replaced, TypeInv, Typed, Counted, MailInv, Newer
    <3>4. Told' = Told
      BY <2>1 DEF Told
    <3>5. \A v \in Told' : v < version'
      <4> SUFFICES ASSUME NEW v \in Told PROVE v < version'
        BY <3>4
      <4>1. v \in Nat /\ (v = version \/ v < version)
        BY <3>1, ToldSome, VersionsNumbers DEF Follows
      <4> QED
        BY <3>3, <4>1
    <3>6. \A i \in 1 .. Len(mails) : mails[i].updates \in Nat
      BY MailsCount
    <3>7. \A i \in 1 .. Len(mails') : mails'[i].updates < updates' /\ mails'[i].updates <= updates'
      BY <2>1, <3>1, <3>3, <3>6 DEF Follows
    <3>8. MailsTrue'
      BY <2>1, <2>2, <3>1 DEF MailsTrue
    <3> QED
      BY <3>3, <3>5, <3>7, <3>8 DEF Follows
  <2>3. CASE misled' = TRUE
    BY <2>3
  <2> QED
    BY <1>4, <2>2, <2>3 DEF Exec
<1> QED
  BY <1>1, <1>2, <1>3, <1>4 DEF CheckStep

LEMMA FollowsKept ==
  ASSUME TypeInv, MailInv, [UpdatesNext]_updateVars
  PROVE  ~misled' => (Follows /\ MailsTrue)'
<1>1. CASE HandleUpdateAvailable
  <2>1. PICK k \in Checks : checks[k] = NoCheck /\ checks' = [checks EXCEPT ![k] = [at |-> "asking", bust |-> TRUE]]
    BY <1>1 DEF HandleUpdateAvailable
  <2>2. Noticed => Noticed'
    BY <2>1 DEF Noticed, TypeInv, Typed, NoCheck
  <2>3. UNCHANGED <<link, toManager, fromVersion, version, updates, mails, misled>>
    BY <1>1 DEF HandleUpdateAvailable, doVars, historyVars
  <2> QED
    BY <2>2, <2>3, QuietFollows
<1>2. ASSUME NEW k \in Checks, CheckStep(k)
      PROVE  ~misled' => (Follows /\ MailsTrue)'
  BY <1>2, CheckFollows
<1>3. CASE Release \/ Expire \/ Put \/ NotifyUpdate \/ HandleAgentClose \/ Alarm \/ UNCHANGED updateVars
  <2>1. UNCHANGED <<link, toManager, fromVersion, version, updates, mails, misled, checks>>
    BY <1>3 DEF Release, Expire, Put, NotifyUpdate, HandleAgentClose, Alarm, updateVars, doVars, historyVars,
                agentVars
  <2>2. Noticed => Noticed'
    BY <2>1 DEF Noticed
  <2> QED
    BY <2>1, <2>2, QuietFollows
<1>4. CASE HandleUpdateStarting
  <2>1. toManager # <<>> /\ toManager' = Tail(toManager) /\ fromVersion' = Head(toManager)
        /\ UNCHANGED <<link, version, updates, mails, misled, checks>>
    BY <1>4 DEF HandleUpdateStarting, agentVars, historyVars
  <2>2. toManager \in Seq(Versions)
    BY DEF TypeInv, Typed
  <2>3. Len(toManager') = Len(toManager) - 1 /\ fromVersion' = toManager[1] /\ 1 \in 1 .. Len(toManager)
        /\ \A n \in 1 .. Len(toManager') : toManager'[n] = toManager[n + 1] /\ n + 1 \in 1 .. Len(toManager)
    BY <2>1, <2>2
  <2>4. Told' \subseteq Told
    BY <2>3 DEF Told
  <2>5. Noticed' <=> Noticed
    BY <2>1 DEF Noticed
  <2> QED
    BY <2>1, <2>4, <2>5 DEF MailInv, Follows, MailsTrue
<1>5. CASE HandleAgentAuth
  <2>1. ~link /\ ~connected /\ link' /\ fromVersion' = 0 /\ UNCHANGED <<toManager, version, updates, misled>>
    BY <1>5 DEF HandleAgentAuth, agentVars, historyVars
  <2>2. toManager = <<>>
    BY <2>1 DEF MailInv
  <2>3. Told' = {}
    BY <2>1, <2>2 DEF Told
  <2> SUFFICES ASSUME ~misled
               PROVE  (Follows /\ MailsTrue)'
    BY <2>1
  <2>4. Follows /\ MailsTrue /\ updates \in Nat /\ mails \in Seq(Mail)
    BY DEF MailInv, TypeInv, Counted, Stored
  <2>5. \A i \in 1 .. Len(mails) : mails[i].updates \in Nat
    BY MailsCount
  <2>6. CASE mails' = mails
    BY <2>1, <2>3, <2>4, <2>6 DEF Follows, MailsTrue
  <2>7. CASE /\ fromVersion # 0
             /\ mails' = Append(mails, [from |-> fromVersion, to |-> toVersion, runs |-> version, updates |-> updates])
    <3> DEFINE mail == [from |-> fromVersion, to |-> toVersion, runs |-> version, updates |-> updates]
    <3>1. fromVersion \in Told
      BY <2>7 DEF Told
    <3>2. mail.from < mail.runs /\ mail.updates = updates
      BY <2>1, <2>4, <3>1 DEF Follows
    <3>3. \A i \in 1 .. Len(mails) : mails[i].updates < updates
      BY <2>1, <2>4, <3>1 DEF Follows
    <3> HIDE DEF mail
    <3>4. Len(mails') = Len(mails) + 1
          /\ \A i \in 1 .. Len(mails') : mails'[i] = IF i = Len(mails) + 1 THEN mail ELSE mails[i]
      BY <2>4, <2>7 DEF mail
    <3>5. Len(mails) \in Nat
      BY <2>4
    <3>6. MailsTrue'
      <4> SUFFICES ASSUME NEW i \in 1 .. Len(mails')
                   PROVE  /\ mails'[i].from < mails'[i].runs
                          /\ \A j \in 1 .. i - 1 : mails'[j].updates < mails'[i].updates
        BY DEF MailsTrue
      <4>1. CASE i = Len(mails) + 1
        BY <4>1, <3>2, <3>3, <3>4, <3>5
      <4>2. CASE i # Len(mails) + 1
        <5>1. i \in 1 .. Len(mails) /\ mails'[i] = mails[i]
          BY <4>2, <3>4, <3>5
        <5>2. \A j \in 1 .. i - 1 : j \in 1 .. Len(mails) /\ mails'[j] = mails[j]
          BY <5>1, <3>4, <3>5
        <5> QED
          BY <5>1, <5>2, <2>4 DEF MailsTrue
      <4> QED
        BY <4>1, <4>2
    <3>7. \A i \in 1 .. Len(mails') : mails'[i].updates <= updates
      <4> SUFFICES ASSUME NEW i \in 1 .. Len(mails') PROVE mails'[i].updates <= updates
        OBVIOUS
      <4>1. CASE i = Len(mails) + 1
        BY <4>1, <2>4, <3>2, <3>4
      <4>2. CASE i # Len(mails) + 1
        BY <4>2, <2>4, <2>5, <3>3, <3>4, <3>5
      <4> QED
        BY <4>1, <4>2
    <3> QED
      BY <2>1, <2>3, <3>6, <3>7 DEF Follows
  <2> QED
    BY <1>5, <2>6, <2>7 DEF HandleAgentAuth
<1>6. CASE Restart
  <2>1. Lost /\ Mislead /\ UNCHANGED <<fromVersion, mails>>
    BY <1>6 DEF Restart, doVars
  <2>2. ~link' /\ version' \in {version, binary} /\ updates' \in {updates, updates + 1}
    BY <1>6 DEF Restart, Replaced
  <2> QED
    BY <2>1, <2>2, DroppedFollows
<1>7. CASE Break
  <2>1. Lost /\ Mislead /\ UNCHANGED <<fromVersion, mails>>
    BY <1>7 DEF Break, doVars
  <2>2. ~link' /\ version' \in {version, binary} /\ updates' \in {updates, updates + 1}
    BY <1>7 DEF Break
  <2> QED
    BY <2>1, <2>2, DroppedFollows
<1> QED
  BY <1>1, <1>2, <1>3, <1>4, <1>5, <1>6, <1>7 DEF UpdatesNext, AgentStep, DoStep

\* Nothing is sent where there is no connection, and the close comes last.
LEMMA ClosedKept ==
  ASSUME TypeInv, MailInv, [UpdatesNext]_updateVars
  PROVE  ~connected' => toManager' = <<>>
<1>1. link => connected
  BY DEF TypeInv, NoticeInv
<1>2. CASE HandleUpdateStarting \/ HandleAgentClose \/ HandleAgentAuth
  BY <1>2 DEF HandleUpdateStarting, HandleAgentClose, HandleAgentAuth, agentVars
<1>3. CASE Release \/ Expire \/ Put \/ NotifyUpdate \/ Alarm \/ HandleUpdateAvailable \/ UNCHANGED updateVars
  BY <1>3 DEF Release, Expire, Put, NotifyUpdate, Alarm, HandleUpdateAvailable, doVars, updateVars, MailInv
<1>4. ASSUME NEW k \in Checks, CheckStep(k)
      PROVE  ~connected' => toManager' = <<>>
  BY <1>1, <1>4 DEF CheckStep, GetLatestVersion, DownloadAndApply, BeforeRestart, Exec, doVars, MailInv
<1>5. CASE Restart \/ Break
  <2>1. Lost /\ UNCHANGED connected
    BY <1>5 DEF Restart, Break, doVars
  <2>2. ~link => toManager' = toManager
    BY <2>1, LostTyped DEF TypeInv, Typed
  <2> QED
    BY <1>1, <2>1, <2>2 DEF MailInv
<1> QED
  BY <1>2, <1>3, <1>4, <1>5 DEF UpdatesNext, AgentStep, DoStep

LEMMA MailsInvariant == Updating => []UpdatesTold
<1>1. UpdatesInit => MailInv
  <2> SUFFICES ASSUME UpdatesInit PROVE MailInv
    OBVIOUS
  <2>1. version = 1 /\ binary = 1 /\ checks = NewProcess /\ toManager = <<>> /\ fromVersion = 0 /\ mails = <<>>
        /\ connected /\ link
    BY DEF UpdatesInit
  <2>2. Newer
    BY <2>1, NewProcessNew DEF Newer, Replacing
  <2>3. Told = {}
    BY <2>1 DEF Told
  <2> QED
    BY <2>1, <2>2, <2>3 DEF MailInv, Follows, MailsTrue
<1>2. TypeInv /\ MailInv /\ [UpdatesNext]_updateVars => MailInv'
  BY NewerKept, FollowsKept, ClosedKept DEF MailInv
<1>3. TypeInv /\ MailInv => UpdatesTold
  BY DEF TypeInv, NoticeInv, MailInv, UpdatesTold, MailsTrue
<1> QED
  BY <1>1, <1>2, <1>3, TypeInvariant, PTL DEF Updating

\* What the recipients and the alarm are told of an update is so, for any number of releases,
\* goroutines, pushes and failures: handleAgentClose gives it ten minutes, and handleAgentAuth
\* announces it just if it has taken place, and once.
THEOREM UpdatesAreTold == UpdatesSpec => []UpdatesTold
BY MailsInvariant, PTL DEF UpdatesSpec, Updating

-----------------------------------------------------------------------------
(* RconSessions: what is proved of it holds of its two parts here          *)

TP == INSTANCE RconSessions_proofs WITH
        toAgent <- asked, toManager <- told, faults <- mishaps, Shots <- {}
OP == INSTANCE RconSessions_proofs WITH
        toAgent <- asked, toManager <- told, faults <- mishaps, Terminals <- {}, Requests <- {}

\* The part of the terminals is the one the theorems are about.
LEMMA TerminalsSame ==
  /\ T!RconAssumption => TP!RconAssumption
  /\ T!RconInit => TP!RconInit
  /\ [T!RconNext]_T!rconVars => [TP!RconNext]_TP!rconVars
  /\ TP!TypeOK => T!TypeOK
  /\ TP!SweepSparesUsed /\ TP!Audited /\ TP!ShotsTidy =>
       T!SweepSparesUsed /\ T!Audited /\ T!ShotsTidy
<1>1. T!RconAssumption => TP!RconAssumption
  BY DEF T!RconAssumption, TP!RconAssumption
<1>2. T!RconInit => TP!RconInit
  BY DEF T!RconInit, TP!RconInit, T!Gone, TP!Gone, T!Free, TP!Free, T!NoRequest, TP!NoRequest
<1>3. [T!RconNext]_T!rconVars => [TP!RconNext]_TP!rconVars
  BY DEF T!RconNext, TP!RconNext, T!rconVars, TP!rconVars, T!agentVars, TP!agentVars, T!askVars,
       TP!askVars, T!Live, TP!Live, T!Gone, TP!Gone, T!Free, TP!Free, T!NoRequest, TP!NoRequest,
       T!AgentStep, TP!AgentStep, T!Connect, TP!Connect, T!Find, TP!Find, T!Touch, TP!Touch,
       T!Execute, TP!Execute, T!Disconnect, TP!Disconnect, T!CleanupIdleSessions,
       TP!CleanupIdleSessions, T!Cleanup, TP!Cleanup, T!Minute, TP!Minute, T!Takes, TP!Takes,
       T!Tell, TP!Tell, T!AskStep, TP!AskStep, T!Mount, TP!Mount, T!SendCommand, TP!SendCommand,
       T!Unmount, TP!Unmount, T!Relay, TP!Relay, T!Audit, TP!Audit, T!Timeout, TP!Timeout,
       T!Expected, TP!Expected, T!OneShot, TP!OneShot, T!ShotTimeout, TP!ShotTimeout, T!ShotEnds,
       TP!ShotEnds, T!HandleInboxReply, TP!HandleInboxReply, T!Answered, TP!Answered, T!Remembered,
       TP!Remembered, T!ShotReply, TP!ShotReply, T!Ask, TP!Ask, T!FaultStep, TP!FaultStep, T!Break,
       TP!Break, T!AgentRestart, TP!AgentRestart, T!AuditFails, TP!AuditFails, T!Hibernate,
       TP!Hibernate, T!ManagerRestart, TP!ManagerRestart, T!Forget, TP!Forget, T!Fault, TP!Fault,
       T!LoseShots, TP!LoseShots
<1>4. TP!TypeOK => T!TypeOK
  BY DEF T!TypeOK, TP!TypeOK, T!Question, TP!Question, T!Answer, TP!Answer, T!Request, TP!Request,
         T!Askers, TP!Askers, T!Gone, TP!Gone, T!Free, TP!Free, T!NoRequest, TP!NoRequest
<1>5. TP!SweepSparesUsed /\ TP!Audited /\ TP!ShotsTidy => T!SweepSparesUsed /\ T!Audited /\ T!ShotsTidy
  BY DEF T!SweepSparesUsed, TP!SweepSparesUsed, T!Audited, TP!Audited, T!ShotsTidy, TP!ShotsTidy,
         T!Live, TP!Live, T!Gone, TP!Gone, T!Free, TP!Free
<1> QED BY <1>1, <1>2, <1>3, <1>4, <1>5

\* The part of the one-shot commands is the one the theorems are about.
LEMMA ShotsSame ==
  /\ O!RconAssumption => OP!RconAssumption
  /\ O!RconInit => OP!RconInit
  /\ [O!RconNext]_O!rconVars => [OP!RconNext]_OP!rconVars
  /\ OP!TypeOK => O!TypeOK
  /\ OP!SweepSparesUsed /\ OP!Audited /\ OP!ShotsTidy =>
       O!SweepSparesUsed /\ O!Audited /\ O!ShotsTidy
<1>1. O!RconAssumption => OP!RconAssumption
  BY DEF O!RconAssumption, OP!RconAssumption
<1>2. O!RconInit => OP!RconInit
  BY DEF O!RconInit, OP!RconInit, O!Gone, OP!Gone, O!Free, OP!Free, O!NoRequest, OP!NoRequest
<1>3. [O!RconNext]_O!rconVars => [OP!RconNext]_OP!rconVars
  BY DEF O!RconNext, OP!RconNext, O!rconVars, OP!rconVars, O!agentVars, OP!agentVars, O!askVars,
       OP!askVars, O!Live, OP!Live, O!Gone, OP!Gone, O!Free, OP!Free, O!NoRequest, OP!NoRequest,
       O!AgentStep, OP!AgentStep, O!Connect, OP!Connect, O!Find, OP!Find, O!Touch, OP!Touch,
       O!Execute, OP!Execute, O!Disconnect, OP!Disconnect, O!CleanupIdleSessions,
       OP!CleanupIdleSessions, O!Cleanup, OP!Cleanup, O!Minute, OP!Minute, O!Takes, OP!Takes,
       O!Tell, OP!Tell, O!AskStep, OP!AskStep, O!Mount, OP!Mount, O!SendCommand, OP!SendCommand,
       O!Unmount, OP!Unmount, O!Relay, OP!Relay, O!Audit, OP!Audit, O!Timeout, OP!Timeout,
       O!Expected, OP!Expected, O!OneShot, OP!OneShot, O!ShotTimeout, OP!ShotTimeout, O!ShotEnds,
       OP!ShotEnds, O!HandleInboxReply, OP!HandleInboxReply, O!Answered, OP!Answered, O!Remembered,
       OP!Remembered, O!ShotReply, OP!ShotReply, O!Ask, OP!Ask, O!FaultStep, OP!FaultStep, O!Break,
       OP!Break, O!AgentRestart, OP!AgentRestart, O!AuditFails, OP!AuditFails, O!Hibernate,
       OP!Hibernate, O!ManagerRestart, OP!ManagerRestart, O!Forget, OP!Forget, O!Fault, OP!Fault,
       O!LoseShots, OP!LoseShots
<1>4. OP!TypeOK => O!TypeOK
  BY DEF O!TypeOK, OP!TypeOK, O!Question, OP!Question, O!Answer, OP!Answer, O!Request, OP!Request,
         O!Askers, OP!Askers, O!Gone, OP!Gone, O!Free, OP!Free, O!NoRequest, OP!NoRequest
<1>5. OP!SweepSparesUsed /\ OP!Audited /\ OP!ShotsTidy => O!SweepSparesUsed /\ O!Audited /\ O!ShotsTidy
  BY DEF O!SweepSparesUsed, OP!SweepSparesUsed, O!Audited, OP!Audited, O!ShotsTidy, OP!ShotsTidy,
         O!Live, OP!Live, O!Gone, OP!Gone, O!Free, OP!Free
<1> QED BY <1>1, <1>2, <1>3, <1>4, <1>5

\* Which part a behaviour is about stays, and the others do not move.
LEMMA OnePart ==
  ASSUME [ConnectionNext]_vars
  PROVE  /\ part' = part
         /\ part = "terminals" => [T!RconNext]_T!rconVars
         /\ part = "shots" => [O!RconNext]_O!rconVars
         /\ part = "logs" => [L!LogNext]_L!logVars
         /\ part = "agentLog" => [A!AgentLogNext]_A!agentLogVars
         /\ [UpdatesNext]_updateVars
<1>1. /\ part' = part
      /\ part = "terminals" => [T!RconNext]_T!rconVars
      /\ part = "shots" => [O!RconNext]_O!rconVars
  BY DEF ConnectionNext, Terminal, Shot, Update, NoUpdate, vars, logVars, rconRest,
         T!rconVars, T!agentVars, T!askVars, O!rconVars, O!agentVars, O!askVars
<1>2. part = "logs" => [L!LogNext]_L!logVars
  BY DEF ConnectionNext, Terminal, Shot, Update, vars, logVars, logRest, L!logVars, L!viewVars
<1>3. part = "agentLog" => [A!AgentLogNext]_A!agentLogVars
  BY DEF ConnectionNext, Terminal, Shot, Update, vars, logVars, agentLogRest,
         A!agentLogVars, A!agentVars, A!doVars
<1>4. [UpdatesNext]_updateVars
  BY DEF ConnectionNext, Terminal, Shot, Update, NoUpdate, vars
<1> QED BY <1>1, <1>2, <1>3, <1>4

SessionsInv ==
  /\ part = "terminals" => TP!RconInv
  /\ part = "shots" => OP!RconInv

LEMMA SessionsInvariant == ConnectionSpec => []SessionsInv
<1>0. TP!RconAssumption /\ OP!RconAssumption
  BY ConnectionAssumption, TerminalsSame, ShotsSame
<1>1. ConnectionInit => SessionsInv
  <2>1. ASSUME part = "terminals", T!RconInit
        PROVE  TP!RconInv
    BY <1>0, <2>1, TerminalsSame, TP!RconInvStarts
  <2>2. ASSUME O!RconInit
        PROVE  OP!RconInv
    BY <1>0, <2>2, ShotsSame, OP!RconInvStarts
  <2> QED BY <2>1, <2>2 DEF ConnectionInit, SessionsInv
<1>2. SessionsInv /\ [ConnectionNext]_vars => SessionsInv'
  <2> SUFFICES ASSUME SessionsInv, [ConnectionNext]_vars
               PROVE  SessionsInv'
    OBVIOUS
  <2>1. ASSUME part = "terminals"
        PROVE  TP!RconInv'
    <3>1. TP!RconInv /\ [TP!RconNext]_TP!rconVars
      BY <2>1, OnePart, TerminalsSame DEF SessionsInv
    <3> QED BY <1>0, <3>1, TP!RconInvKept
  <2>2. ASSUME part = "shots"
        PROVE  OP!RconInv'
    <3>1. OP!RconInv /\ [OP!RconNext]_OP!rconVars
      BY <2>2, OnePart, ShotsSame DEF SessionsInv
    <3> QED BY <1>0, <3>1, OP!RconInvKept
  <2> QED BY <2>1, <2>2, OnePart DEF SessionsInv
<1> QED BY <1>1, <1>2, PTL DEF ConnectionSpec

\* Over one connection to an agent, with whatever else goes on over it: no command loses its
\* session to the sweep, no command of a terminal that was answered well is missing from the audit
\* log or stands there under another server, and no one-shot command leaves a session.
THEOREM SessionsAreKept == ConnectionSpec => []SessionsKept
<1>0. TP!RconAssumption /\ OP!RconAssumption
  BY ConnectionAssumption, TerminalsSame, ShotsSame
<1>1. SessionsInv => SessionsKept
  <2>1. ASSUME part = "terminals", TP!RconInv
        PROVE  T!SweepSparesUsed /\ T!Audited
    <3>1. TP!SweepSparesUsed /\ TP!Audited /\ TP!ShotsTidy
      BY <1>0, <2>1, TP!RconInvSays
    <3> QED BY <3>1, TerminalsSame
  <2>2. ASSUME part = "shots", OP!RconInv
        PROVE  O!SweepSparesUsed /\ O!ShotsTidy
    <3>1. OP!SweepSparesUsed /\ OP!Audited /\ OP!ShotsTidy
      BY <1>0, <2>2, OP!RconInvSays
    <3> QED BY <3>1, ShotsSame
  <2> QED BY <2>1, <2>2 DEF SessionsInv, SessionsKept
<1> QED BY <1>1, SessionsInvariant, PTL

-----------------------------------------------------------------------------
(* The ends of sequences of lines                                          *)

\* The two sequences of lines are the same, as far back as both go.
SameEnds(lines, others) ==
  \A n \in Nat : n < Len(lines) /\ n < Len(others) => lines[Len(lines) - n] = others[Len(others) - n]

LEMMA EndsAppend ==
  ASSUME NEW S, NEW lines \in Seq(S), NEW others \in Seq(S), NEW line \in S, SameEnds(lines, others)
  PROVE  SameEnds(Append(lines, line), Append(others, line))
<1> DEFINE x == Append(lines, line)
           y == Append(others, line)
<1>1. /\ Len(lines) \in Nat /\ Len(x) = Len(lines) + 1 /\ x[Len(lines) + 1] = line
      /\ \A i \in 1 .. Len(lines) : x[i] = lines[i]
  BY AppendProperties, LenProperties
<1>2. /\ Len(others) \in Nat /\ Len(y) = Len(others) + 1 /\ y[Len(others) + 1] = line
      /\ \A i \in 1 .. Len(others) : y[i] = others[i]
  BY AppendProperties, LenProperties
<1> HIDE DEF x, y
<1>3. ASSUME NEW n \in Nat, n < Len(x), n < Len(y)
      PROVE  x[Len(x) - n] = y[Len(y) - n]
  <2>1. CASE n = 0
    BY <1>1, <1>2, <2>1
  <2>2. CASE n # 0
    <3>1. n - 1 \in Nat /\ n - 1 < Len(lines) /\ n - 1 < Len(others)
      BY <1>1, <1>2, <1>3, <2>2
    <3>2. lines[Len(lines) - (n - 1)] = others[Len(others) - (n - 1)]
      BY <3>1 DEF SameEnds
    <3>3. /\ Len(x) - n = Len(lines) - (n - 1) /\ Len(lines) - (n - 1) \in 1 .. Len(lines)
          /\ Len(y) - n = Len(others) - (n - 1) /\ Len(others) - (n - 1) \in 1 .. Len(others)
      BY <1>1, <1>2, <1>3, <3>1
    <3> QED BY <1>1, <1>2, <3>2, <3>3
  <2> QED BY <2>1, <2>2
<1>4. SameEnds(x, y)
  BY <1>3 DEF SameEnds
<1> QED BY <1>4 DEF x, y

LEMMA EndsNewest ==
  ASSUME NEW S, NEW lines \in Seq(S), NEW others \in Seq(S), SameEnds(lines, others),
         NEW k \in Nat, k < Len(lines)
  PROVE  SameEnds(SubSeq(lines, Len(lines) - k + 1, Len(lines)), others)
<1> DEFINE x == SubSeq(lines, Len(lines) - k + 1, Len(lines))
<1>1. Len(lines) \in Nat /\ \A i \in 1 .. Len(lines) : lines[i] \in S
  BY LenProperties, ElementOfSeq
<1>2. Len(lines) - k + 1 \in Int /\ \A i \in Len(lines) - k + 1 .. Len(lines) : lines[i] \in S
  BY <1>1
<1>3. /\ Len(x) = IF Len(lines) - k + 1 <= Len(lines) THEN Len(lines) - (Len(lines) - k + 1) + 1 ELSE 0
      /\ \A i \in 1 .. Len(lines) - (Len(lines) - k + 1) + 1 : x[i] = lines[(Len(lines) - k + 1) + i - 1]
  BY <1>1, <1>2, SubSeqProperties
<1> HIDE DEF x
<1>4. Len(x) = k /\ \A i \in 1 .. k : x[i] = lines[Len(lines) - k + i]
  <2>1. Len(x) = k
    BY <1>1, <1>3
  <2>2. ASSUME NEW i \in 1 .. k
        PROVE  x[i] = lines[Len(lines) - k + i]
    <3>1. Len(lines) - (Len(lines) - k + 1) + 1 = k /\ (Len(lines) - k + 1) + i - 1 = Len(lines) - k + i
      BY <1>1
    <3> QED BY <1>3, <3>1
  <2> QED BY <2>1, <2>2
<1>5. ASSUME NEW n \in Nat, n < Len(x), n < Len(others)
      PROVE  x[Len(x) - n] = others[Len(others) - n]
  <2>1. k - n \in 1 .. k /\ Len(lines) - k + (k - n) = Len(lines) - n /\ n < Len(lines)
    BY <1>1, <1>4, <1>5
  <2>2. x[k - n] = lines[Len(lines) - n]
    BY <1>4, <2>1
  <2> QED BY <1>4, <1>5, <2>1, <2>2 DEF SameEnds
<1>6. SameEnds(x, others)
  BY <1>5 DEF SameEnds
<1> QED BY <1>6 DEF x

LEMMA EndsConcat ==
  ASSUME NEW S, NEW lines \in Seq(S), NEW others \in Seq(S)
  PROVE  SameEnds(lines \o others, others)
<1>1. /\ Len(lines) \in Nat /\ Len(others) \in Nat /\ Len(lines \o others) = Len(lines) + Len(others)
      /\ \A i \in 1 .. Len(lines) + Len(others) :
           (lines \o others)[i] = IF i <= Len(lines) THEN lines[i] ELSE others[i - Len(lines)]
  BY ConcatProperties, LenProperties
<1>2. ASSUME NEW n \in Nat, n < Len(others)
      PROVE  (lines \o others)[Len(lines \o others) - n] = others[Len(others) - n]
  <2>1. PICK i : i = Len(lines) + Len(others) - n
    OBVIOUS
  <2>2. i \in 1 .. Len(lines) + Len(others) /\ ~(i <= Len(lines)) /\ i - Len(lines) = Len(others) - n
    BY <1>1, <1>2, <2>1
  <2> QED BY <1>1, <2>1, <2>2
<1> QED BY <1>2 DEF SameEnds

LEMMA EndsEmpty ==
  ASSUME NEW S, NEW others \in Seq(S)
  PROVE  SameEnds(<<>>, others)
BY EmptySeq, LenProperties DEF SameEnds

\* What SameEnds is for: of the two, the last lines of both are the same ones.
LEMMA EndsSay ==
  ASSUME NEW S, NEW lines \in Seq(S), NEW others \in Seq(S), SameEnds(lines, others),
         NEW n \in Nat, n <= Len(lines), n <= Len(others)
  PROVE  SubSeq(lines, Len(lines) - n + 1, Len(lines)) = SubSeq(others, Len(others) - n + 1, Len(others))
<1>1. ASSUME NEW seq \in Seq(S), n <= Len(seq)
      PROVE  /\ SubSeq(seq, Len(seq) - n + 1, Len(seq)) \in Seq(S)
             /\ Len(SubSeq(seq, Len(seq) - n + 1, Len(seq))) = n
             /\ \A i \in 1 .. n : SubSeq(seq, Len(seq) - n + 1, Len(seq))[i] = seq[Len(seq) - (n - i)]
  <2> DEFINE x == SubSeq(seq, Len(seq) - n + 1, Len(seq))
  <2>1. Len(seq) \in Nat /\ \A i \in 1 .. Len(seq) : seq[i] \in S
    BY LenProperties, ElementOfSeq
  <2>2. Len(seq) - n + 1 \in Int /\ \A i \in Len(seq) - n + 1 .. Len(seq) : seq[i] \in S
    BY <1>1, <2>1
  <2>3. /\ x \in Seq(S)
        /\ Len(x) = IF Len(seq) - n + 1 <= Len(seq) THEN Len(seq) - (Len(seq) - n + 1) + 1 ELSE 0
        /\ \A i \in 1 .. Len(seq) - (Len(seq) - n + 1) + 1 : x[i] = seq[(Len(seq) - n + 1) + i - 1]
    BY <2>1, <2>2, SubSeqProperties
  <2> HIDE DEF x
  <2>4. Len(x) = n
    BY <2>1, <2>3
  <2>5. ASSUME NEW i \in 1 .. n
        PROVE  x[i] = seq[Len(seq) - (n - i)]
    <3>1. /\ Len(seq) - (Len(seq) - n + 1) + 1 = n
          /\ (Len(seq) - n + 1) + i - 1 = Len(seq) - (n - i)
      BY <2>1
    <3> QED BY <2>3, <3>1
  <2>6. x \in Seq(S) /\ Len(x) = n /\ \A i \in 1 .. n : x[i] = seq[Len(seq) - (n - i)]
    BY <2>3, <2>4, <2>5
  <2> QED BY <2>6 DEF x
<1>2. ASSUME NEW i \in 1 .. n
      PROVE  lines[Len(lines) - (n - i)] = others[Len(others) - (n - i)]
  <2>1. n - i \in Nat /\ n - i < Len(lines) /\ n - i < Len(others)
    BY LenProperties
  <2> QED BY <2>1 DEF SameEnds
<1> DEFINE x == SubSeq(lines, Len(lines) - n + 1, Len(lines))
           y == SubSeq(others, Len(others) - n + 1, Len(others))
<1>3. /\ x \in Seq(S) /\ Len(x) = n /\ \A i \in 1 .. n : x[i] = lines[Len(lines) - (n - i)]
      /\ y \in Seq(S) /\ Len(y) = n /\ \A i \in 1 .. n : y[i] = others[Len(others) - (n - i)]
  BY <1>1
<1> HIDE DEF x, y
<1>4. \A i \in 1 .. Len(x) : x[i] = y[i]
  BY <1>2, <1>3
<1>5. x = y
  BY <1>3, <1>4, SeqEqual
<1> QED BY <1>5 DEF x, y

-----------------------------------------------------------------------------
(* LogStreams: what is streamed is what is watched, and watched alike      *)

\* The last thing the agent has been asked about the log of c, of what it has yet to read.
Latest(op, c) ==
  \E m \in 1 .. Len(asked) :
    /\ asked[m] = [op |-> op, container |-> c]
    /\ \A n \in m + 1 .. Len(asked) : asked[n].container = c => asked[n].op = op
Silent(c) == \A m \in 1 .. Len(asked) : asked[m].container # c

\* logStreams holds the forwarders that run and are not cancelled, and no container has two
\* that run, when a cancelled one has ended before its container is streamed anew.
Registered ==
  /\ \A c \in Containers : streams[c] # "none" =>
       /\ L!Running(streams[c]) /\ forwarders[streams[c]].container = c
       /\ ~forwarders[streams[c]].cancelled
  /\ L!Cancellable
  /\ \A f, g \in Forwarders :
       L!Running(f) /\ L!Running(g) /\ forwarders[f].container = forwarders[g].container => f = g

\* Who has not subscribed has no subscription, and who is on has one; nothing is on its way
\* over a broken connection; and no request to stop a container that is watched comes last.
Subscribed ==
  /\ \A s \in Sockets : /\ sockets[s] \in {"unused", "new"} => subs[s] = "none"
                        /\ sockets[s] = "on" => subs[s] # "none"
  /\ attached = "down" => asked = <<>>
  /\ \A c \in Containers : Latest("stop", c) => L!Subscribers(subs, c) = {}

\* What is watched is streamed, when the agent has read all it has been asked.
Serving ==
  \A c \in Containers \ unserved :
    L!Subscribers(subs, c) # {} /\ Silent(c) => L!Streamed(c)

\* What nobody watches is not streamed, when the agent has read all it has been asked, and the
\* last thing it is asked is not to stream it.
Resting ==
  \A c \in Containers \ unstopped :
    L!Subscribers(subs, c) = {} => ~Latest("start", c) /\ (Silent(c) => ~L!Streamed(c))

\* What is kept and what is shown have the same ends.
LogsAgree == \A s \in Sockets : sockets[s] = "on" => SameEnds(buffers[subs[s]], shown[s])

\* What holds whenever a cancelled forwarder ends, and what holds if it ends first.
LogsInv == L!TypeOK /\ Subscribed /\ LogsAgree
StreamsInv == LogsInv /\ Registered /\ Serving /\ Resting

Going == [container : Containers, next : 1 .. MaxLine + 1, cancelled : BOOLEAN]
Command == [op : {"start", "stop"}, container : Containers]

LEMMA LogTypes ==
  L!TypeOK <=>
  /\ written \in [Containers -> 0 .. MaxLine] /\ attached \in {"up", "down"}
  /\ asked \in Seq(Command) /\ told \in Seq(L!ToManager)
  /\ streams \in [Containers -> Forwarders \cup {"none"}]
  /\ forwarders \in [Forwarders -> {L!Ended} \cup Going]
  /\ sockets \in [Sockets -> L!SocketStates] /\ subs \in [Sockets -> Containers \cup {"none"}]
  /\ buffers \in [Containers -> {lines \in L!Lines : Len(lines) <= Keep}]
  /\ shown \in [Sockets -> L!Lines] /\ drops \in 0 .. Drops
  /\ unserved \subseteq Containers /\ unstopped \subseteq Containers
BY DEF L!TypeOK, L!Forwarder, Going, Command

\* A forwarder that runs is one of a container, and only that.
LEMMA Runs ==
  ASSUME L!TypeOK, NEW f \in Forwarders
  PROVE  L!Running(f) <=> forwarders[f] \in Going
<1>1. "none" \notin Containers
  BY ConnectionAssumption DEF L!LogAssumption
<1> QED BY <1>1, LogTypes DEF L!Running, L!Ended, Going

LEMMA AskedMore ==
  ASSUME asked \in Seq(Command), NEW op \in {"start", "stop"}, NEW c \in Containers,
         asked' = Append(asked, [op |-> op, container |-> c])
  PROVE  /\ asked' \in Seq(Command)
         /\ \A x, d : Latest(x, d)' <=> IF d = c THEN x = op ELSE Latest(x, d)
         /\ \A d : Silent(d)' <=> d # c /\ Silent(d)
<1> DEFINE e == [op |-> op, container |-> c]
<1>1. e \in Command /\ e.op = op /\ e.container = c
  BY DEF Command
<1>2. \A x, d : e = [op |-> x, container |-> d] <=> op = x /\ c = d
  OBVIOUS
<1> HIDE DEF e
<1>3. /\ asked' \in Seq(Command) /\ Len(asked) \in Nat /\ Len(asked') = Len(asked) + 1
      /\ asked'[Len(asked) + 1] = e /\ \A n \in 1 .. Len(asked) : asked'[n] = asked[n]
  BY <1>1, AppendProperties, LenProperties DEF e
<1>4. 1 .. Len(asked') = (1 .. Len(asked)) \cup {Len(asked) + 1}
  BY <1>3
<1>5. \A d : Silent(d)' <=> d # c /\ Silent(d)
  BY <1>1, <1>3, <1>4 DEF Silent
<1>6. ASSUME NEW x, NEW d
      PROVE  Latest(x, d)' <=> IF d = c THEN x = op ELSE Latest(x, d)
  <2>1. ASSUME d = c, x = op
        PROVE  Latest(x, d)'
    BY <1>2, <1>3, <2>1 DEF Latest
  <2>2. ASSUME d = c, Latest(x, d)'
        PROVE  x = op
    <3>1. PICK m \in 1 .. Len(asked') :
            /\ asked'[m] = [op |-> x, container |-> d]
            /\ \A n \in m + 1 .. Len(asked') : asked'[n].container = d => asked'[n].op = x
      BY <2>2 DEF Latest
    <3>2. CASE m = Len(asked) + 1
      BY <1>2, <1>3, <3>1, <3>2
    <3>3. CASE m # Len(asked) + 1
      <4>1. Len(asked) + 1 \in m + 1 .. Len(asked')
        BY <1>3, <3>3
      <4> QED BY <1>1, <1>3, <2>2, <3>1, <4>1
    <3> QED BY <3>2, <3>3
  <2>3. ASSUME d # c, Latest(x, d)
        PROVE  Latest(x, d)'
    <3>1. PICK m \in 1 .. Len(asked) :
            /\ asked[m] = [op |-> x, container |-> d]
            /\ \A n \in m + 1 .. Len(asked) : asked[n].container = d => asked[n].op = x
      BY <2>3 DEF Latest
    <3>2. \A n \in m + 1 .. Len(asked') : asked'[n].container = d => asked'[n].op = x
      BY <1>1, <1>3, <2>3, <3>1
    <3>3. m \in 1 .. Len(asked') /\ asked'[m] = [op |-> x, container |-> d]
      BY <1>3, <3>1
    <3> QED BY <3>2, <3>3 DEF Latest
  <2>4. ASSUME d # c, Latest(x, d)'
        PROVE  Latest(x, d)
    <3>1. PICK m \in 1 .. Len(asked') :
            /\ asked'[m] = [op |-> x, container |-> d]
            /\ \A n \in m + 1 .. Len(asked') : asked'[n].container = d => asked'[n].op = x
      BY <2>4 DEF Latest
    <3>2. m # Len(asked) + 1
      BY <1>2, <1>3, <2>4, <3>1
    <3>3. m \in 1 .. Len(asked) /\ asked[m] = [op |-> x, container |-> d]
      BY <1>3, <3>1, <3>2
    <3>4. \A n \in m + 1 .. Len(asked) : asked[n].container = d => asked[n].op = x
      BY <1>3, <3>1, <3>3
    <3> QED BY <3>3, <3>4 DEF Latest
  <2> QED BY <2>1, <2>2, <2>3, <2>4
<1> QED BY <1>3, <1>5, <1>6

LEMMA AskedLess ==
  ASSUME asked \in Seq(Command), asked # <<>>, asked' = Tail(asked), NEW op, NEW c,
         Head(asked) = [op |-> op, container |-> c]
  PROVE  /\ asked' \in Seq(Command)
         /\ \A x, d : Latest(x, d)' => Latest(x, d)
         /\ \A d : d # c => (Silent(d)' <=> Silent(d))
         /\ Silent(c)' => Latest(op, c)
<1>1. /\ asked' \in Seq(Command) /\ Len(asked) \in Nat \ {0} /\ Len(asked') = Len(asked) - 1
      /\ \A n \in 1 .. Len(asked') : asked'[n] = asked[n + 1]
      /\ asked[1] = [op |-> op, container |-> c]
  BY HeadTailProperties, LenProperties, EmptySeq
<1>2. ASSUME NEW n \in 2 .. Len(asked)
      PROVE  n - 1 \in 1 .. Len(asked') /\ asked'[n - 1] = asked[n]
  BY <1>1
<1>3. ASSUME NEW x, NEW d, Latest(x, d)'
      PROVE  Latest(x, d)
  <2>1. PICK m \in 1 .. Len(asked') :
          /\ asked'[m] = [op |-> x, container |-> d]
          /\ \A n \in m + 1 .. Len(asked') : asked'[n].container = d => asked'[n].op = x
    BY <1>3 DEF Latest
  <2>2. m + 1 \in 1 .. Len(asked) /\ asked[m + 1] = [op |-> x, container |-> d]
    BY <1>1, <2>1
  <2>3. ASSUME NEW n \in (m + 1) + 1 .. Len(asked), asked[n].container = d
        PROVE  asked[n].op = x
    <3>1. n \in 2 .. Len(asked) /\ n - 1 \in m + 1 .. Len(asked')
      BY <1>1, <2>1
    <3> QED BY <1>2, <2>1, <2>3, <3>1
  <2> QED BY <2>2, <2>3 DEF Latest
<1>4. ASSUME NEW d, d # c
      PROVE  Silent(d)' <=> Silent(d)
  <2>1. Silent(d) => Silent(d)'
    BY <1>1 DEF Silent
  <2>2. ASSUME Silent(d)', NEW n \in 1 .. Len(asked)
        PROVE  asked[n].container # d
    <3>1. CASE n = 1
      BY <1>1, <1>4, <3>1
    <3>2. CASE n # 1
      BY <1>1, <1>2, <2>2, <3>2 DEF Silent
    <3> QED BY <3>1, <3>2
  <2> QED BY <2>1, <2>2 DEF Silent
<1>5. ASSUME Silent(c)'
      PROVE  Latest(op, c)
  <2>1. ASSUME NEW n \in 1 + 1 .. Len(asked)
        PROVE  asked[n].container # c
    BY <1>1, <1>2, <1>5 DEF Silent
  <2> QED BY <1>1, <2>1 DEF Latest
<1> QED BY <1>1, <1>3, <1>4, <1>5

LEMMA NothingAsked ==
  ASSUME asked = <<>>
  PROVE  \A c : Silent(c) /\ \A op : ~Latest(op, c)
BY DEF Silent, Latest

-----------------------------------------------------------------------------
(* The steps of LogStreams                                                 *)

LEMMA TellTyped ==
  ASSUME told \in Seq(L!ToManager), NEW message \in L!ToManager, L!Tell(message)
  PROVE  told' \in Seq(L!ToManager)
BY AppendProperties DEF L!Tell

LEMMA MessagesTyped ==
  ASSUME NEW c \in Containers
  PROVE  /\ L!Error(c) \in L!ToManager
         /\ \A n \in 1 .. MaxLine : [op |-> "line", container |-> c, line |-> n] \in L!ToManager
BY DEF L!Error, L!ToManager

\* What f becomes when it is started for c.
Starting(c) ==
  [container |-> c, next |-> IF written[c] > Keep THEN written[c] - Keep + 1 ELSE 1, cancelled |-> FALSE]

\* A container is streamed anew, or is already.
LEMMA StartDoes ==
  ASSUME L!TypeOK, NEW c \in Containers, L!HandleLogStreamStart(c)
  PROVE  /\ asked # <<>> /\ Head(asked) = [op |-> "start", container |-> c] /\ asked' = Tail(asked)
         /\ unserved' = unserved \ {c} /\ told' \in Seq(L!ToManager)
         /\ UNCHANGED <<written, attached, sockets, subs, buffers, shown, drops, unstopped>>
         /\ \/ streams[c] # "none" /\ UNCHANGED <<streams, forwarders>>
            \/ /\ streams[c] = "none" /\ (Prompt => \A f \in Forwarders : L!Running(f) => forwarders[f].container # c)
               /\ \E f \in Forwarders :
                    /\ ~L!Running(f) /\ Starting(c) \in Going
                    /\ forwarders' = [forwarders EXCEPT ![f] = Starting(c)]
                    /\ streams' = [streams EXCEPT ![c] = f]
<1>0. written[c] \in 0 .. MaxLine /\ told \in Seq(L!ToManager) /\ Keep \in Nat \ {0} /\ MaxLine \in Nat
  BY LogTypes, ConnectionAssumption DEF L!LogAssumption
<1>1. Starting(c) \in Going
  BY <1>0 DEF Starting, Going
<1>2. told' \in Seq(L!ToManager)
  BY <1>0, TellTyped, MessagesTyped DEF L!HandleLogStreamStart
<1> QED BY <1>1, <1>2 DEF L!HandleLogStreamStart, L!Asked, L!StartForwarder, L!viewVars, Starting

\* The forwarder of a container is cancelled, if it has one.
LEMMA StopDoes ==
  ASSUME L!TypeOK, NEW c \in Containers, L!HandleLogStreamStop(c)
  PROVE  /\ asked # <<>> /\ Head(asked) = [op |-> "stop", container |-> c] /\ asked' = Tail(asked)
         /\ told' \in Seq(L!ToManager)
         /\ UNCHANGED <<written, attached, sockets, subs, buffers, shown, drops, unserved, unstopped>>
         /\ \/ streams[c] = "none" /\ UNCHANGED <<streams, forwarders>>
            \/ /\ streams[c] # "none" /\ streams[c] \in Forwarders
               /\ forwarders' = [forwarders EXCEPT ![streams[c]].cancelled = TRUE]
               /\ streams' = [streams EXCEPT ![c] = "none"]
<1>0. told \in Seq(L!ToManager) /\ streams[c] \in Forwarders \cup {"none"}
  BY LogTypes
<1>1. told' \in Seq(L!ToManager)
  BY <1>0, TellTyped, MessagesTyped DEF L!HandleLogStreamStop
<1> QED BY <1>0, <1>1 DEF L!HandleLogStreamStop, L!Asked, L!viewVars

LEMMA ForwardDoes ==
  ASSUME L!TypeOK, NEW f \in Forwarders, L!Forward(f)
  PROVE  /\ UNCHANGED <<written, attached, asked, streams, sockets, subs, buffers, shown, drops, unserved, unstopped>>
         /\ told' \in Seq(L!ToManager) /\ forwarders[f] \in Going
         /\ forwarders' = [forwarders EXCEPT ![f].next = @ + 1]
         /\ [forwarders[f] EXCEPT !.next = @ + 1] \in Going
<1>0. /\ told \in Seq(L!ToManager) /\ forwarders[f] \in Going /\ MaxLine \in Nat
      /\ written \in [Containers -> 0 .. MaxLine]
  BY LogTypes, Runs, ConnectionAssumption DEF L!LogAssumption, L!Forward
<1>1. /\ forwarders[f].container \in Containers /\ forwarders[f].next \in 1 .. MaxLine
      /\ [forwarders[f] EXCEPT !.next = @ + 1] \in Going
  <2>1. forwarders[f].container \in Containers /\ forwarders[f].next \in 1 .. MaxLine + 1
    BY <1>0 DEF Going
  <2>2. forwarders[f].next <= MaxLine
    BY <1>0, <2>1 DEF L!Forward
  <2> QED BY <1>0, <2>1, <2>2 DEF Going
<1>2. L!Tell([op |-> "line", container |-> forwarders[f].container, line |-> forwarders[f].next])
  BY DEF L!Forward
<1>3. told' \in Seq(L!ToManager)
  BY <1>0, <1>1, <1>2, TellTyped, MessagesTyped
<1> QED BY <1>0, <1>1, <1>3 DEF L!Forward, L!viewVars

\* A forwarder ends, whichever way.
LEMMA EndDoes ==
  ASSUME L!TypeOK, NEW f \in Forwarders, L!EndOfLog(f) \/ L!DockerError(f) \/ L!Quit(f)
  PROVE  /\ UNCHANGED <<written, attached, asked, sockets, subs, buffers, shown, drops, unstopped>>
         /\ told' \in Seq(L!ToManager) /\ forwarders[f] \in Going
         /\ forwarders' = [forwarders EXCEPT ![f] = L!Ended]
         /\ streams' = [streams EXCEPT ![forwarders[f].container] = "none"]
         /\ unserved' = IF forwarders[f].cancelled THEN unserved ELSE unserved \cup {forwarders[f].container}
<1>0. told \in Seq(L!ToManager) /\ forwarders[f] \in Going
  BY LogTypes, Runs DEF L!EndOfLog, L!DockerError, L!Quit
<1>1. forwarders[f].container \in Containers
  BY <1>0 DEF Going
<1>2. told' \in Seq(L!ToManager)
  BY <1>0, <1>1, TellTyped, MessagesTyped DEF L!EndOfLog, L!DockerError, L!Quit
<1> QED BY <1>0, <1>2 DEF L!EndOfLog, L!DockerError, L!Quit, L!EndForwarder, L!viewVars

\* The agent is asked, or cannot be.
LEMMA SendDoes ==
  ASSUME L!TypeOK, NEW op \in {"start", "stop"}, NEW c \in Containers, L!Send(op, c)
  PROVE  IF attached = "up"
         THEN /\ asked' \in Seq(Command)
              /\ \A x, d : Latest(x, d)' <=> IF d = c THEN x = op ELSE Latest(x, d)
              /\ \A d : Silent(d)' <=> d # c /\ Silent(d)
         ELSE UNCHANGED asked
BY AskedMore, LogTypes DEF L!Send

\* A browser is shown what is kept, and the first one starts the stream.
LEMMA SubscribeDoes ==
  ASSUME L!TypeOK, NEW s \in Sockets, NEW c \in Containers, L!HandleLogSubscribe(s, c)
  PROVE  /\ sockets[s] = "new" /\ sockets' = [sockets EXCEPT ![s] = "on"]
         /\ subs' = [subs EXCEPT ![s] = c] /\ shown' = [shown EXCEPT ![s] = buffers[c]]
         /\ unstopped' = unstopped \ {c}
         /\ UNCHANGED <<written, attached, told, streams, forwarders, buffers, drops>>
         /\ IF L!Subscribers(subs', c) = {s}
            THEN L!Send("start", c) /\ unserved' = IF attached = "down" THEN unserved \cup {c} ELSE unserved
            ELSE UNCHANGED <<asked, unserved>>
BY DEF L!HandleLogSubscribe, L!Subscribed, L!agentVars

\* A subscription goes, and the last one stops the stream.
LEMMA UnsubscribeDoes ==
  ASSUME L!TypeOK, NEW s \in Sockets, L!HandleLogUnsubscribe(s) \/ L!HandleUIClose(s)
  PROVE  /\ \/ sockets[s] = "leaving" /\ sockets' = [sockets EXCEPT ![s] = "closing"]
            \/ sockets[s] = "closing" /\ sockets' = [sockets EXCEPT ![s] = "closed"]
         /\ subs' = [subs EXCEPT ![s] = "none"]
         /\ UNCHANGED <<written, attached, told, streams, forwarders, buffers, shown, drops, unserved>>
         /\ \/ \E c \in Containers :
                 /\ subs[s] = c /\ L!Subscribers(subs', c) = {} /\ L!Send("stop", c)
                 /\ unstopped' = IF attached = "down" THEN unstopped \cup {c} ELSE unstopped
            \/ /\ subs[s] = "none" \/ L!Subscribers(subs', subs[s]) # {}
               /\ UNCHANGED <<asked, unstopped>>
<1>1. subs[s] \in Containers \cup {"none"}
  BY LogTypes
<1>2. L!Unsubscribe(s)
  BY DEF L!HandleLogUnsubscribe, L!HandleUIClose
<1>3. \/ \E c \in Containers :
           /\ subs[s] = c /\ L!Subscribers(subs', c) = {} /\ L!Send("stop", c)
           /\ unstopped' = IF attached = "down" THEN unstopped \cup {c} ELSE unstopped
      \/ /\ subs[s] = "none" \/ L!Subscribers(subs', subs[s]) # {}
         /\ UNCHANGED <<asked, unstopped>>
  BY <1>1, <1>2 DEF L!Unsubscribe
<1> QED BY <1>2, <1>3 DEF L!HandleLogUnsubscribe, L!HandleUIClose, L!Unsubscribe, L!agentVars

\* A message is handled: a line is kept and shown; who has vanished loses its subscription.
LEMMA MessageDoes ==
  ASSUME L!TypeOK, L!HandleAgentMessage
  PROVE  /\ UNCHANGED <<written, attached, asked, streams, forwarders, sockets, drops, unserved>>
         /\ told' \in Seq(L!ToManager)
         /\ \E c \in Containers :
              /\ \E dead \in SUBSET {s \in Sockets : subs[s] = c /\ sockets[s] = "closing"} :
                   /\ subs' = [s \in Sockets |-> IF s \in dead THEN "none" ELSE subs[s]]
                   /\ unstopped' = IF dead # {} /\ L!Subscribers(subs', c) = {} THEN unstopped \cup {c} ELSE unstopped
              /\ \/ UNCHANGED <<buffers, shown>>
                 \/ \E line \in 1 .. MaxLine :
                      /\ buffers' = [buffers EXCEPT ![c] = L!Newest(Append(buffers[c], line))]
                      /\ shown' = [s \in Sockets |-> IF subs[s] = c /\ sockets[s] = "on"
                                                     THEN Append(shown[s], line) ELSE shown[s]]
<1> DEFINE message == Head(told)
<1>1. told' \in Seq(L!ToManager) /\ message \in L!ToManager
  <2>1. told \in Seq(L!ToManager) /\ told # <<>> /\ told' = Tail(told)
    BY LogTypes DEF L!HandleAgentMessage
  <2> QED BY <2>1, HeadTailProperties
<1>2. /\ message.container \in Containers
      /\ message.op = "line" => message.line \in 1 .. MaxLine
  BY <1>1 DEF L!ToManager
<1>3. UNCHANGED <<written, attached, asked, streams, forwarders, sockets, drops, unserved>>
  BY DEF L!HandleAgentMessage, L!agentVars
<1>4. \/ message.op = "line" /\ L!HandleLogLine(message)
      \/ L!HandleLogStreamError(message)
  BY DEF L!HandleAgentMessage
<1> HIDE DEF message
<1>5. L!Broadcast(message.container)
  BY <1>4 DEF L!HandleLogLine, L!HandleLogStreamError
<1>6. \E dead \in SUBSET {s \in Sockets : subs[s] = message.container /\ sockets[s] = "closing"} :
        /\ subs' = [s \in Sockets |-> IF s \in dead THEN "none" ELSE subs[s]]
        /\ unstopped' = IF dead # {} /\ L!Subscribers(subs', message.container) = {}
                        THEN unstopped \cup {message.container} ELSE unstopped
  <2>1. {s \in L!Subscribers(subs, message.container) : sockets[s] = "closing"}
          = {s \in Sockets : subs[s] = message.container /\ sockets[s] = "closing"}
    BY DEF L!Subscribers
  <2> QED BY <1>5, <2>1 DEF L!Broadcast
<1>7. \/ UNCHANGED <<buffers, shown>>
      \/ \E line \in 1 .. MaxLine :
           /\ buffers' = [buffers EXCEPT ![message.container] = L!Newest(Append(buffers[message.container], line))]
           /\ shown' = [s \in Sockets |-> IF subs[s] = message.container /\ sockets[s] = "on"
                                          THEN Append(shown[s], line) ELSE shown[s]]
  BY <1>2, <1>4 DEF L!HandleLogLine, L!HandleLogStreamError
<1> QED BY <1>1, <1>2, <1>3, <1>6, <1>7

-----------------------------------------------------------------------------
(* What of LogStreams is kept                                              *)

\* The steps that leave a browser's view and the agent's work as they are.
LogQuiet ==
  \/ \E c \in Containers : L!Write(c)
  \/ \E s \in Sockets : L!Open(s) \/ L!Leave(s) \/ L!Vanish(s)
  \/ L!Reconnect \/ UNCHANGED L!logVars

LEMMA QuietDoes ==
  ASSUME L!TypeOK, LogQuiet
  PROVE  /\ UNCHANGED <<asked, told, streams, forwarders, subs, buffers, shown, drops, unserved, unstopped>>
         /\ written' \in [Containers -> 0 .. MaxLine] /\ attached' \in {"up", "down"}
         /\ sockets' \in [Sockets -> L!SocketStates]
         /\ attached' = "down" => attached = "down"
         /\ \A s \in Sockets : /\ sockets'[s] \in {"unused", "new"} => sockets[s] \in {"unused", "new"}
                               /\ sockets'[s] = "on" => sockets[s] = "on"
<1>0. /\ sockets \in [Sockets -> L!SocketStates] /\ written \in [Containers -> 0 .. MaxLine] /\ MaxLine \in Nat
      /\ attached \in {"up", "down"}
  BY LogTypes, ConnectionAssumption DEF L!LogAssumption
<1>1. ASSUME NEW c \in Containers, L!Write(c)
      PROVE  written' \in [Containers -> 0 .. MaxLine]
    <2>1. written[c] + 1 \in 0 .. MaxLine
      BY <1>0, <1>1 DEF L!Write
    <2> QED BY <1>0, <1>1, <2>1 DEF L!Write
<1>2. CASE \E c \in Containers : L!Write(c)
  BY <1>0, <1>1, <1>2 DEF L!Write, L!viewVars
<1>3. CASE \E s \in Sockets : L!Open(s) \/ L!Leave(s) \/ L!Vanish(s)
  BY <1>0, <1>3 DEF L!Open, L!Leave, L!Vanish, L!SocketStates, L!agentVars
<1>4. CASE L!Reconnect
  BY <1>0, <1>4 DEF L!Reconnect, L!agentVars, L!viewVars
<1>5. CASE UNCHANGED L!logVars
  BY <1>0, <1>5 DEF L!logVars
<1> QED BY <1>2, <1>3, <1>4, <1>5 DEF LogQuiet

LEMMA LogSteps ==
  ASSUME [L!LogNext]_L!logVars
  PROVE  \/ LogQuiet \/ L!Drop \/ L!Hibernate \/ L!HandleAgentMessage
         \/ \E c \in Containers : L!HandleLogStreamStart(c) \/ L!HandleLogStreamStop(c)
         \/ \E f \in Forwarders : L!Forward(f) \/ L!EndOfLog(f) \/ L!DockerError(f) \/ L!Quit(f)
         \/ \E s \in Sockets : \/ L!HandleLogUnsubscribe(s) \/ L!HandleUIClose(s)
                               \/ \E c \in Containers : L!HandleLogSubscribe(s, c)
BY DEF L!LogNext, L!AgentStep, L!ViewStep, LogQuiet

LEMMA NewestTyped ==
  ASSUME NEW lines \in L!Lines
  PROVE  /\ L!Newest(lines) \in L!Lines /\ Len(L!Newest(lines)) <= Keep
         /\ \/ L!Newest(lines) = lines
            \/ Len(lines) > Keep /\ L!Newest(lines) = L!Ending(lines, Keep)
<1>0. Keep \in Nat \ {0} /\ MaxLine \in Nat /\ lines \in Seq(1 .. MaxLine) /\ Len(lines) \in Nat
  BY ConnectionAssumption, LenProperties DEF L!LogAssumption, L!Lines
<1>1. ASSUME Len(lines) > Keep
      PROVE  /\ SubSeq(lines, Len(lines) - Keep + 1, Len(lines)) \in Seq(1 .. MaxLine)
             /\ Len(SubSeq(lines, Len(lines) - Keep + 1, Len(lines))) = Keep
  BY <1>0, <1>1, SubSeqProperties
<1>2. CASE Len(lines) > Keep
  <2>1. L!Newest(lines) = SubSeq(lines, Len(lines) - Keep + 1, Len(lines))
    BY <1>2 DEF L!Newest, L!Ending
  <2> QED BY <1>0, <1>1, <1>2, <2>1 DEF L!Ending, L!Lines
<1>3. CASE ~(Len(lines) > Keep)
  <2>1. L!Newest(lines) = lines
    BY <1>3 DEF L!Newest
  <2> QED BY <1>0, <1>3, <2>1 DEF L!Lines
<1> QED BY <1>2, <1>3

LEMMA LogTyped ==
  ASSUME L!TypeOK, [L!LogNext]_L!logVars
  PROVE  L!TypeOK'
<1>0. /\ written \in [Containers -> 0 .. MaxLine] /\ attached \in {"up", "down"}
      /\ asked \in Seq(Command) /\ told \in Seq(L!ToManager)
      /\ streams \in [Containers -> Forwarders \cup {"none"}]
      /\ forwarders \in [Forwarders -> {L!Ended} \cup Going]
      /\ sockets \in [Sockets -> L!SocketStates] /\ subs \in [Sockets -> Containers \cup {"none"}]
      /\ buffers \in [Containers -> {lines \in L!Lines : Len(lines) <= Keep}]
      /\ shown \in [Sockets -> L!Lines] /\ drops \in 0 .. Drops /\ Drops \in Nat
      /\ unserved \subseteq Containers /\ unstopped \subseteq Containers
      /\ Keep \in Nat \ {0}
  BY LogTypes, ConnectionAssumption DEF L!LogAssumption
<1>1. ASSUME written' \in [Containers -> 0 .. MaxLine], attached' \in {"up", "down"},
             asked' \in Seq(Command), told' \in Seq(L!ToManager),
             streams' \in [Containers -> Forwarders \cup {"none"}],
             forwarders' \in [Forwarders -> {L!Ended} \cup Going],
             sockets' \in [Sockets -> L!SocketStates], subs' \in [Sockets -> Containers \cup {"none"}],
             buffers' \in [Containers -> {lines \in L!Lines : Len(lines) <= Keep}],
             shown' \in [Sockets -> L!Lines], drops' \in 0 .. Drops,
             unserved' \subseteq Containers, unstopped' \subseteq Containers
      PROVE  L!TypeOK'
  BY <1>1 DEF L!TypeOK, L!Forwarder, Going, Command
<1>2. CASE LogQuiet
  BY <1>0, <1>1, <1>2, QuietDoes
<1>3. ASSUME NEW c \in Containers, L!HandleLogStreamStart(c)
      PROVE  L!TypeOK'
  <2>1. /\ asked # <<>> /\ asked' = Tail(asked)
        /\ unserved' = unserved \ {c} /\ told' \in Seq(L!ToManager)
        /\ UNCHANGED <<written, attached, sockets, subs, buffers, shown, drops, unstopped>>
        /\ \/ UNCHANGED <<streams, forwarders>>
           \/ \E f \in Forwarders : /\ Starting(c) \in Going
                                    /\ forwarders' = [forwarders EXCEPT ![f] = Starting(c)]
                                    /\ streams' = [streams EXCEPT ![c] = f]
    BY <1>3, StartDoes
  <2>2. asked' \in Seq(Command)
    BY <1>0, <2>1, HeadTailProperties
  <2>3. /\ forwarders' \in [Forwarders -> {L!Ended} \cup Going]
        /\ streams' \in [Containers -> Forwarders \cup {"none"}]
    <3>1. CASE UNCHANGED <<streams, forwarders>>
      BY <1>0, <3>1
    <3>2. ASSUME NEW f \in Forwarders, Starting(c) \in Going,
                 forwarders' = [forwarders EXCEPT ![f] = Starting(c)], streams' = [streams EXCEPT ![c] = f]
          PROVE  /\ forwarders' \in [Forwarders -> {L!Ended} \cup Going]
                 /\ streams' \in [Containers -> Forwarders \cup {"none"}]
      BY <1>0, <3>2
    <3> QED BY <2>1, <3>1, <3>2
  <2> QED BY <1>0, <1>1, <2>1, <2>2, <2>3
<1>4. ASSUME NEW c \in Containers, L!HandleLogStreamStop(c)
      PROVE  L!TypeOK'
  <2>1. /\ asked # <<>> /\ asked' = Tail(asked) /\ told' \in Seq(L!ToManager)
        /\ UNCHANGED <<written, attached, sockets, subs, buffers, shown, drops, unserved, unstopped>>
        /\ \/ UNCHANGED <<streams, forwarders>>
           \/ /\ streams[c] \in Forwarders
              /\ forwarders' = [forwarders EXCEPT ![streams[c]].cancelled = TRUE]
              /\ streams' = [streams EXCEPT ![c] = "none"]
    BY <1>4, StopDoes
  <2>2. asked' \in Seq(Command)
    BY <1>0, <2>1, HeadTailProperties
  <2>3. ASSUME NEW f \in Forwarders
        PROVE  [forwarders[f] EXCEPT !.cancelled = TRUE] \in {L!Ended} \cup Going
    <3>1. CASE L!Running(f)
      BY <3>1, Runs DEF Going
    <3>2. CASE ~L!Running(f)
      BY <3>2 DEF L!Running, L!Ended
    <3> QED BY <3>1, <3>2
  <2>4. /\ forwarders' \in [Forwarders -> {L!Ended} \cup Going]
        /\ streams' \in [Containers -> Forwarders \cup {"none"}]
    <3>1. CASE UNCHANGED <<streams, forwarders>>
      BY <1>0, <3>1
    <3>2. CASE /\ streams[c] \in Forwarders
               /\ forwarders' = [forwarders EXCEPT ![streams[c]].cancelled = TRUE]
               /\ streams' = [streams EXCEPT ![c] = "none"]
      <4>1. PICK f \in Forwarders : f = streams[c]
        BY <3>2
      <4>2. forwarders' = [forwarders EXCEPT ![f] = [forwarders[f] EXCEPT !.cancelled = TRUE]]
        BY <1>0, <3>2, <4>1
      <4> QED BY <1>0, <2>3, <3>2, <4>2
    <3> QED BY <2>1, <3>1, <3>2
  <2> QED BY <1>0, <1>1, <2>1, <2>2, <2>4
<1>5. ASSUME NEW f \in Forwarders, L!Forward(f)
      PROVE  L!TypeOK'
  <2>1. /\ UNCHANGED <<written, attached, asked, streams, sockets, subs, buffers, shown, drops, unserved, unstopped>>
        /\ told' \in Seq(L!ToManager)
        /\ forwarders' = [forwarders EXCEPT ![f].next = @ + 1]
        /\ [forwarders[f] EXCEPT !.next = @ + 1] \in Going
    BY <1>5, ForwardDoes
  <2>2. forwarders' = [forwarders EXCEPT ![f] = [forwarders[f] EXCEPT !.next = @ + 1]]
    BY <1>0, <2>1
  <2>3. forwarders' \in [Forwarders -> {L!Ended} \cup Going]
    BY <1>0, <2>1, <2>2
  <2> QED BY <1>0, <1>1, <2>1, <2>3
<1>6. ASSUME NEW f \in Forwarders, L!EndOfLog(f) \/ L!DockerError(f) \/ L!Quit(f)
      PROVE  L!TypeOK'
  <2>1. /\ UNCHANGED <<written, attached, asked, sockets, subs, buffers, shown, drops, unstopped>>
        /\ told' \in Seq(L!ToManager) /\ forwarders[f] \in Going
        /\ forwarders' = [forwarders EXCEPT ![f] = L!Ended]
        /\ streams' = [streams EXCEPT ![forwarders[f].container] = "none"]
        /\ unserved' = IF forwarders[f].cancelled THEN unserved ELSE unserved \cup {forwarders[f].container}
    BY <1>6, EndDoes
  <2>2. forwarders[f].container \in Containers
    BY <2>1 DEF Going
  <2>3. /\ forwarders' \in [Forwarders -> {L!Ended} \cup Going] /\ unserved' \subseteq Containers
        /\ streams' \in [Containers -> Forwarders \cup {"none"}]
    BY <1>0, <2>1, <2>2
  <2> QED BY <1>0, <1>1, <2>1, <2>3
<1>7. CASE L!Drop
  <2>1. /\ attached' = "down" /\ drops' = drops + 1 /\ drops < Drops /\ asked' = <<>> /\ told' = <<>>
        /\ unserved' \subseteq Containers /\ unstopped' \subseteq Containers
        /\ UNCHANGED <<written, streams, forwarders, sockets, subs, buffers, shown>>
    BY <1>0, <1>7 DEF L!Drop, L!agentVars, L!viewVars
  <2>2. <<>> \in Seq(Command) /\ <<>> \in Seq(L!ToManager) /\ drops' \in 0 .. Drops
    BY <1>0, <2>1
  <2> QED BY <1>0, <1>1, <2>1, <2>2
<1>8. CASE L!Hibernate
  <2>1. <<>> \in {lines \in L!Lines : Len(lines) <= Keep}
    BY <1>0 DEF L!Lines
  <2>2. buffers' \in [Containers -> {lines \in L!Lines : Len(lines) <= Keep}]
    BY <1>8, <2>1 DEF L!Hibernate
  <2> QED BY <1>0, <1>1, <1>8, <2>2 DEF L!Hibernate, L!agentVars
<1>9. ASSUME NEW s \in Sockets, NEW c \in Containers, L!HandleLogSubscribe(s, c)
      PROVE  L!TypeOK'
  <2>1. /\ sockets' = [sockets EXCEPT ![s] = "on"]
        /\ subs' = [subs EXCEPT ![s] = c] /\ shown' = [shown EXCEPT ![s] = buffers[c]]
        /\ unstopped' = unstopped \ {c}
        /\ UNCHANGED <<written, attached, told, streams, forwarders, buffers, drops>>
        /\ \/ L!Send("start", c) /\ unserved' = IF attached = "down" THEN unserved \cup {c} ELSE unserved
           \/ UNCHANGED <<asked, unserved>>
    BY <1>9, SubscribeDoes
  <2>2. /\ sockets' \in [Sockets -> L!SocketStates] /\ subs' \in [Sockets -> Containers \cup {"none"}]
        /\ shown' \in [Sockets -> L!Lines] /\ unserved' \subseteq Containers /\ unstopped' \subseteq Containers
    BY <1>0, <2>1 DEF L!SocketStates
  <2>3. asked' \in Seq(Command)
    <3>1. CASE L!Send("start", c)
      BY <1>0, <3>1, SendDoes
    <3> QED BY <1>0, <2>1, <3>1
  <2> QED BY <1>0, <1>1, <2>1, <2>2, <2>3
<1>10. ASSUME NEW s \in Sockets, L!HandleLogUnsubscribe(s) \/ L!HandleUIClose(s)
      PROVE  L!TypeOK'
  <2>1. /\ \/ sockets' = [sockets EXCEPT ![s] = "closing"]
           \/ sockets' = [sockets EXCEPT ![s] = "closed"]
        /\ subs' = [subs EXCEPT ![s] = "none"]
        /\ UNCHANGED <<written, attached, told, streams, forwarders, buffers, shown, drops, unserved>>
        /\ \/ \E c \in Containers : L!Send("stop", c) /\ unstopped' \in {unstopped, unstopped \cup {c}}
           \/ UNCHANGED <<asked, unstopped>>
    BY <1>10, UnsubscribeDoes
  <2>2. /\ sockets' \in [Sockets -> L!SocketStates] /\ subs' \in [Sockets -> Containers \cup {"none"}]
        /\ unstopped' \subseteq Containers
    BY <1>0, <2>1 DEF L!SocketStates
  <2>3. asked' \in Seq(Command)
    <3>1. ASSUME NEW c \in Containers, L!Send("stop", c)
          PROVE  asked' \in Seq(Command)
      BY <1>0, <3>1, SendDoes
    <3> QED BY <1>0, <2>1, <3>1
  <2> QED BY <1>0, <1>1, <2>1, <2>2, <2>3
<1>11. CASE L!HandleAgentMessage
  <2>1. PICK c \in Containers :
          /\ \E dead \in SUBSET Sockets :
               /\ subs' = [s \in Sockets |-> IF s \in dead THEN "none" ELSE subs[s]]
               /\ unstopped' \in {unstopped, unstopped \cup {c}}
          /\ \/ UNCHANGED <<buffers, shown>>
             \/ \E line \in 1 .. MaxLine :
                  /\ buffers' = [buffers EXCEPT ![c] = L!Newest(Append(buffers[c], line))]
                  /\ shown' = [s \in Sockets |-> IF subs[s] = c /\ sockets[s] = "on"
                                                 THEN Append(shown[s], line) ELSE shown[s]]
    BY <1>11, MessageDoes
  <2>2. ASSUME NEW line \in 1 .. MaxLine
        PROVE  /\ L!Newest(Append(buffers[c], line)) \in {lines \in L!Lines : Len(lines) <= Keep}
               /\ \A s \in Sockets : Append(shown[s], line) \in L!Lines
    <3>1. Append(buffers[c], line) \in L!Lines
      BY <1>0 DEF L!Lines
    <3>2. \A s \in Sockets : Append(shown[s], line) \in L!Lines
      BY <1>0 DEF L!Lines
    <3> QED BY <3>1, <3>2, NewestTyped
  <2>3. /\ buffers' \in [Containers -> {lines \in L!Lines : Len(lines) <= Keep}]
        /\ shown' \in [Sockets -> L!Lines]
    <3>1. CASE UNCHANGED <<buffers, shown>>
      BY <1>0, <3>1
    <3>2. ASSUME NEW line \in 1 .. MaxLine,
                 buffers' = [buffers EXCEPT ![c] = L!Newest(Append(buffers[c], line))],
                 shown' = [s \in Sockets |-> IF subs[s] = c /\ sockets[s] = "on"
                                             THEN Append(shown[s], line) ELSE shown[s]]
          PROVE  /\ buffers' \in [Containers -> {lines \in L!Lines : Len(lines) <= Keep}]
                 /\ shown' \in [Sockets -> L!Lines]
      <4>1. buffers' \in [Containers -> {lines \in L!Lines : Len(lines) <= Keep}]
        BY <1>0, <2>2, <3>2
      <4>2. shown' \in [Sockets -> L!Lines]
        BY <1>0, <2>2, <3>2
      <4> QED BY <4>1, <4>2
    <3> QED BY <2>1, <3>1, <3>2
  <2>4. subs' \in [Sockets -> Containers \cup {"none"}] /\ unstopped' \subseteq Containers
    BY <1>0, <2>1
  <2> QED BY <1>0, <1>1, <1>11, <2>3, <2>4, MessageDoes
<1> QED BY <1>2, <1>3, <1>4, <1>5, <1>6, <1>7, <1>8, <1>9, <1>10, <1>11, LogSteps


\* The agent's map stays the map of what may be cancelled, if a cancelled forwarder ends first.
LEMMA RegisteredKept ==
  ASSUME Prompt, L!TypeOK, Registered, [L!LogNext]_L!logVars
  PROVE  Registered'
<1>0. /\ streams \in [Containers -> Forwarders \cup {"none"}]
      /\ forwarders \in [Forwarders -> {L!Ended} \cup Going] /\ "none" \notin Containers \cup Forwarders
  BY LogTypes, ConnectionAssumption DEF L!LogAssumption
<1>1. ASSUME UNCHANGED <<streams, forwarders>>
      PROVE  Registered'
  BY <1>1 DEF Registered, L!Cancellable, L!Running
<1>2. CASE LogQuiet
  BY <1>1, <1>2, QuietDoes
<1>3. ASSUME NEW c \in Containers, L!HandleLogStreamStart(c)
      PROVE  Registered'
  <2>1. \/ UNCHANGED <<streams, forwarders>>
        \/ /\ streams[c] = "none" /\ \A f \in Forwarders : L!Running(f) => forwarders[f].container # c
           /\ \E f \in Forwarders : /\ ~L!Running(f) /\ forwarders' = [forwarders EXCEPT ![f] = Starting(c)]
                                    /\ streams' = [streams EXCEPT ![c] = f]
    BY <1>3, StartDoes
  <2>2. ASSUME NEW f \in Forwarders, streams[c] = "none",
               \A g \in Forwarders : L!Running(g) => forwarders[g].container # c,
               ~L!Running(f), forwarders' = [forwarders EXCEPT ![f] = Starting(c)],
               streams' = [streams EXCEPT ![c] = f]
        PROVE  Registered'
    <3>1. /\ Starting(c).container = c /\ ~Starting(c).cancelled /\ Starting(c) # L!Ended
      BY <1>0 DEF Starting, L!Ended
    <3>2. /\ forwarders'[f] = Starting(c) /\ streams'[c] = f
          /\ \A g \in Forwarders \ {f} : forwarders'[g] = forwarders[g]
          /\ \A d \in Containers \ {c} : streams'[d] = streams[d]
      BY <1>0, <2>2
    <3>3. ASSUME NEW d \in Containers, streams'[d] # "none"
          PROVE  /\ forwarders'[streams'[d]] # L!Ended /\ forwarders'[streams'[d]].container = d
                 /\ ~forwarders'[streams'[d]].cancelled
      <4>1. CASE d = c
        BY <3>1, <3>2, <4>1
      <4>2. CASE d # c
        BY <1>0, <2>2, <3>2, <3>3, <4>2 DEF Registered, L!Running
      <4> QED BY <4>1, <4>2
    <3>4. ASSUME NEW g \in Forwarders, forwarders'[g] # L!Ended, ~forwarders'[g].cancelled
          PROVE  streams'[forwarders'[g].container] = g
      <4>1. CASE g = f
        BY <3>1, <3>2, <4>1
      <4>2. CASE g # f
        <5>1. forwarders[g] \in Going /\ forwarders'[g] = forwarders[g]
          BY <1>0, <3>2, <3>4, <4>2
        <5>2. forwarders[g].container \in Containers \ {c} /\ streams[forwarders[g].container] = g
          BY <2>2, <3>4, <5>1 DEF Registered, L!Cancellable, L!Running, Going
        <5> QED BY <3>2, <5>1, <5>2
      <4> QED BY <4>1, <4>2
    <3>5. ASSUME NEW g \in Forwarders, NEW h \in Forwarders, forwarders'[g] # L!Ended,
                 forwarders'[h] # L!Ended, forwarders'[g].container = forwarders'[h].container
          PROVE  g = h
      BY <2>2, <3>1, <3>2, <3>5 DEF Registered, L!Running
    <3> QED BY <3>3, <3>4, <3>5 DEF Registered, L!Cancellable, L!Running
  <2> QED BY <1>1, <2>1, <2>2
<1>4. ASSUME NEW c \in Containers, L!HandleLogStreamStop(c)
      PROVE  Registered'
  <2>1. \/ UNCHANGED <<streams, forwarders>>
        \/ /\ streams[c] \in Forwarders
           /\ forwarders' = [forwarders EXCEPT ![streams[c]].cancelled = TRUE]
           /\ streams' = [streams EXCEPT ![c] = "none"]
    BY <1>4, StopDoes
  <2>2. ASSUME NEW f \in Forwarders, f = streams[c],
               forwarders' = [forwarders EXCEPT ![f].cancelled = TRUE], streams' = [streams EXCEPT ![c] = "none"]
        PROVE  Registered'
    <3>1. L!Running(f) /\ forwarders[f].container = c /\ f # "none" /\ forwarders[f] \in Going
      BY <1>0, <2>2, Runs DEF Registered
    <3>2. /\ forwarders'[f] = [forwarders[f] EXCEPT !.cancelled = TRUE] /\ streams'[c] = "none"
          /\ \A g \in Forwarders \ {f} : forwarders'[g] = forwarders[g]
          /\ \A d \in Containers \ {c} : streams'[d] = streams[d]
      BY <1>0, <2>2
    <3>3. forwarders'[f].container = c /\ forwarders'[f].cancelled
      BY <3>1, <3>2 DEF Going
    <3>4. ASSUME NEW d \in Containers, streams'[d] # "none"
          PROVE  /\ forwarders'[streams'[d]] # L!Ended /\ forwarders'[streams'[d]].container = d
                 /\ ~forwarders'[streams'[d]].cancelled
      BY <1>0, <3>1, <3>2, <3>4 DEF Registered, L!Running
    <3>5. ASSUME NEW g \in Forwarders, forwarders'[g] # L!Ended, ~forwarders'[g].cancelled
          PROVE  streams'[forwarders'[g].container] = g
      <4>1. g # f /\ forwarders[g] \in Going /\ forwarders'[g] = forwarders[g]
        BY <1>0, <3>2, <3>3, <3>5
      <4>2. forwarders[g].container \in Containers /\ streams[forwarders[g].container] = g
        BY <3>5, <4>1 DEF Registered, L!Cancellable, L!Running, Going
      <4> QED BY <2>2, <3>2, <4>1, <4>2
    <3>6. ASSUME NEW g \in Forwarders, NEW h \in Forwarders, forwarders'[g] # L!Ended,
                 forwarders'[h] # L!Ended, forwarders'[g].container = forwarders'[h].container
          PROVE  g = h
      <4>1. ASSUME NEW x \in Forwarders, forwarders'[x] # L!Ended
            PROVE  L!Running(x) /\ forwarders'[x].container = forwarders[x].container
        <5>1. CASE x = f
          BY <3>1, <3>3, <5>1
        <5>2. CASE x # f
          BY <3>2, <4>1, <5>2 DEF L!Running
        <5> QED BY <5>1, <5>2
      <4> QED BY <3>6, <4>1 DEF Registered
    <3> QED BY <3>4, <3>5, <3>6 DEF Registered, L!Cancellable, L!Running
  <2> QED BY <1>1, <2>1, <2>2
<1>5. ASSUME NEW f \in Forwarders, L!Forward(f)
      PROVE  Registered'
  <2>1. UNCHANGED streams /\ forwarders[f] \in Going /\ forwarders' = [forwarders EXCEPT ![f].next = @ + 1]
    BY <1>5, ForwardDoes
  <2>2. \A g \in Forwarders : /\ forwarders'[g].container = forwarders[g].container
                              /\ forwarders'[g].cancelled = forwarders[g].cancelled
                              /\ forwarders'[g] # L!Ended <=> forwarders[g] # L!Ended
    BY <1>0, <2>1 DEF Going, L!Ended
  <2> QED BY <1>0, <2>1, <2>2 DEF Registered, L!Cancellable, L!Running
<1>6. ASSUME NEW f \in Forwarders, L!EndOfLog(f) \/ L!DockerError(f) \/ L!Quit(f)
      PROVE  Registered'
  <2>1. /\ forwarders[f] \in Going /\ forwarders' = [forwarders EXCEPT ![f] = L!Ended]
        /\ streams' = [streams EXCEPT ![forwarders[f].container] = "none"]
    BY <1>6, EndDoes
  <2>2. forwarders[f].container \in Containers /\ L!Running(f)
    BY <2>1, Runs DEF Going
  <2>3. /\ forwarders'[f] = L!Ended /\ streams'[forwarders[f].container] = "none"
        /\ \A g \in Forwarders \ {f} : forwarders'[g] = forwarders[g]
        /\ \A d \in Containers \ {forwarders[f].container} : streams'[d] = streams[d]
    BY <1>0, <2>1, <2>2
  <2>4. ASSUME NEW d \in Containers, streams'[d] # "none"
        PROVE  /\ forwarders'[streams'[d]] # L!Ended /\ forwarders'[streams'[d]].container = d
               /\ ~forwarders'[streams'[d]].cancelled
    BY <1>0, <2>3, <2>4 DEF Registered, L!Running
  <2>5. ASSUME NEW g \in Forwarders, forwarders'[g] # L!Ended, ~forwarders'[g].cancelled
        PROVE  streams'[forwarders'[g].container] = g
    <3>1. g # f /\ forwarders[g] \in Going /\ forwarders'[g] = forwarders[g]
      BY <1>0, <2>3, <2>5
    <3>2. forwarders[g].container \in Containers /\ streams[forwarders[g].container] = g
      BY <2>5, <3>1 DEF Registered, L!Cancellable, L!Running, Going
    <3>3. forwarders[g].container # forwarders[f].container
      BY <2>2, <2>5, <3>1 DEF Registered, L!Running
    <3> QED BY <2>3, <3>1, <3>2, <3>3
  <2>6. ASSUME NEW g \in Forwarders, NEW h \in Forwarders, forwarders'[g] # L!Ended,
               forwarders'[h] # L!Ended, forwarders'[g].container = forwarders'[h].container
        PROVE  g = h
    BY <2>3, <2>6 DEF Registered, L!Running
  <2> QED BY <2>4, <2>5, <2>6 DEF Registered, L!Cancellable, L!Running
<1>7. CASE L!Drop \/ L!Hibernate
  BY <1>1, <1>7 DEF L!Drop, L!Hibernate, L!agentVars
<1>8. CASE L!HandleAgentMessage
  BY <1>1, <1>8, MessageDoes
<1>9. ASSUME NEW s \in Sockets, L!HandleLogUnsubscribe(s) \/ L!HandleUIClose(s)
      PROVE  Registered'
  BY <1>1, <1>9, UnsubscribeDoes
<1>10. ASSUME NEW s \in Sockets, NEW c \in Containers, L!HandleLogSubscribe(s, c)
      PROVE  Registered'
  BY <1>1, <1>10, SubscribeDoes
<1> QED BY <1>2, <1>3, <1>4, <1>5, <1>6, <1>7, <1>8, <1>9, <1>10, LogSteps

LEMMA Still ==
  ASSUME UNCHANGED asked
  PROVE  \A d : (Silent(d)' <=> Silent(d)) /\ \A x : Latest(x, d)' <=> Latest(x, d)
BY DEF Silent, Latest

\* Who is on has a subscription, and nobody waits for a stream that is to be stopped.
LEMMA SubscribedKept ==
  ASSUME L!TypeOK, Subscribed, [L!LogNext]_L!logVars
  PROVE  Subscribed'
<1>0. /\ sockets \in [Sockets -> L!SocketStates] /\ subs \in [Sockets -> Containers \cup {"none"}]
      /\ asked \in Seq(Command) /\ attached \in {"up", "down"} /\ "none" \notin Containers
      /\ \A s \in Sockets : /\ sockets[s] \in {"unused", "new"} => subs[s] = "none"
                            /\ sockets[s] = "on" => subs[s] # "none"
      /\ attached = "down" => asked = <<>>
      /\ \A c \in Containers : Latest("stop", c) => L!Subscribers(subs, c) = {}
  BY LogTypes, ConnectionAssumption DEF L!LogAssumption, Subscribed
<1>1. ASSUME \A s \in Sockets : /\ sockets'[s] \in {"unused", "new"} => subs'[s] = "none"
                                /\ sockets'[s] = "on" => subs'[s] # "none",
             attached' = "down" => asked' = <<>>,
             \A c \in Containers : Latest("stop", c)' => L!Subscribers(subs', c) = {}
      PROVE  Subscribed'
  BY <1>1 DEF Subscribed, L!Subscribers
<1>2. ASSUME UNCHANGED <<asked, subs>>, attached' = "down" => attached = "down",
             \A s \in Sockets : /\ sockets'[s] \in {"unused", "new"} => sockets[s] \in {"unused", "new"}
                                /\ sockets'[s] = "on" => sockets[s] = "on"
      PROVE  Subscribed'
  BY <1>0, <1>1, <1>2, Still
<1>3. CASE LogQuiet
  BY <1>2, <1>3, QuietDoes
<1>4. ASSUME asked # <<>>, asked' = Tail(asked), UNCHANGED <<attached, sockets, subs>>,
             NEW op, NEW c, Head(asked) = [op |-> op, container |-> c]
      PROVE  Subscribed'
  <2>1. \A x, d : Latest(x, d)' => Latest(x, d)
    BY <1>0, <1>4, AskedLess
  <2> QED BY <1>0, <1>1, <1>4, <2>1
<1>5. ASSUME NEW c \in Containers, L!HandleLogStreamStart(c)
      PROVE  Subscribed'
  BY <1>4, <1>5, StartDoes
<1>6. ASSUME NEW c \in Containers, L!HandleLogStreamStop(c)
      PROVE  Subscribed'
  BY <1>4, <1>6, StopDoes
<1>7. ASSUME NEW f \in Forwarders, L!Forward(f)
      PROVE  Subscribed'
  BY <1>2, <1>7, ForwardDoes
<1>8. ASSUME NEW f \in Forwarders, L!EndOfLog(f) \/ L!DockerError(f) \/ L!Quit(f)
      PROVE  Subscribed'
  BY <1>2, <1>8, EndDoes
<1>9. CASE L!Drop
  <2>1. asked' = <<>> /\ UNCHANGED <<sockets, subs>>
    BY <1>9 DEF L!Drop, L!viewVars
  <2>2. \A c \in Containers : ~Latest("stop", c)'
    BY <2>1 DEF Latest
  <2> QED BY <1>0, <1>1, <2>1, <2>2
<1>10. CASE L!Hibernate
  BY <1>2, <1>10 DEF L!Hibernate
<1>11. ASSUME NEW s \in Sockets, NEW c \in Containers, L!HandleLogSubscribe(s, c)
      PROVE  Subscribed'
  <2>1. /\ sockets' = [sockets EXCEPT ![s] = "on"] /\ subs' = [subs EXCEPT ![s] = c] /\ UNCHANGED attached
        /\ IF L!Subscribers(subs', c) = {s} THEN L!Send("start", c) ELSE UNCHANGED asked
    BY <1>11, SubscribeDoes
  <2>2. /\ \A t \in Sockets : /\ sockets'[t] \in {"unused", "new"} => subs'[t] = "none"
                              /\ sockets'[t] = "on" => subs'[t] # "none"
    BY <1>0, <2>1
  <2>3. /\ \A d \in Containers \ {c} : L!Subscribers(subs', d) \subseteq L!Subscribers(subs, d)
        /\ L!Subscribers(subs, c) = {} => L!Subscribers(subs', c) = {s}
    BY <1>0, <2>1 DEF L!Subscribers
  <2>4. CASE L!Subscribers(subs', c) = {s} /\ attached = "up"
    <3>1. \A x, d : Latest(x, d)' <=> IF d = c THEN x = "start" ELSE Latest(x, d)
      BY <2>1, <2>4, SendDoes
    <3>2. \A d \in Containers : Latest("stop", d)' => d # c /\ Latest("stop", d)
      BY <3>1
    <3> QED BY <1>0, <1>1, <2>1, <2>2, <2>3, <2>4, <3>2
  <2>5. CASE ~(L!Subscribers(subs', c) = {s} /\ attached = "up")
    <3>1. UNCHANGED asked
      BY <2>1, <2>5, SendDoes
    <3>2. attached' = "down" => asked' = <<>>
      BY <1>0, <2>1, <3>1
    <3>3. \A d \in Containers : Latest("stop", d)' => d # c /\ Latest("stop", d)
      <4>1. CASE attached = "down"
        BY <1>0, <3>1, <4>1, NothingAsked, Still
      <4>2. CASE attached = "up"
        BY <1>0, <2>3, <2>5, <3>1, <4>2, Still
      <4> QED BY <1>0, <4>1, <4>2
    <3> QED BY <1>0, <1>1, <2>2, <2>3, <3>2, <3>3
  <2> QED BY <2>4, <2>5
<1>12. ASSUME NEW s \in Sockets, L!HandleLogUnsubscribe(s) \/ L!HandleUIClose(s)
      PROVE  Subscribed'
  <2>1. /\ \/ sockets' = [sockets EXCEPT ![s] = "closing"]
           \/ sockets' = [sockets EXCEPT ![s] = "closed"]
        /\ subs' = [subs EXCEPT ![s] = "none"] /\ UNCHANGED attached
        /\ \/ \E c \in Containers : L!Subscribers(subs', c) = {} /\ L!Send("stop", c)
           \/ UNCHANGED asked
    BY <1>12, UnsubscribeDoes
  <2>2. \A t \in Sockets : /\ sockets'[t] \in {"unused", "new"} => subs'[t] = "none"
                           /\ sockets'[t] = "on" => subs'[t] # "none"
    BY <1>0, <2>1
  <2>3. \A d \in Containers : L!Subscribers(subs', d) \subseteq L!Subscribers(subs, d)
    BY <1>0, <2>1 DEF L!Subscribers
  <2>4. ASSUME UNCHANGED asked
        PROVE  Subscribed'
    BY <1>0, <1>1, <2>1, <2>2, <2>3, <2>4, Still
  <2>5. ASSUME NEW c \in Containers, L!Subscribers(subs', c) = {}, L!Send("stop", c)
        PROVE  Subscribed'
    <3>1. CASE attached = "up"
      <4>1. \A x, d : Latest(x, d)' <=> IF d = c THEN x = "stop" ELSE Latest(x, d)
        BY <2>5, <3>1, SendDoes
      <4>2. \A d \in Containers : Latest("stop", d)' => d = c \/ Latest("stop", d)
        BY <4>1
      <4> QED BY <1>0, <1>1, <2>1, <2>2, <2>3, <2>5, <3>1, <4>2
    <3>2. CASE attached = "down"
      BY <2>4, <2>5, <3>2, SendDoes
    <3> QED BY <1>0, <3>1, <3>2
  <2> QED BY <2>1, <2>4, <2>5
<1>13. CASE L!HandleAgentMessage
  <2>1. /\ UNCHANGED <<attached, asked, sockets>>
        /\ \E c \in Containers : \E dead \in SUBSET {s \in Sockets : subs[s] = c /\ sockets[s] = "closing"} :
             subs' = [s \in Sockets |-> IF s \in dead THEN "none" ELSE subs[s]]
    BY <1>13, MessageDoes
  <2>2. PICK dead \in SUBSET {s \in Sockets : sockets[s] = "closing"} :
          subs' = [s \in Sockets |-> IF s \in dead THEN "none" ELSE subs[s]]
    BY <2>1
  <2>3. \A t \in Sockets : /\ sockets'[t] \in {"unused", "new"} => subs'[t] = "none"
                           /\ sockets'[t] = "on" => subs'[t] # "none"
    BY <1>0, <2>1, <2>2
  <2>4. \A d \in Containers : L!Subscribers(subs', d) \subseteq L!Subscribers(subs, d)
    BY <1>0, <2>2 DEF L!Subscribers
  <2> QED BY <1>0, <1>1, <2>1, <2>3, <2>4, Still
<1> QED BY <1>3, <1>5, <1>6, <1>7, <1>8, <1>9, <1>10, <1>11, <1>12, <1>13, LogSteps


\* What the agent streams depends on its forwarders only.
LEMMA StreamsSame ==
  ASSUME UNCHANGED forwarders
  PROVE  \A d : L!Streamed(d)' <=> L!Streamed(d)
BY DEF L!Streamed, L!Running

\* What is lost with the connection is the last that was asked of the agent, if nothing else was.
LEMMA LostDoes ==
  ASSUME L!TypeOK, L!Drop, NEW c \in Containers, ~Silent(c)
  PROVE  /\ c \notin unserved' => Latest("stop", c)
         /\ c \notin unstopped' => Latest("start", c)
<1>1. asked \in Seq(Command)
  BY LogTypes
<1>2. \A m \in 1 .. Len(asked) : asked[m] \in Command /\ asked[m] \in L!ToSet(asked)
  BY <1>1, ElementOfSeq DEF L!ToSet
<1>3. PICK m \in 1 .. Len(asked) : asked[m].container = c
  BY DEF Silent
<1>4. \A n \in 1 .. Len(asked) : asked[n].container = c =>
        /\ asked[n] = [op |-> "start", container |-> c] \/ asked[n] = [op |-> "stop", container |-> c]
        /\ asked[n].op \in {"start", "stop"}
  BY <1>2 DEF Command
<1>5. Len(asked) \in Nat
  BY <1>1, LenProperties
<1>6. ASSUME c \notin unserved'
      PROVE  Latest("stop", c)
  <2>1. [op |-> "start", container |-> c] \notin L!ToSet(asked)
    BY <1>6 DEF L!Drop
  <2>2. \A n \in 1 .. Len(asked) : asked[n].container = c => asked[n] = [op |-> "stop", container |-> c]
    BY <1>2, <1>4, <2>1
  <2>3. \A n \in m + 1 .. Len(asked) : n \in 1 .. Len(asked)
    BY <1>3, <1>5
  <2> QED BY <1>3, <2>2, <2>3 DEF Latest
<1>7. ASSUME c \notin unstopped'
      PROVE  Latest("start", c)
  <2>1. [op |-> "stop", container |-> c] \notin L!ToSet(asked)
    BY <1>7 DEF L!Drop
  <2>2. \A n \in 1 .. Len(asked) : asked[n].container = c => asked[n] = [op |-> "start", container |-> c]
    BY <1>2, <1>4, <2>1
  <2>3. \A n \in m + 1 .. Len(asked) : n \in 1 .. Len(asked)
    BY <1>3, <1>5
  <2> QED BY <1>3, <2>2, <2>3 DEF Latest
<1> QED BY <1>6, <1>7

\* A container streamed by one forwarder is so still, when another one starts, stops or ends.
LEMMA StreamsKept ==
  ASSUME L!TypeOK, NEW f \in Forwarders, NEW w, forwarders' = [forwarders EXCEPT ![f] = w],
         w \in {L!Ended} \cup Going
  PROVE  /\ \A d : forwarders[f].container # d /\ L!Streamed(d) => L!Streamed(d)'
         /\ \A d : ~L!Running(f) /\ L!Streamed(d) => L!Streamed(d)'
         /\ \A d : w = L!Ended \/ w.container # d \/ w.cancelled => (L!Streamed(d)' => L!Streamed(d))
<1>1. /\ \A g \in Forwarders \ {f} : forwarders'[g] = forwarders[g]
      /\ forwarders'[f] = w
  BY LogTypes
<1> QED BY <1>1 DEF L!Streamed, L!Running

\* What the agent does for one container leaves what it streams for the others.
LEMMA OthersStreamed ==
  ASSUME L!TypeOK, Registered, NEW c \in Containers,
         L!HandleLogStreamStart(c) \/ L!HandleLogStreamStop(c)
  PROVE  /\ \A d \in Containers \ {c} : L!Streamed(d)' <=> L!Streamed(d)
         /\ L!HandleLogStreamStart(c) => L!Streamed(c)'
         /\ L!HandleLogStreamStop(c) => ~L!Streamed(c)'
<1>0. /\ streams \in [Containers -> Forwarders \cup {"none"}]
      /\ forwarders \in [Forwarders -> {L!Ended} \cup Going] /\ "none" \notin Containers \cup Forwarders
  BY LogTypes, ConnectionAssumption DEF L!LogAssumption
<1>1. ASSUME L!HandleLogStreamStart(c)
      PROVE  /\ \A d \in Containers \ {c} : L!Streamed(d)' <=> L!Streamed(d)
             /\ L!Streamed(c)'
  <2>1. \/ streams[c] # "none" /\ UNCHANGED <<streams, forwarders>>
        \/ \E f \in Forwarders : /\ ~L!Running(f) /\ Starting(c) \in Going
                                 /\ forwarders' = [forwarders EXCEPT ![f] = Starting(c)]
    BY <1>1, StartDoes
  <2>2. CASE streams[c] # "none" /\ UNCHANGED <<streams, forwarders>>
    <3>1. L!Streamed(c)
      BY <1>0, <2>2 DEF L!Streamed, Registered
    <3> QED BY <2>2, <3>1, StreamsSame
  <2>3. ASSUME NEW f \in Forwarders, ~L!Running(f), Starting(c) \in Going,
               forwarders' = [forwarders EXCEPT ![f] = Starting(c)]
        PROVE  /\ \A d \in Containers \ {c} : L!Streamed(d)' <=> L!Streamed(d)
               /\ L!Streamed(c)'
    <3>1. /\ \A d : ~L!Running(f) /\ L!Streamed(d) => L!Streamed(d)'
          /\ \A d : Starting(c) = L!Ended \/ Starting(c).container # d \/ Starting(c).cancelled
                      => (L!Streamed(d)' => L!Streamed(d))
      BY <2>3, StreamsKept
    <3>2. Starting(c).container = c /\ ~Starting(c).cancelled /\ Starting(c) # L!Ended
      BY <1>0 DEF Starting, L!Ended
    <3>3. forwarders'[f] = Starting(c)
      BY <1>0, <2>3
    <3>4. L!Streamed(c)'
      BY <3>2, <3>3 DEF L!Streamed, L!Running
    <3> QED BY <2>3, <3>1, <3>2, <3>4
  <2> QED BY <2>1, <2>2, <2>3
<1>2. ASSUME L!HandleLogStreamStop(c)
      PROVE  /\ \A d \in Containers \ {c} : L!Streamed(d)' <=> L!Streamed(d)
             /\ ~L!Streamed(c)'
  <2>1. \/ streams[c] = "none" /\ UNCHANGED <<streams, forwarders>>
        \/ /\ streams[c] # "none" /\ streams[c] \in Forwarders
           /\ forwarders' = [forwarders EXCEPT ![streams[c]].cancelled = TRUE]
    BY <1>2, StopDoes
  <2>2. CASE streams[c] = "none" /\ UNCHANGED <<streams, forwarders>>
    <3>1. ~L!Streamed(c)
      BY <1>0, <2>2 DEF L!Streamed, Registered, L!Cancellable
    <3> QED BY <2>2, <3>1, StreamsSame
  <2>3. ASSUME NEW f \in Forwarders, f = streams[c], f # "none",
               forwarders' = [forwarders EXCEPT ![f].cancelled = TRUE]
        PROVE  /\ \A d \in Containers \ {c} : L!Streamed(d)' <=> L!Streamed(d)
               /\ ~L!Streamed(c)'
    <3>1. L!Running(f) /\ forwarders[f].container = c /\ forwarders[f] \in Going
      BY <1>0, <2>3, Runs DEF Registered
    <3>2. PICK w : w = [forwarders[f] EXCEPT !.cancelled = TRUE]
      OBVIOUS
    <3>3. w \in Going /\ w.container = c /\ w.cancelled
      BY <3>1, <3>2 DEF Going
    <3>4. forwarders' = [forwarders EXCEPT ![f] = w]
      BY <1>0, <2>3, <3>2
    <3>5. /\ \A d : forwarders[f].container # d /\ L!Streamed(d) => L!Streamed(d)'
          /\ \A d : w = L!Ended \/ w.container # d \/ w.cancelled => (L!Streamed(d)' => L!Streamed(d))
      BY <3>3, <3>4, StreamsKept
    <3>6. /\ forwarders'[f] = w /\ \A g \in Forwarders \ {f} : forwarders'[g] = forwarders[g]
      BY <1>0, <3>4
    <3>7. ASSUME NEW g \in Forwarders, forwarders'[g] # L!Ended, forwarders'[g].container = c,
                 ~forwarders'[g].cancelled
          PROVE  FALSE
      <4>1. g # f /\ forwarders'[g] = forwarders[g]
        BY <3>3, <3>6, <3>7
      <4>2. streams[c] = g
        BY <3>7, <4>1 DEF Registered, L!Cancellable, L!Running
      <4> QED BY <2>3, <4>1, <4>2
    <3>8. ~L!Streamed(c)'
      BY <3>7 DEF L!Streamed, L!Running
    <3> QED BY <3>1, <3>3, <3>5, <3>8
  <2> QED BY <2>1, <2>2, <2>3
<1> QED BY <1>1, <1>2

LEMMA ForwardStreams ==
  ASSUME L!TypeOK, NEW f \in Forwarders, L!Forward(f)
  PROVE  \A d : L!Streamed(d)' <=> L!Streamed(d)
<1>0. forwarders \in [Forwarders -> {L!Ended} \cup Going] /\ "none" \notin Containers
  BY LogTypes, ConnectionAssumption DEF L!LogAssumption
<1>1. forwarders[f] \in Going /\ forwarders' = [forwarders EXCEPT ![f].next = @ + 1]
  BY ForwardDoes
<1>2. \A g \in Forwarders : /\ forwarders'[g].container = forwarders[g].container
                            /\ forwarders'[g].cancelled = forwarders[g].cancelled
                            /\ forwarders'[g] # L!Ended <=> forwarders[g] # L!Ended
  BY <1>0, <1>1 DEF Going, L!Ended
<1> QED BY <1>2 DEF L!Streamed, L!Running

\* Whose stream ends is unserved, or was to be stopped; no other stream ends.
LEMMA EndStreams ==
  ASSUME L!TypeOK, NEW f \in Forwarders, L!EndOfLog(f) \/ L!DockerError(f) \/ L!Quit(f)
  PROVE  \A d \in Containers : /\ L!Streamed(d)' => L!Streamed(d)
                               /\ L!Streamed(d) => L!Streamed(d)' \/ d \in unserved'
<1>0. forwarders \in [Forwarders -> {L!Ended} \cup Going]
  BY LogTypes
<1>1. /\ forwarders' = [forwarders EXCEPT ![f] = L!Ended]
      /\ unserved' = IF forwarders[f].cancelled THEN unserved ELSE unserved \cup {forwarders[f].container}
  BY EndDoes
<1>2. forwarders'[f] = L!Ended /\ \A g \in Forwarders \ {f} : forwarders'[g] = forwarders[g]
  BY <1>0, <1>1
<1> QED BY <1>1, <1>2 DEF L!Streamed, L!Running

\* Who subscribes had no subscription.
LEMMA Joins ==
  ASSUME L!TypeOK, Subscribed, NEW s \in Sockets, NEW c \in Containers, L!HandleLogSubscribe(s, c)
  PROVE  /\ \A d \in Containers \ {c} : L!Subscribers(subs', d) = L!Subscribers(subs, d)
         /\ s \in L!Subscribers(subs', c)
         /\ L!Subscribers(subs', c) # {s} => L!Subscribers(subs, c) # {}
<1>1. /\ sockets[s] = "new" /\ subs' = [subs EXCEPT ![s] = c]
  BY SubscribeDoes
<1>2. /\ subs \in [Sockets -> Containers \cup {"none"}] /\ subs[s] = "none" /\ "none" \notin Containers
  BY <1>1, LogTypes, ConnectionAssumption DEF L!LogAssumption, Subscribed
<1>3. \A t \in Sockets : subs'[t] = IF t = s THEN c ELSE subs[t]
  BY <1>1, <1>2
<1> QED BY <1>2, <1>3 DEF L!Subscribers

\* Who watches is served.
LEMMA ServingKept ==
  ASSUME L!TypeOK, Registered, Subscribed, Serving, [L!LogNext]_L!logVars
  PROVE  Serving'
<1>0. /\ attached \in {"up", "down"} /\ asked \in Seq(Command)
      /\ \A c \in Containers : Latest("stop", c) => L!Subscribers(subs, c) = {}
      /\ \A c \in Containers \ unserved : L!Subscribers(subs, c) # {} /\ Silent(c) => L!Streamed(c)
      /\ "none" \notin Containers /\ subs \in [Sockets -> Containers \cup {"none"}]
  BY LogTypes, ConnectionAssumption DEF L!LogAssumption, Subscribed, Serving
<1>1. ASSUME \A d \in Containers \ unserved' :
               L!Subscribers(subs', d) # {} /\ Silent(d)' => L!Streamed(d)'
      PROVE  Serving'
  BY <1>1 DEF Serving, L!Subscribers
<1>2. ASSUME UNCHANGED <<asked, forwarders>>, unserved \subseteq unserved',
             \A d \in Containers : L!Subscribers(subs', d) \subseteq L!Subscribers(subs, d)
      PROVE  Serving'
  BY <1>0, <1>1, <1>2, Still, StreamsSame
<1>3. ASSUME UNCHANGED subs
      PROVE  \A d \in Containers : L!Subscribers(subs', d) = L!Subscribers(subs, d)
  BY <1>3
<1>4. CASE LogQuiet
  BY <1>2, <1>3, <1>4, QuietDoes
<1>5. ASSUME NEW c \in Containers, L!HandleLogStreamStart(c)
      PROVE  Serving'
  <2>1. /\ asked # <<>> /\ Head(asked) = [op |-> "start", container |-> c] /\ asked' = Tail(asked)
        /\ unserved' = unserved \ {c} /\ UNCHANGED subs
    BY <1>5, StartDoes
  <2>2. \A d : d # c => (Silent(d)' <=> Silent(d))
    BY <1>0, <2>1, AskedLess
  <2>3. L!Streamed(c)' /\ \A d \in Containers \ {c} : L!Streamed(d)' <=> L!Streamed(d)
    BY <1>5, OthersStreamed
  <2> QED BY <1>0, <1>1, <2>1, <2>2, <2>3
<1>6. ASSUME NEW c \in Containers, L!HandleLogStreamStop(c)
      PROVE  Serving'
  <2>1. /\ asked # <<>> /\ Head(asked) = [op |-> "stop", container |-> c] /\ asked' = Tail(asked)
        /\ UNCHANGED <<subs, unserved>>
    BY <1>6, StopDoes
  <2>2. (\A d : d # c => (Silent(d)' <=> Silent(d))) /\ (Silent(c)' => Latest("stop", c))
    BY <1>0, <2>1, AskedLess
  <2>3. \A d \in Containers \ {c} : L!Streamed(d)' <=> L!Streamed(d)
    BY <1>6, OthersStreamed
  <2> QED BY <1>0, <1>1, <2>1, <2>2, <2>3
<1>7. ASSUME NEW f \in Forwarders, L!Forward(f)
      PROVE  Serving'
  <2>1. UNCHANGED <<asked, subs, unserved>>
    BY <1>7, ForwardDoes
  <2> QED BY <1>0, <1>1, <1>7, <2>1, ForwardStreams, Still
<1>8. ASSUME NEW f \in Forwarders, L!EndOfLog(f) \/ L!DockerError(f) \/ L!Quit(f)
      PROVE  Serving'
  <2>1. /\ UNCHANGED <<asked, subs>>
        /\ unserved' = IF forwarders[f].cancelled THEN unserved ELSE unserved \cup {forwarders[f].container}
    BY <1>8, EndDoes
  <2>2. \A d \in Containers : L!Streamed(d) => L!Streamed(d)' \/ d \in unserved'
    BY <1>8, EndStreams
  <2> QED BY <1>0, <1>1, <2>1, <2>2, Still
<1>9. CASE L!Drop
  <2>1. UNCHANGED <<subs, forwarders>> /\ unserved \subseteq unserved'
    BY <1>9 DEF L!Drop, L!viewVars, L!agentVars
  <2>2. \A d \in Containers \ unserved' : Silent(d) \/ Latest("stop", d)
    BY <1>9, LostDoes
  <2> QED BY <1>0, <1>1, <2>1, <2>2, StreamsSame
<1>10. CASE L!Hibernate
  BY <1>2, <1>3, <1>10 DEF L!Hibernate, L!agentVars
<1>11. ASSUME NEW s \in Sockets, NEW c \in Containers, L!HandleLogSubscribe(s, c)
      PROVE  Serving'
  <2>1. /\ UNCHANGED <<attached, forwarders>>
        /\ IF L!Subscribers(subs', c) = {s}
           THEN L!Send("start", c) /\ unserved' = IF attached = "down" THEN unserved \cup {c} ELSE unserved
           ELSE UNCHANGED <<asked, unserved>>
    BY <1>11, SubscribeDoes
  <2>2. /\ \A d \in Containers \ {c} : L!Subscribers(subs', d) = L!Subscribers(subs, d)
        /\ L!Subscribers(subs', c) # {s} => L!Subscribers(subs, c) # {}
    BY <1>11, Joins
  <2>3. CASE L!Subscribers(subs', c) = {s} /\ attached = "up"
    <3>1. \A d : Silent(d)' <=> d # c /\ Silent(d)
      BY <2>1, <2>3, SendDoes
    <3> QED BY <1>0, <1>1, <2>1, <2>2, <2>3, <3>1, StreamsSame
  <2>4. CASE L!Subscribers(subs', c) = {s} /\ attached = "down"
    <3>1. UNCHANGED asked /\ unserved' = unserved \cup {c}
      BY <2>1, <2>4, SendDoes
    <3> QED BY <1>0, <1>1, <2>1, <2>2, <3>1, StreamsSame, Still
  <2>5. CASE L!Subscribers(subs', c) # {s}
    BY <1>0, <1>1, <2>1, <2>2, <2>5, StreamsSame, Still
  <2> QED BY <1>0, <2>3, <2>4, <2>5
<1>12. ASSUME NEW s \in Sockets, L!HandleLogUnsubscribe(s) \/ L!HandleUIClose(s)
      PROVE  Serving'
  <2>1. /\ subs' = [subs EXCEPT ![s] = "none"] /\ UNCHANGED <<attached, forwarders, unserved>>
        /\ \/ \E c \in Containers : L!Send("stop", c)
           \/ UNCHANGED asked
    BY <1>12, UnsubscribeDoes
  <2>2. \A d \in Containers : L!Subscribers(subs', d) \subseteq L!Subscribers(subs, d)
    BY <1>0, <2>1 DEF L!Subscribers
  <2>3. ASSUME NEW c \in Containers, L!Send("stop", c)
        PROVE  \A d : Silent(d)' => Silent(d)
    BY <1>0, <2>3, SendDoes, Still
  <2>4. \A d : Silent(d)' => Silent(d)
    BY <2>1, <2>3, Still
  <2> QED BY <1>0, <1>1, <2>1, <2>2, <2>4, StreamsSame
<1>13. CASE L!HandleAgentMessage
  <2>1. /\ UNCHANGED <<asked, forwarders, unserved>>
        /\ \E c \in Containers : \E dead \in SUBSET {s \in Sockets : subs[s] = c /\ sockets[s] = "closing"} :
             subs' = [s \in Sockets |-> IF s \in dead THEN "none" ELSE subs[s]]
    BY <1>13, MessageDoes
  <2>2. PICK dead \in SUBSET Sockets : subs' = [s \in Sockets |-> IF s \in dead THEN "none" ELSE subs[s]]
    BY <2>1
  <2>3. \A d \in Containers : L!Subscribers(subs', d) \subseteq L!Subscribers(subs, d)
    BY <1>0, <2>2 DEF L!Subscribers
  <2> QED BY <1>2, <2>1, <2>3
<1> QED BY <1>4, <1>5, <1>6, <1>7, <1>8, <1>9, <1>10, <1>11, <1>12, <1>13, LogSteps


\* What nobody watches is not streamed.
LEMMA RestingKept ==
  ASSUME L!TypeOK, Registered, Subscribed, Resting, [L!LogNext]_L!logVars
  PROVE  Resting'
<1>0. /\ attached \in {"up", "down"} /\ asked \in Seq(Command)
      /\ \A c \in Containers \ unstopped :
           L!Subscribers(subs, c) = {} => ~Latest("start", c) /\ (Silent(c) => ~L!Streamed(c))
      /\ "none" \notin Containers /\ subs \in [Sockets -> Containers \cup {"none"}]
  BY LogTypes, ConnectionAssumption DEF L!LogAssumption, Resting
<1>1. ASSUME \A d \in Containers \ unstopped' :
               L!Subscribers(subs', d) = {} => ~Latest("start", d)' /\ (Silent(d)' => ~L!Streamed(d)')
      PROVE  Resting'
  BY <1>1 DEF Resting, L!Subscribers
<1>2. ASSUME UNCHANGED <<asked, subs, unstopped>>,
             \A d \in Containers : L!Streamed(d)' => L!Streamed(d)
      PROVE  Resting'
  BY <1>0, <1>1, <1>2, Still
<1>3. CASE LogQuiet
  BY <1>2, <1>3, QuietDoes, StreamsSame
<1>4. ASSUME NEW c \in Containers, L!HandleLogStreamStart(c)
      PROVE  Resting'
  <2>1. /\ asked # <<>> /\ Head(asked) = [op |-> "start", container |-> c] /\ asked' = Tail(asked)
        /\ UNCHANGED <<subs, unstopped>>
    BY <1>4, StartDoes
  <2>2. /\ \A d : d # c => (Silent(d)' <=> Silent(d))
        /\ \A x, d : Latest(x, d)' => Latest(x, d)
        /\ Silent(c)' => Latest("start", c)
    BY <1>0, <2>1, AskedLess
  <2>3. \A d \in Containers \ {c} : L!Streamed(d)' <=> L!Streamed(d)
    BY <1>4, OthersStreamed
  <2> QED BY <1>0, <1>1, <2>1, <2>2, <2>3
<1>5. ASSUME NEW c \in Containers, L!HandleLogStreamStop(c)
      PROVE  Resting'
  <2>1. /\ asked # <<>> /\ Head(asked) = [op |-> "stop", container |-> c] /\ asked' = Tail(asked)
        /\ UNCHANGED <<subs, unstopped>>
    BY <1>5, StopDoes
  <2>2. /\ \A d : d # c => (Silent(d)' <=> Silent(d))
        /\ \A x, d : Latest(x, d)' => Latest(x, d)
    BY <1>0, <2>1, AskedLess
  <2>3. ~L!Streamed(c)' /\ \A d \in Containers \ {c} : L!Streamed(d)' <=> L!Streamed(d)
    BY <1>5, OthersStreamed
  <2> QED BY <1>0, <1>1, <2>1, <2>2, <2>3
<1>6. ASSUME NEW f \in Forwarders, L!Forward(f)
      PROVE  Resting'
  BY <1>2, <1>6, ForwardDoes, ForwardStreams
<1>7. ASSUME NEW f \in Forwarders, L!EndOfLog(f) \/ L!DockerError(f) \/ L!Quit(f)
      PROVE  Resting'
  BY <1>2, <1>7, EndDoes, EndStreams
<1>8. CASE L!Drop
  <2>1. asked' = <<>> /\ UNCHANGED <<subs, forwarders>> /\ unstopped \subseteq unstopped'
    BY <1>8 DEF L!Drop, L!viewVars, L!agentVars
  <2>2. \A d \in Containers \ unstopped' : Silent(d) \/ Latest("start", d)
    BY <1>8, LostDoes
  <2>3. \A d : ~Latest("start", d)'
    BY <2>1 DEF Latest
  <2> QED BY <1>0, <1>1, <2>1, <2>2, <2>3, StreamsSame
<1>9. CASE L!Hibernate
  BY <1>2, <1>9, StreamsSame DEF L!Hibernate, L!agentVars
<1>10. ASSUME NEW s \in Sockets, NEW c \in Containers, L!HandleLogSubscribe(s, c)
      PROVE  Resting'
  <2>1. /\ UNCHANGED <<attached, forwarders>> /\ unstopped' = unstopped \ {c}
        /\ L!Send("start", c) \/ UNCHANGED asked
    BY <1>10, SubscribeDoes
  <2>2. /\ \A d \in Containers \ {c} : L!Subscribers(subs', d) = L!Subscribers(subs, d)
        /\ s \in L!Subscribers(subs', c)
    BY <1>10, Joins
  <2>3. \A d : d # c => (Latest("start", d)' <=> Latest("start", d)) /\ (Silent(d)' <=> Silent(d))
    <3>1. CASE UNCHANGED asked
      BY <3>1, Still
    <3>2. CASE L!Send("start", c) /\ attached = "up"
      <4>1. /\ \A x, d : Latest(x, d)' <=> IF d = c THEN x = "start" ELSE Latest(x, d)
            /\ \A d : Silent(d)' <=> d # c /\ Silent(d)
        BY <3>2, SendDoes
      <4> QED BY <4>1
    <3>3. CASE L!Send("start", c) /\ attached = "down"
      BY <3>1, <3>3, SendDoes
    <3> QED BY <1>0, <2>1, <3>1, <3>2, <3>3
  <2> QED BY <1>0, <1>1, <2>1, <2>2, <2>3, StreamsSame
<1>11. ASSUME NEW s \in Sockets, L!HandleLogUnsubscribe(s) \/ L!HandleUIClose(s)
      PROVE  Resting'
  <2>1. /\ subs' = [subs EXCEPT ![s] = "none"] /\ UNCHANGED <<attached, forwarders>>
        /\ \/ \E c \in Containers :
                /\ subs[s] = c /\ L!Send("stop", c)
                /\ unstopped' = IF attached = "down" THEN unstopped \cup {c} ELSE unstopped
           \/ /\ subs[s] = "none" \/ L!Subscribers(subs', subs[s]) # {}
              /\ UNCHANGED <<asked, unstopped>>
    BY <1>11, UnsubscribeDoes
  <2>2. \A d \in Containers : d # subs[s] => L!Subscribers(subs', d) = L!Subscribers(subs, d)
    BY <1>0, <2>1 DEF L!Subscribers
  <2>3. CASE /\ subs[s] = "none" \/ L!Subscribers(subs', subs[s]) # {}
             /\ UNCHANGED <<asked, unstopped>>
    BY <1>0, <1>1, <2>1, <2>2, <2>3, Still, StreamsSame
  <2>4. ASSUME NEW c \in Containers, subs[s] = c, L!Send("stop", c),
               unstopped' = IF attached = "down" THEN unstopped \cup {c} ELSE unstopped
        PROVE  Resting'
    <3>1. CASE attached = "up"
      <4>1. /\ \A x, d : Latest(x, d)' <=> IF d = c THEN x = "stop" ELSE Latest(x, d)
            /\ \A d : Silent(d)' <=> d # c /\ Silent(d)
        BY <2>4, <3>1, SendDoes
      <4>2. \A d : (Latest("start", d)' => d # c /\ Latest("start", d)) /\ (Silent(d)' => d # c /\ Silent(d))
        BY <4>1
      <4>3. \A d \in Containers \ {c} : L!Subscribers(subs', d) = L!Subscribers(subs, d)
        BY <2>2, <2>4
      <4> QED BY <1>0, <1>1, <2>1, <2>4, <3>1, <4>2, <4>3, StreamsSame
    <3>2. CASE attached = "down"
      <4>1. UNCHANGED asked /\ unstopped' = unstopped \cup {c}
        BY <2>4, <3>2, SendDoes
      <4> QED BY <1>0, <1>1, <2>1, <2>2, <2>4, <4>1, Still, StreamsSame
    <3> QED BY <1>0, <3>1, <3>2
  <2> QED BY <2>1, <2>3, <2>4
<1>12. CASE L!HandleAgentMessage
  <2>1. /\ UNCHANGED <<asked, forwarders>>
        /\ \E c \in Containers : \E dead \in SUBSET {s \in Sockets : subs[s] = c /\ sockets[s] = "closing"} :
             /\ subs' = [s \in Sockets |-> IF s \in dead THEN "none" ELSE subs[s]]
             /\ unstopped' = IF dead # {} /\ L!Subscribers(subs', c) = {} THEN unstopped \cup {c} ELSE unstopped
    BY <1>12, MessageDoes
  <2>2. PICK c \in Containers, dead \in SUBSET Sockets :
          /\ \A s \in dead : subs[s] = c
          /\ subs' = [s \in Sockets |-> IF s \in dead THEN "none" ELSE subs[s]]
          /\ unstopped' = IF dead # {} /\ L!Subscribers(subs', c) = {} THEN unstopped \cup {c} ELSE unstopped
    BY <2>1
  <2>3. \A d \in Containers \ {c} : L!Subscribers(subs', d) = L!Subscribers(subs, d)
    BY <1>0, <2>2 DEF L!Subscribers
  <2>4. CASE dead = {}
    <3>1. L!Subscribers(subs', c) = L!Subscribers(subs, c) /\ UNCHANGED unstopped
      BY <1>0, <2>2, <2>4 DEF L!Subscribers
    <3> QED BY <1>0, <1>1, <2>1, <2>3, <3>1, Still, StreamsSame
  <2>5. CASE dead # {}
    BY <1>0, <1>1, <2>1, <2>2, <2>3, <2>5, Still, StreamsSame
  <2> QED BY <2>4, <2>5
<1> QED BY <1>3, <1>4, <1>5, <1>6, <1>7, <1>8, <1>9, <1>10, <1>11, <1>12, LogSteps

\* What is kept and what is shown stay alike.
LEMMA LogsAgreeKept ==
  ASSUME L!TypeOK, Subscribed, LogsAgree, [L!LogNext]_L!logVars
  PROVE  LogsAgree'
<1>0. /\ sockets \in [Sockets -> L!SocketStates] /\ subs \in [Sockets -> Containers \cup {"none"}]
      /\ buffers \in [Containers -> {lines \in L!Lines : Len(lines) <= Keep}]
      /\ shown \in [Sockets -> L!Lines] /\ L!Lines = Seq(1 .. MaxLine)
      /\ \A s \in Sockets : sockets[s] = "on" =>
           subs[s] \in Containers /\ SameEnds(buffers[subs[s]], shown[s])
  BY LogTypes DEF Subscribed, LogsAgree, L!Lines
<1>1. ASSUME NEW bs, bs = buffers', NEW ss, ss = shown', NEW us, us = subs',
             \A s \in Sockets : sockets'[s] = "on" => SameEnds(bs[us[s]], ss[s])
      PROVE  LogsAgree'
  BY <1>1 DEF LogsAgree, SameEnds
<1>2. ASSUME UNCHANGED <<subs, buffers, shown>>,
             \A s \in Sockets : sockets'[s] = "on" => sockets[s] = "on"
      PROVE  LogsAgree'
  BY <1>0, <1>1, <1>2
<1>3. CASE LogQuiet
  BY <1>2, <1>3, QuietDoes
<1>4. ASSUME NEW c \in Containers, L!HandleLogStreamStart(c)
      PROVE  LogsAgree'
  BY <1>2, <1>4, StartDoes
<1>5. ASSUME NEW c \in Containers, L!HandleLogStreamStop(c)
      PROVE  LogsAgree'
  BY <1>2, <1>5, StopDoes
<1>6. ASSUME NEW f \in Forwarders, L!Forward(f)
      PROVE  LogsAgree'
  BY <1>2, <1>6, ForwardDoes
<1>7. ASSUME NEW f \in Forwarders, L!EndOfLog(f) \/ L!DockerError(f) \/ L!Quit(f)
      PROVE  LogsAgree'
  BY <1>2, <1>7, EndDoes
<1>8. CASE L!Drop
  BY <1>2, <1>8 DEF L!Drop, L!viewVars
<1>9. CASE L!Hibernate
  <2>1. /\ buffers' = [c \in Containers |-> <<>>] /\ UNCHANGED <<sockets, subs, shown>>
    BY <1>9 DEF L!Hibernate
  <2>2. PICK bs : bs = [c \in Containers |-> <<>>]
    OBVIOUS
  <2>3. \A s \in Sockets : sockets'[s] = "on" => SameEnds(bs[subs[s]], shown[s])
    <3>1. ASSUME NEW s \in Sockets, sockets'[s] = "on"
          PROVE  bs[subs[s]] = <<>> /\ shown[s] \in Seq(1 .. MaxLine)
      BY <1>0, <2>1, <2>2, <3>1
    <3> QED BY <3>1, EndsEmpty
  <2> QED BY <1>1, <2>1, <2>2, <2>3
<1>10. ASSUME NEW s \in Sockets, NEW c \in Containers, L!HandleLogSubscribe(s, c)
      PROVE  LogsAgree'
  <2>1. /\ sockets' = [sockets EXCEPT ![s] = "on"] /\ subs' = [subs EXCEPT ![s] = c]
        /\ shown' = [shown EXCEPT ![s] = buffers[c]] /\ UNCHANGED buffers
    BY <1>10, SubscribeDoes
  <2>2. PICK ss, us : ss = [shown EXCEPT ![s] = buffers[c]] /\ us = [subs EXCEPT ![s] = c]
    OBVIOUS
  <2>3. ASSUME NEW t \in Sockets, sockets'[t] = "on"
        PROVE  SameEnds(buffers[us[t]], ss[t])
    <3>1. CASE t = s
      <4>1. us[t] = c /\ ss[t] = buffers[c]
        BY <1>0, <2>2, <3>1
      <4> QED BY <4>1 DEF SameEnds
    <3>2. CASE t # s
      <4>1. us[t] = subs[t] /\ ss[t] = shown[t] /\ sockets[t] = "on"
        BY <1>0, <2>1, <2>2, <2>3, <3>2
      <4> QED BY <1>0, <4>1
    <3> QED BY <3>1, <3>2
  <2> QED BY <1>1, <2>1, <2>2, <2>3
<1>11. ASSUME NEW s \in Sockets, L!HandleLogUnsubscribe(s) \/ L!HandleUIClose(s)
      PROVE  LogsAgree'
  <2>1. /\ \/ sockets' = [sockets EXCEPT ![s] = "closing"]
           \/ sockets' = [sockets EXCEPT ![s] = "closed"]
        /\ subs' = [subs EXCEPT ![s] = "none"] /\ UNCHANGED <<buffers, shown>>
    BY <1>11, UnsubscribeDoes
  <2>2. PICK us : us = [subs EXCEPT ![s] = "none"]
    OBVIOUS
  <2>3. ASSUME NEW t \in Sockets, sockets'[t] = "on"
        PROVE  SameEnds(buffers[us[t]], shown[t])
    <3>1. us[t] = subs[t] /\ sockets[t] = "on"
      BY <1>0, <2>1, <2>2, <2>3
    <3> QED BY <1>0, <3>1
  <2> QED BY <1>1, <2>1, <2>2, <2>3
<1>12. CASE L!HandleAgentMessage
  <2>1. /\ UNCHANGED sockets
        /\ \E c \in Containers :
             /\ \E dead \in SUBSET {s \in Sockets : subs[s] = c /\ sockets[s] = "closing"} :
                  subs' = [s \in Sockets |-> IF s \in dead THEN "none" ELSE subs[s]]
             /\ \/ UNCHANGED <<buffers, shown>>
                \/ \E line \in 1 .. MaxLine :
                     /\ buffers' = [buffers EXCEPT ![c] = L!Newest(Append(buffers[c], line))]
                     /\ shown' = [s \in Sockets |-> IF subs[s] = c /\ sockets[s] = "on"
                                                    THEN Append(shown[s], line) ELSE shown[s]]
    BY <1>12, MessageDoes
  <2>2. PICK c \in Containers, dead \in SUBSET {s \in Sockets : sockets[s] = "closing"} :
          /\ subs' = [s \in Sockets |-> IF s \in dead THEN "none" ELSE subs[s]]
          /\ \/ UNCHANGED <<buffers, shown>>
             \/ \E line \in 1 .. MaxLine :
                  /\ buffers' = [buffers EXCEPT ![c] = L!Newest(Append(buffers[c], line))]
                  /\ shown' = [s \in Sockets |-> IF subs[s] = c /\ sockets[s] = "on"
                                                 THEN Append(shown[s], line) ELSE shown[s]]
    BY <2>1
  <2>3. PICK us : us = [s \in Sockets |-> IF s \in dead THEN "none" ELSE subs[s]]
    OBVIOUS
  <2>4. \A t \in Sockets : sockets'[t] = "on" => us[t] = subs[t] /\ sockets[t] = "on"
    BY <2>1, <2>2, <2>3
  <2>5. CASE UNCHANGED <<buffers, shown>>
    <3>1. buffers = buffers' /\ shown = shown' /\ us = subs'
      BY <2>2, <2>3, <2>5
    <3>2. \A t \in Sockets : sockets'[t] = "on" => SameEnds(buffers[us[t]], shown[t])
      BY <1>0, <2>4
    <3> QED BY <1>1, <3>1, <3>2
  <2>6. ASSUME NEW line \in 1 .. MaxLine,
               buffers' = [buffers EXCEPT ![c] = L!Newest(Append(buffers[c], line))],
               shown' = [s \in Sockets |-> IF subs[s] = c /\ sockets[s] = "on"
                                           THEN Append(shown[s], line) ELSE shown[s]]
        PROVE  LogsAgree'
    <3>1. PICK bs, ss : bs = [buffers EXCEPT ![c] = L!Newest(Append(buffers[c], line))]
                        /\ ss = [s \in Sockets |-> IF subs[s] = c /\ sockets[s] = "on"
                                                   THEN Append(shown[s], line) ELSE shown[s]]
      OBVIOUS
    <3>2. Append(buffers[c], line) \in L!Lines /\ Keep \in Nat \ {0}
      BY <1>0, ConnectionAssumption DEF L!LogAssumption
    <3>3. ASSUME NEW t \in Sockets, sockets[t] = "on"
          PROVE  SameEnds(bs[subs[t]], ss[t])
      <4>1. CASE subs[t] = c
        <5>1. bs[subs[t]] = L!Newest(Append(buffers[c], line)) /\ ss[t] = Append(shown[t], line)
          BY <1>0, <3>1, <3>3, <4>1
        <5>2. /\ buffers[c] \in Seq(1 .. MaxLine) /\ shown[t] \in Seq(1 .. MaxLine)
              /\ SameEnds(buffers[c], shown[t]) /\ Append(shown[t], line) \in Seq(1 .. MaxLine)
              /\ Append(buffers[c], line) \in Seq(1 .. MaxLine)
          BY <1>0, <3>3, <4>1
        <5>3. SameEnds(Append(buffers[c], line), Append(shown[t], line))
          BY <5>2, EndsAppend
        <5>4. CASE Len(Append(buffers[c], line)) > Keep
          <6>1. L!Newest(Append(buffers[c], line))
                  = SubSeq(Append(buffers[c], line), Len(Append(buffers[c], line)) - Keep + 1,
                           Len(Append(buffers[c], line)))
            BY <5>4 DEF L!Newest, L!Ending
          <6>2. Keep \in Nat /\ Keep < Len(Append(buffers[c], line))
            BY <3>2, <5>2, <5>4, LenProperties
          <6>3. SameEnds(SubSeq(Append(buffers[c], line), Len(Append(buffers[c], line)) - Keep + 1,
                                Len(Append(buffers[c], line))), Append(shown[t], line))
            BY <5>2, <5>3, <6>2, EndsNewest
          <6> QED BY <5>1, <6>1, <6>3
        <5>5. CASE ~(Len(Append(buffers[c], line)) > Keep)
          <6>1. L!Newest(Append(buffers[c], line)) = Append(buffers[c], line)
            BY <5>5 DEF L!Newest
          <6> QED BY <5>1, <5>3, <6>1
        <5> QED BY <5>4, <5>5
      <4>2. CASE subs[t] # c
        <5>1. bs[subs[t]] = buffers[subs[t]] /\ ss[t] = shown[t]
          BY <1>0, <3>1, <3>3, <4>2
        <5> QED BY <1>0, <3>3, <5>1
      <4> QED BY <4>1, <4>2
    <3>4. bs = buffers' /\ ss = shown' /\ us = subs'
      BY <2>2, <2>3, <2>6, <3>1
    <3>5. \A t \in Sockets : sockets'[t] = "on" => SameEnds(bs[us[t]], ss[t])
      BY <2>4, <3>3
    <3> QED BY <1>1, <3>4, <3>5
  <2> QED BY <2>2, <2>5, <2>6
<1> QED BY <1>3, <1>4, <1>5, <1>6, <1>7, <1>8, <1>9, <1>10, <1>11, <1>12, LogSteps

\* Nothing is watched at first, nor streamed, nor asked.
LEMMA LogsStart == L!LogInit => StreamsInv
<1> SUFFICES ASSUME L!LogInit
             PROVE  StreamsInv
  OBVIOUS
<1>1. /\ Keep \in Nat \ {0} /\ MaxLine \in Nat /\ Drops \in Nat /\ "none" \notin Containers \cup Forwarders
  BY ConnectionAssumption DEF L!LogAssumption
<1>2. /\ asked = <<>> /\ attached = "up" /\ told = <<>> /\ drops = 0 /\ unserved = {} /\ unstopped = {}
      /\ written = [c \in Containers |-> 0] /\ streams = [c \in Containers |-> "none"]
      /\ forwarders = [f \in Forwarders |-> L!Ended] /\ sockets = [s \in Sockets |-> "unused"]
      /\ subs = [s \in Sockets |-> "none"] /\ buffers = [c \in Containers |-> <<>>]
      /\ shown = [s \in Sockets |-> <<>>]
  BY DEF L!LogInit
<1>3. L!TypeOK
  <2>1. <<>> \in L!Lines /\ Len(<<>>) <= Keep
    BY <1>1, EmptySeq DEF L!Lines
  <2>2. asked \in Seq(Command) /\ told \in Seq(L!ToManager)
    BY <1>2
  <2>3. /\ buffers \in [Containers -> {lines \in L!Lines : Len(lines) <= Keep}]
        /\ shown \in [Sockets -> L!Lines]
    BY <1>2, <2>1
  <2>4. /\ sockets \in [Sockets -> L!SocketStates] /\ subs \in [Sockets -> Containers \cup {"none"}]
        /\ written \in [Containers -> 0 .. MaxLine] /\ drops \in 0 .. Drops
    BY <1>1, <1>2 DEF L!SocketStates
  <2> QED BY <1>2, <2>2, <2>3, <2>4, LogTypes
<1>4. \A f \in Forwarders : ~L!Running(f)
  BY <1>2 DEF L!Running
<1>5. Registered
  BY <1>2, <1>4 DEF Registered, L!Cancellable
<1>6. \A c \in Containers : L!Subscribers(subs, c) = {} /\ ~L!Streamed(c)
  BY <1>1, <1>2, <1>4 DEF L!Subscribers, L!Streamed
<1>7. Subscribed /\ Serving /\ Resting
  BY <1>2, <1>6, NothingAsked DEF Subscribed, Serving, Resting
<1>8. LogsAgree
  BY <1>2 DEF LogsAgree
<1> QED BY <1>3, <1>5, <1>7, <1>8 DEF StreamsInv, LogsInv

LEMMA LogsKept ==
  ASSUME LogsInv, [L!LogNext]_L!logVars
  PROVE  LogsInv'
BY LogTyped, SubscribedKept, LogsAgreeKept DEF LogsInv

LEMMA StreamsInvKept ==
  ASSUME Prompt, StreamsInv, [L!LogNext]_L!logVars
  PROVE  StreamsInv'
BY LogsKept, RegisteredKept, ServingKept, RestingKept DEF StreamsInv, LogsInv

LEMMA LogsSay ==
  /\ LogsInv => L!TypeOK /\ L!ViewsAgree
  /\ StreamsInv => L!Served /\ L!Wanted /\ L!Cancellable
<1>1. ASSUME LogsInv
      PROVE  L!ViewsAgree
  <2>0. /\ subs \in [Sockets -> Containers \cup {"none"}] /\ shown \in [Sockets -> L!Lines]
        /\ buffers \in [Containers -> {lines \in L!Lines : Len(lines) <= Keep}]
        /\ L!Lines = Seq(1 .. MaxLine)
        /\ \A s \in Sockets : sockets[s] = "on" =>
             subs[s] \in Containers /\ SameEnds(buffers[subs[s]], shown[s])
    BY <1>1, LogTypes DEF LogsInv, Subscribed, LogsAgree, L!Lines
  <2>1. ASSUME NEW s \in Sockets, sockets[s] = "on", NEW n,
               n = IF Len(buffers[subs[s]]) < Len(shown[s]) THEN Len(buffers[subs[s]]) ELSE Len(shown[s])
        PROVE  L!Ending(buffers[subs[s]], n) = L!Ending(shown[s], n)
    <3>1. /\ buffers[subs[s]] \in Seq(1 .. MaxLine) /\ shown[s] \in Seq(1 .. MaxLine)
          /\ SameEnds(buffers[subs[s]], shown[s])
      BY <2>0, <2>1
    <3>2. n \in Nat /\ n <= Len(buffers[subs[s]]) /\ n <= Len(shown[s])
      BY <2>1, <3>1, LenProperties
    <3>3. SubSeq(buffers[subs[s]], Len(buffers[subs[s]]) - n + 1, Len(buffers[subs[s]]))
            = SubSeq(shown[s], Len(shown[s]) - n + 1, Len(shown[s]))
      BY <3>1, <3>2, EndsSay
    <3> QED BY <3>3 DEF L!Ending
  <2> QED BY <2>1 DEF L!ViewsAgree
<1>2. ASSUME StreamsInv
      PROVE  L!Served /\ L!Wanted /\ L!Cancellable
  BY <1>2, NothingAsked DEF StreamsInv, LogsInv, Registered, Serving, Resting, L!Served, L!Wanted
<1> QED BY <1>1, <1>2 DEF LogsInv

-----------------------------------------------------------------------------
(* AgentLog: what is sent is what is watched, in order, and seen alike     *)

\* The lines are later than the last, in order, and none later than top.
InOrder(last, lines, top) ==
  /\ \A m \in 1 .. Len(lines) : last < lines[m] /\ lines[m] <= top
  /\ \A m, n \in 1 .. Len(lines) : m < n => lines[m] < lines[n]

\* What stands open, and what is to be sent.
Sent ==
  /\ ~open => sent = 0 /\ channel = <<>> /\ ~forwarding
  /\ reading => ~open
  /\ ~reading => history = <<>>
  /\ sent <= logged /\ InOrder(sent, history, logged) /\ InOrder(sent, channel, logged)

\* What was left over is old: the history holds it, or what is newer.
Left ==
  \A lines \in leftover : \A m \in 1 .. Len(lines) :
    /\ lines[m] <= logged
    /\ reading => history # <<>> /\ lines[m] <= history[Len(history)]
    /\ open => lines[m] <= sent

\* A side that has noticed that the connection broke has given up what depends on it.
Settled ==
  /\ connection = "up" => noticed = {} /\ (open => forwarding)
  /\ connection # "up" => asked = <<>>
  /\ connection = "down" \/ "agent" \in noticed => ~open /\ ~reading
  /\ (connection = "down" \/ "manager" \in noticed) /\ ~stale => ~streaming

\* The flag is what the agent will do when it has read all it has been asked.
Believed ==
  connection = "up" /\ ~stale =>
    /\ asked # <<>> => (streaming <=> asked[Len(asked)] = "subscribe")
    /\ asked = <<>> /\ reading => streaming
    /\ asked = <<>> /\ ~reading => (streaming <=> A!Sending)
    /\ A!Viewers # {} => streaming

\* What is kept and what is shown have the same ends.
AgentLogAgrees == \A s \in A!Viewers : SameEnds(buffer, shown[s])

AgentLogInv == A!TypeOK /\ Sent /\ Left /\ Settled /\ Believed /\ AgentLogAgrees

AgCommand == {"subscribe", "unsubscribe"}

LEMMA AgentLogTypes ==
  /\ A!TypeOK =>
       /\ logged \in 0 .. MaxLine /\ connection \in {"up", "broken", "down"}
       /\ noticed \subseteq {"agent", "manager"}
       /\ asked \in Seq(AgCommand) /\ told \in Seq(A!ToManager)
       /\ history \in Seq(1 .. MaxLine) /\ Len(history) <= AgentKeep
       /\ channel \in Seq(1 .. MaxLine) /\ Len(channel) <= Channel
       /\ leftover \subseteq Seq(1 .. MaxLine) \ {<<>>}
       /\ reading \in BOOLEAN /\ open \in BOOLEAN /\ forwarding \in BOOLEAN /\ streaming \in BOOLEAN
       /\ stale \in BOOLEAN /\ sent \in 0 .. MaxLine
       /\ sockets \in [Sockets -> A!SocketStates] /\ viewers \subseteq Sockets
       /\ buffer \in Seq(1 .. MaxLine) /\ Len(buffer) <= AgentKeep
       /\ shown \in [Sockets -> Seq(1 .. MaxLine)] /\ breaks \in 0 .. Breaks
  /\ MaxLine \in Nat /\ AgentKeep \in Nat \ {0} /\ Channel \in Nat \ {0} /\ Breaks \in Nat
BY ConnectionAssumption DEF A!TypeOK, A!Lines, A!AtMost, AgCommand, A!AgentLogAssumption

\* The steps of the agent on its log.
AgentLogWork ==
  A!AddLine \/ A!ReadHistory \/ A!Subscribe \/ A!HandleAgentLogsUnsubscribe \/ A!Forward \/ A!Drain
  \/ A!CleanupOnDisconnect

\* The steps of the browsers.
BrowserStep ==
  \E s \in Sockets : \/ A!Open(s) \/ A!Leave(s) \/ A!Vanish(s)
                     \/ A!HandleAgentLogUnsubscribe(s) \/ A!HandleUIClose(s)

LEMMA AgentLogSteps ==
  ASSUME [A!AgentLogNext]_A!agentLogVars
  PROVE  \/ AgentLogWork \/ A!Break \/ A!HandleAgentClose \/ A!HandleAgentAuth \/ A!Hibernate \/ A!Restart
         \/ BrowserStep \/ (\E s \in Sockets : A!HandleAgentLogSubscribe(s)) \/ A!HandleAgentMessage
         \/ UNCHANGED A!agentLogVars
BY DEF A!AgentLogNext, AgentLogWork, BrowserStep

LEMMA AgentLogStill ==
  ASSUME [A!AgentLogNext]_A!agentLogVars, ~AgentLogWork
  PROVE  UNCHANGED <<logged, reading, history, open, channel, forwarding, leftover, sent>>
BY DEF A!AgentLogNext, AgentLogWork, A!agentVars, A!agentLogVars, A!Break, A!HandleAgentClose,
       A!HandleAgentAuth, A!Hibernate, A!Restart, A!Rest, A!Open, A!Leave, A!Vanish,
       A!HandleAgentLogSubscribe, A!HandleAgentLogUnsubscribe, A!HandleUIClose, A!HandleAgentMessage

LEMMA AgentLogWorks ==
  ASSUME AgentLogWork
  PROVE  /\ UNCHANGED <<streaming, sockets, viewers, buffer, shown, stale, breaks>>
         /\ ~A!CleanupOnDisconnect => UNCHANGED <<connection, noticed>>
BY DEF AgentLogWork, A!AddLine, A!ReadHistory, A!Subscribe, A!HandleAgentLogsUnsubscribe, A!Forward,
       A!Drain, A!CleanupOnDisconnect, A!doVars

\* A side notices.
LEMMA SettleDoes ==
  ASSUME NEW side \in {"agent", "manager"}, A!Settle(side)
  PROVE  /\ connection = "broken" /\ noticed' = noticed \cup {side} /\ connection' \in {"broken", "down"}
         /\ connection' = "down" => noticed' = {"agent", "manager"}
BY DEF A!Settle

LEMMA BrowserDoes ==
  ASSUME A!TypeOK, BrowserStep
  PROVE  /\ UNCHANGED <<connection, noticed, told, breaks, buffer, shown>>
         /\ sockets' \in [Sockets -> A!SocketStates] /\ viewers' \subseteq Sockets /\ A!Viewers' \subseteq A!Viewers
         /\ \/ UNCHANGED <<asked, streaming, stale>>
            \/ A!Send("unsubscribe") /\ streaming' = FALSE /\ stale' = FALSE /\ A!Viewers' = {}
<1>0. sockets \in [Sockets -> A!SocketStates] /\ viewers \subseteq Sockets
  BY AgentLogTypes
<1>1. PICK s \in Sockets : \/ A!Open(s) \/ A!Leave(s) \/ A!Vanish(s)
                           \/ A!HandleAgentLogUnsubscribe(s) \/ A!HandleUIClose(s)
  BY DEF BrowserStep
<1>2. ASSUME NEW from, NEW to \in A!SocketStates \ {"on"}, A!Move(s, from, to)
      PROVE  /\ sockets' \in [Sockets -> A!SocketStates]
             /\ \A t \in Sockets : sockets'[t] = "on" => sockets[t] = "on"
  BY <1>0, <1>2 DEF A!Move
<1>3. {"new", "leaving", "closing", "closed"} \subseteq A!SocketStates \ {"on"}
  BY DEF A!SocketStates
<1>4. /\ sockets' \in [Sockets -> A!SocketStates]
      /\ \A t \in Sockets : sockets'[t] = "on" => sockets[t] = "on"
  BY <1>1, <1>2, <1>3 DEF A!Open, A!Leave, A!Vanish, A!HandleAgentLogUnsubscribe, A!HandleUIClose
<1>5. CASE A!Open(s) \/ A!Leave(s) \/ A!Vanish(s)
  BY <1>0, <1>4, <1>5 DEF A!Open, A!Leave, A!Vanish, A!Rest, A!Viewers
<1>6. CASE A!HandleAgentLogUnsubscribe(s) \/ A!HandleUIClose(s)
  <2>1. A!Unsubscribe(s) /\ UNCHANGED <<connection, noticed, told, breaks, buffer, shown>>
    BY <1>6 DEF A!HandleAgentLogUnsubscribe, A!HandleUIClose, A!Rest
  <2>2. /\ viewers' = viewers \ {s}
        /\ \/ viewers' = {} /\ A!Send("unsubscribe") /\ streaming' = FALSE /\ stale' = FALSE
           \/ UNCHANGED <<asked, streaming, stale>>
    BY <2>1 DEF A!Unsubscribe
  <2>3. A!Viewers' \subseteq A!Viewers /\ (viewers' = {} => A!Viewers' = {})
    BY <1>0, <1>4, <2>2 DEF A!Viewers
  <2> QED BY <1>0, <1>4, <2>1, <2>2, <2>3
<1> QED BY <1>1, <1>5, <1>6

\* Who begins to watch is shown what is kept, and asks the agent.
LEMMA WatchDoes ==
  ASSUME A!TypeOK, NEW s \in Sockets, A!HandleAgentLogSubscribe(s)
  PROVE  /\ UNCHANGED <<connection, noticed, told, breaks, buffer>>
         /\ sockets' \in [Sockets -> A!SocketStates] /\ viewers' \subseteq Sockets
         /\ A!Viewers' \subseteq A!Viewers \cup {s}
         /\ shown' = [shown EXCEPT ![s] = buffer] /\ A!Send("subscribe")
         /\ IF connection = "down" \/ "manager" \in noticed THEN UNCHANGED <<streaming, stale>>
            ELSE streaming' = TRUE /\ stale' = FALSE
<1>0. sockets \in [Sockets -> A!SocketStates] /\ viewers \subseteq Sockets
  BY AgentLogTypes
<1>1. sockets' = [sockets EXCEPT ![s] = "on"] /\ viewers' = viewers \cup {s}
  BY DEF A!HandleAgentLogSubscribe, A!Move
<1>2. sockets' \in [Sockets -> A!SocketStates] /\ viewers' \subseteq Sockets /\ A!Viewers' \subseteq A!Viewers \cup {s}
  BY <1>0, <1>1 DEF A!SocketStates, A!Viewers
<1> QED BY <1>2 DEF A!HandleAgentLogSubscribe, A!Rest

\* A message is handled: a line is added to what is kept and shown, a history takes its place.
LEMMA ArrivalDoes ==
  ASSUME A!TypeOK, A!HandleAgentMessage
  PROVE  /\ UNCHANGED <<connection, noticed, asked, sockets, streaming, breaks, stale>>
         /\ told' \in Seq(A!ToManager) /\ viewers' \subseteq viewers
         /\ \/ \E line \in 1 .. MaxLine :
                 /\ buffer' = A!Newest(Append(buffer, line))
                 /\ shown' = [s \in Sockets |-> IF s \in A!Viewers THEN Append(shown[s], line) ELSE shown[s]]
            \/ \E lines \in Seq(1 .. MaxLine) :
                 /\ buffer' = A!Newest(buffer \o lines)
                 /\ shown' = [s \in Sockets |-> IF s \in A!Viewers THEN lines ELSE shown[s]]
<1> DEFINE message == Head(told)
<1>1. told' \in Seq(A!ToManager) /\ message \in A!ToManager
  <2>1. told \in Seq(A!ToManager) /\ told # <<>> /\ told' = Tail(told)
    BY AgentLogTypes DEF A!HandleAgentMessage
  <2> QED BY <2>1, HeadTailProperties
<1>2. /\ message.op = "line" => message.line \in 1 .. MaxLine
      /\ message.op = "history" => message.lines \in Seq(1 .. MaxLine)
  BY <1>1 DEF A!ToManager, A!Lines
<1>3. /\ UNCHANGED <<connection, noticed, asked, sockets, streaming, breaks, stale>>
      /\ viewers' \subseteq viewers
  BY DEF A!HandleAgentMessage, A!Broadcast
<1>4. \/ message.op = "line" /\ A!HandleAgentLogLine(message)
      \/ message.op = "history" /\ A!HandleAgentLogHistory(message)
  BY DEF A!HandleAgentMessage
<1> HIDE DEF message
<1>5. \/ \E line \in 1 .. MaxLine :
           /\ buffer' = A!Newest(Append(buffer, line))
           /\ shown' = [s \in Sockets |-> IF s \in A!Viewers THEN Append(shown[s], line) ELSE shown[s]]
      \/ \E lines \in Seq(1 .. MaxLine) :
           /\ buffer' = A!Newest(buffer \o lines)
           /\ shown' = [s \in Sockets |-> IF s \in A!Viewers THEN lines ELSE shown[s]]
  BY <1>2, <1>4 DEF A!HandleAgentLogLine, A!HandleAgentLogHistory
<1> QED BY <1>1, <1>3, <1>5

LEMMA AgTold ==
  ASSUME asked \in Seq(AgCommand), NEW op \in AgCommand, A!Send(op)
  PROVE  /\ asked' \in Seq(AgCommand)
         /\ connection = "up" => asked' # <<>> /\ asked'[Len(asked')] = op
         /\ connection # "up" => UNCHANGED asked
BY AppendProperties DEF A!Send

LEMMA AgReads ==
  ASSUME asked \in Seq(AgCommand), NEW op, A!Handles(op)
  PROVE  /\ asked' \in Seq(AgCommand) /\ asked # <<>> /\ ~reading /\ "agent" \notin noticed
         /\ asked' = <<>> => asked[Len(asked)] = op
         /\ asked' # <<>> => asked'[Len(asked')] = asked[Len(asked)]
<1>1. asked # <<>> /\ Head(asked) = op /\ asked' = Tail(asked) /\ ~reading /\ "agent" \notin noticed
  BY DEF A!Handles
<1>2. /\ asked' \in Seq(AgCommand) /\ Len(asked) \in Nat \ {0} /\ Len(asked') = Len(asked) - 1
      /\ \A n \in 1 .. Len(asked') : asked'[n] = asked[n + 1]
      /\ asked[1] = op
  BY <1>1, HeadTailProperties, LenProperties, EmptySeq
<1>3. asked' = <<>> => Len(asked) = 1
  BY <1>2, EmptySeq
<1>4. asked' # <<>> => Len(asked') \in 1 .. Len(asked') /\ Len(asked') + 1 = Len(asked)
  BY <1>2, EmptySeq
<1> QED BY <1>1, <1>2, <1>3, <1>4

LEMMA NewestIs ==
  ASSUME NEW S, NEW lines \in Seq(S)
  PROVE  /\ A!Newest(lines) \in Seq(S) /\ Len(A!Newest(lines)) <= AgentKeep
         /\ \A others \in Seq(S) : SameEnds(lines, others) => SameEnds(A!Newest(lines), others)
<1>0. AgentKeep \in Nat \ {0} /\ Len(lines) \in Nat /\ \A i \in 1 .. Len(lines) : lines[i] \in S
  BY AgentLogTypes, LenProperties, ElementOfSeq
<1>1. CASE Len(lines) > AgentKeep
  <2>1. A!Newest(lines) = SubSeq(lines, Len(lines) - AgentKeep + 1, Len(lines))
    BY <1>1 DEF A!Newest
  <2>2. Len(lines) - AgentKeep + 1 \in Int /\ \A i \in Len(lines) - AgentKeep + 1 .. Len(lines) : lines[i] \in S
    BY <1>0, <1>1
  <2>3. /\ A!Newest(lines) \in Seq(S)
        /\ Len(A!Newest(lines)) = IF Len(lines) - AgentKeep + 1 <= Len(lines)
                                  THEN Len(lines) - (Len(lines) - AgentKeep + 1) + 1 ELSE 0
    BY <1>0, <2>1, <2>2, SubSeqProperties
  <2>4. Len(A!Newest(lines)) <= AgentKeep
    BY <1>0, <2>3
  <2>5. \A others \in Seq(S) : SameEnds(lines, others) => SameEnds(A!Newest(lines), others)
    BY <1>0, <1>1, <2>1, EndsNewest
  <2> QED BY <2>3, <2>4, <2>5
<1>2. CASE ~(Len(lines) > AgentKeep)
  <2>1. A!Newest(lines) = lines
    BY <1>2 DEF A!Newest
  <2> QED BY <1>0, <1>2, <2>1
<1> QED BY <1>1, <1>2

\* What is read of the history is in order, and ends with what was logged last.
LEMMA LoggedIs ==
  ASSUME NEW n \in 0 .. MaxLine
  PROVE  /\ A!Logged(n) \in Seq(1 .. MaxLine) /\ Len(A!Logged(n)) <= AgentKeep
         /\ InOrder(0, A!Logged(n), n)
         /\ n > 0 => A!Logged(n) # <<>> /\ A!Logged(n)[Len(A!Logged(n))] = n
<1> DEFINE all == [i \in 1 .. n |-> i]
<1>0. AgentKeep \in Nat \ {0} /\ MaxLine \in Nat
  BY AgentLogTypes
<1>1. all \in Seq(1 .. MaxLine) /\ Len(all) = n /\ \A i \in 1 .. n : all[i] = i
  BY <1>0, IsASeq
<1> HIDE DEF all
<1>2. A!Logged(n) = A!Newest(all)
  BY DEF A!Logged, all
<1>3. A!Newest(all) \in Seq(1 .. MaxLine) /\ Len(A!Newest(all)) <= AgentKeep
  BY <1>1, NewestIs
<1>4. CASE n > AgentKeep
  <2>1. A!Newest(all) = SubSeq(all, n - AgentKeep + 1, n)
    BY <1>1, <1>4 DEF A!Newest
  <2>2. n - AgentKeep + 1 \in Int /\ n \in Int /\ \A i \in n - AgentKeep + 1 .. n : all[i] \in 1 .. MaxLine
    BY <1>0, <1>1, <1>4
  <2>3. /\ Len(A!Newest(all)) = IF n - AgentKeep + 1 <= n THEN n - (n - AgentKeep + 1) + 1 ELSE 0
        /\ \A i \in 1 .. n - (n - AgentKeep + 1) + 1 : A!Newest(all)[i] = all[(n - AgentKeep + 1) + i - 1]
    BY <2>1, <2>2, SubSeqProperties
  <2>4. Len(A!Newest(all)) = AgentKeep
    BY <1>0, <2>3
  <2>5. ASSUME NEW i \in 1 .. AgentKeep
        PROVE  A!Newest(all)[i] = n - AgentKeep + i
    <3>1. /\ n - (n - AgentKeep + 1) + 1 = AgentKeep
          /\ (n - AgentKeep + 1) + i - 1 = n - AgentKeep + i /\ n - AgentKeep + i \in 1 .. n
      BY <1>0, <1>4
    <3> QED BY <1>1, <2>3, <3>1
  <2>6. InOrder(0, A!Newest(all), n)
    BY <1>0, <1>4, <2>4, <2>5 DEF InOrder
  <2>7. A!Newest(all) # <<>> /\ A!Newest(all)[Len(A!Newest(all))] = n
    <3>1. AgentKeep \in 1 .. AgentKeep /\ n - AgentKeep + AgentKeep = n
      BY <1>0
    <3>2. A!Newest(all)[AgentKeep] = n
      BY <2>5, <3>1
    <3> QED BY <1>0, <1>3, <2>4, <3>2, EmptySeq
  <2> QED BY <1>2, <1>3, <2>6, <2>7
<1>5. CASE ~(n > AgentKeep)
  <2>1. A!Newest(all) = all
    BY <1>1, <1>5 DEF A!Newest
  <2>2. InOrder(0, all, n)
    BY <1>1 DEF InOrder
  <2>3. n > 0 => all # <<>> /\ all[Len(all)] = n
    <3>1. ASSUME n > 0
          PROVE  n \in 1 .. n
      BY <3>1
    <3> QED BY <1>1, <3>1, EmptySeq
  <2> QED BY <1>2, <1>3, <2>1, <2>2, <2>3
<1> QED BY <1>4, <1>5


\* What the agent does with its log: what of the types it can disturb, and what it sends.
LEMMA WorkTyped ==
  ASSUME A!TypeOK, Sent, AgentLogWork
  PROVE  /\ logged' \in 0 .. MaxLine /\ asked' \in Seq(AgCommand) /\ told' \in Seq(A!ToManager)
         /\ history' \in Seq(1 .. MaxLine) /\ Len(history') <= AgentKeep
         /\ channel' \in Seq(1 .. MaxLine) /\ Len(channel') <= Channel
         /\ leftover' \subseteq Seq(1 .. MaxLine) \ {<<>>}
         /\ reading' \in BOOLEAN /\ open' \in BOOLEAN /\ forwarding' \in BOOLEAN /\ sent' \in 0 .. MaxLine
         /\ connection' \in {"up", "broken", "down"} /\ noticed' \subseteq {"agent", "manager"}
<1>0. /\ logged \in 0 .. MaxLine /\ asked \in Seq(AgCommand) /\ told \in Seq(A!ToManager)
      /\ history \in Seq(1 .. MaxLine) /\ Len(history) <= AgentKeep
      /\ channel \in Seq(1 .. MaxLine) /\ Len(channel) <= Channel /\ Len(channel) \in Nat
      /\ leftover \subseteq Seq(1 .. MaxLine) \ {<<>>}
      /\ reading \in BOOLEAN /\ open \in BOOLEAN /\ forwarding \in BOOLEAN /\ sent \in 0 .. MaxLine
      /\ MaxLine \in Nat /\ AgentKeep \in Nat \ {0} /\ Channel \in Nat \ {0}
      /\ connection \in {"up", "broken", "down"} /\ noticed \subseteq {"agent", "manager"}
  BY AgentLogTypes, LenProperties
<1>1. <<>> \in Seq(1 .. MaxLine) /\ Len(<<>>) <= AgentKeep /\ Len(<<>>) <= Channel
  BY <1>0, EmptySeq
<1>2. ASSUME NEW message \in A!ToManager, A!Tell(message)
      PROVE  told' \in Seq(A!ToManager)
  BY <1>0, <1>2, AppendProperties DEF A!Tell
<1>3. CASE A!AddLine
  <2>1. /\ logged < MaxLine /\ logged' = logged + 1
        /\ \/ channel' = channel
           \/ Len(channel) < Channel /\ channel' = Append(channel, logged + 1)
        /\ UNCHANGED <<asked, told, history, reading, open, forwarding, leftover, sent, connection, noticed>>
    BY <1>3 DEF A!AddLine
  <2>2. logged + 1 \in 1 .. MaxLine
    BY <1>0, <2>1
  <2>3. /\ Append(channel, logged + 1) \in Seq(1 .. MaxLine)
        /\ Len(channel) < Channel => Len(Append(channel, logged + 1)) <= Channel
    BY <1>0, <2>2, AppendProperties
  <2>4. channel' \in Seq(1 .. MaxLine) /\ Len(channel') <= Channel
    BY <1>0, <2>1, <2>3
  <2> QED BY <1>0, <2>1, <2>2, <2>4
<1>4. CASE A!ReadHistory
  <2>1. /\ A!Handles("subscribe") /\ UNCHANGED <<logged, open, channel, forwarding, leftover, sent, connection, noticed, told>>
        /\ \/ UNCHANGED <<reading, history>>
           \/ reading' = TRUE /\ history' = A!Logged(logged)
    BY <1>4 DEF A!ReadHistory
  <2>2. asked' \in Seq(AgCommand)
    BY <1>0, <2>1, AgReads
  <2>3. A!Logged(logged) \in Seq(1 .. MaxLine) /\ Len(A!Logged(logged)) <= AgentKeep
    BY <1>0, LoggedIs
  <2> QED BY <1>0, <2>1, <2>2, <2>3
<1>5. CASE A!Subscribe
  <2>1. /\ history' = <<>> /\ channel' = <<>> /\ reading' = FALSE /\ open' = TRUE /\ forwarding' = TRUE
        /\ UNCHANGED <<logged, leftover, connection, noticed, asked>>
        /\ \/ history # <<>> /\ A!Tell([op |-> "history", lines |-> history]) /\ sent' = history[Len(history)]
           \/ UNCHANGED <<told, sent>>
    BY <1>5 DEF A!Subscribe
  <2>2. [op |-> "history", lines |-> history] \in A!ToManager
    BY <1>0 DEF A!ToManager, A!Lines
  <2>3. history # <<>> => history[Len(history)] \in 0 .. MaxLine
    BY <1>0, EmptySeq, LenProperties, ElementOfSeq
  <2>4. told' \in Seq(A!ToManager) /\ sent' \in 0 .. MaxLine
    BY <1>0, <1>2, <2>1, <2>2, <2>3
  <2> QED BY <1>0, <1>1, <2>1, <2>4
<1>6. CASE A!HandleAgentLogsUnsubscribe
  <2>1. /\ A!Handles("unsubscribe") /\ open' = FALSE /\ channel' = <<>> /\ forwarding' = FALSE /\ sent' = 0
        /\ UNCHANGED <<logged, reading, history, connection, noticed, told>>
        /\ leftover' \in {leftover, leftover \cup {channel}} /\ (channel = <<>> => UNCHANGED leftover)
    BY <1>6 DEF A!HandleAgentLogsUnsubscribe, A!CloseChannel
  <2>2. asked' \in Seq(AgCommand)
    BY <1>0, <2>1, AgReads
  <2>3. sent' \in 0 .. MaxLine /\ channel' \in Seq(1 .. MaxLine) /\ Len(channel') <= Channel
    BY <1>0, <1>1, <2>1
  <2> QED BY <1>0, <2>1, <2>2, <2>3
<1>7. CASE A!Forward
  <2>1. /\ channel # <<>> /\ channel' = Tail(channel) /\ sent' = Head(channel) /\ forwarding' \in {forwarding, FALSE}
        /\ UNCHANGED <<logged, reading, history, open, leftover, connection, noticed, asked>>
        /\ A!Tell([op |-> "line", line |-> Head(channel)]) \/ UNCHANGED told
    BY <1>7 DEF A!Forward
  <2>2. /\ Head(channel) \in 1 .. MaxLine /\ Tail(channel) \in Seq(1 .. MaxLine)
        /\ Len(Tail(channel)) = Len(channel) - 1
    BY <1>0, <2>1, HeadTailProperties
  <2>3. [op |-> "line", line |-> Head(channel)] \in A!ToManager
    BY <2>2 DEF A!ToManager
  <2>4. told' \in Seq(A!ToManager)
    BY <1>0, <1>2, <2>1, <2>3
  <2>5. sent' \in 0 .. MaxLine /\ channel' \in Seq(1 .. MaxLine) /\ Len(channel') <= Channel
    BY <1>0, <2>1, <2>2
  <2> QED BY <1>0, <2>1, <2>4, <2>5
<1>8. CASE A!CleanupOnDisconnect
  <2>1. /\ A!Settle("agent") /\ open' = FALSE /\ channel' = <<>> /\ forwarding' = FALSE /\ sent' = 0
        /\ UNCHANGED <<logged, reading, history, asked, told>>
        /\ leftover' \in {leftover, leftover \cup {channel}} /\ (channel = <<>> => UNCHANGED leftover)
    BY <1>8 DEF A!CleanupOnDisconnect, A!CloseChannel
  <2>2. connection' \in {"broken", "down"} /\ noticed' = noticed \cup {"agent"}
    BY <2>1, SettleDoes
  <2>3. sent' \in 0 .. MaxLine /\ channel' \in Seq(1 .. MaxLine) /\ Len(channel') <= Channel
    BY <1>0, <1>1, <2>1
  <2> QED BY <1>0, <2>1, <2>2, <2>3
<1>9. CASE A!Drain
  <2>1. /\ UNCHANGED <<logged, reading, history, open, channel, forwarding, sent, connection, noticed, asked>>
        /\ \E lines \in leftover :
             \/ /\ A!Tell([op |-> "line", line |-> Head(lines)])
                /\ leftover' = (leftover \ {lines}) \cup ({Tail(lines)} \ {<<>>})
             \/ leftover' = leftover \ {lines} /\ UNCHANGED told
    BY <1>9 DEF A!Drain
  <2>2. ASSUME NEW lines \in leftover
        PROVE  Head(lines) \in 1 .. MaxLine /\ Tail(lines) \in Seq(1 .. MaxLine)
    BY <1>0, <2>2, HeadTailProperties
  <2>3. \A n \in 1 .. MaxLine : [op |-> "line", line |-> n] \in A!ToManager
    BY DEF A!ToManager
  <2>4. told' \in Seq(A!ToManager) /\ leftover' \subseteq Seq(1 .. MaxLine) \ {<<>>}
    BY <1>0, <1>2, <2>1, <2>2, <2>3
  <2> QED BY <1>0, <2>1, <2>4
<1> QED BY <1>3, <1>4, <1>5, <1>6, <1>7, <1>8, <1>9 DEF AgentLogWork

LEMMA AgentLogTyped ==
  ASSUME A!TypeOK, Sent, [A!AgentLogNext]_A!agentLogVars
  PROVE  A!TypeOK'
<1>0. /\ logged \in 0 .. MaxLine /\ asked \in Seq(AgCommand) /\ told \in Seq(A!ToManager)
      /\ history \in Seq(1 .. MaxLine) /\ Len(history) <= AgentKeep
      /\ channel \in Seq(1 .. MaxLine) /\ Len(channel) <= Channel
      /\ leftover \subseteq Seq(1 .. MaxLine) \ {<<>>}
      /\ reading \in BOOLEAN /\ open \in BOOLEAN /\ forwarding \in BOOLEAN /\ sent \in 0 .. MaxLine
      /\ connection \in {"up", "broken", "down"} /\ noticed \subseteq {"agent", "manager"}
      /\ streaming \in BOOLEAN /\ stale \in BOOLEAN
      /\ sockets \in [Sockets -> A!SocketStates] /\ viewers \subseteq Sockets
      /\ buffer \in Seq(1 .. MaxLine) /\ Len(buffer) <= AgentKeep
      /\ shown \in [Sockets -> Seq(1 .. MaxLine)] /\ breaks \in 0 .. Breaks
      /\ MaxLine \in Nat /\ AgentKeep \in Nat \ {0} /\ Breaks \in Nat
  BY AgentLogTypes
<1>1. ASSUME logged' \in 0 .. MaxLine, asked' \in Seq(AgCommand), told' \in Seq(A!ToManager),
             history' \in Seq(1 .. MaxLine), Len(history') <= AgentKeep,
             channel' \in Seq(1 .. MaxLine), Len(channel') <= Channel,
             leftover' \subseteq Seq(1 .. MaxLine) \ {<<>>},
             reading' \in BOOLEAN, open' \in BOOLEAN, forwarding' \in BOOLEAN, sent' \in 0 .. MaxLine,
             connection' \in {"up", "broken", "down"}, noticed' \subseteq {"agent", "manager"},
             streaming' \in BOOLEAN, stale' \in BOOLEAN,
             sockets' \in [Sockets -> A!SocketStates], viewers' \subseteq Sockets,
             buffer' \in Seq(1 .. MaxLine), Len(buffer') <= AgentKeep,
             shown' \in [Sockets -> Seq(1 .. MaxLine)], breaks' \in 0 .. Breaks
      PROVE  A!TypeOK'
  BY <1>1 DEF A!TypeOK, A!Lines, A!AtMost, AgCommand
<1>2. CASE AgentLogWork
  BY <1>0, <1>1, <1>2, WorkTyped, AgentLogWorks DEF AgentLogWork, A!CleanupOnDisconnect
<1>3. ASSUME ~AgentLogWork
      PROVE  UNCHANGED <<logged, reading, history, open, channel, forwarding, leftover, sent>>
  BY <1>3, AgentLogStill
<1>4. <<>> \in Seq(AgCommand) /\ <<>> \in Seq(A!ToManager) /\ <<>> \in Seq(1 .. MaxLine) /\ Len(<<>>) <= AgentKeep
  BY <1>0, EmptySeq
<1>5. CASE A!Break /\ ~AgentLogWork
  <2>1. /\ connection' = "broken" /\ noticed' = {} /\ breaks < Breaks /\ breaks' = breaks + 1
        /\ asked' = <<>> /\ told' = <<>> /\ UNCHANGED <<streaming, sockets, viewers, buffer, shown, stale>>
    BY <1>5 DEF A!Break, A!doVars
  <2>2. breaks' \in 0 .. Breaks
    BY <1>0, <2>1
  <2> QED BY <1>0, <1>1, <1>3, <1>4, <1>5, <2>1, <2>2
<1>6. CASE A!HandleAgentClose /\ ~AgentLogWork
  <2>1. /\ A!Settle("manager") /\ streaming' = FALSE /\ stale' = FALSE
        /\ UNCHANGED <<asked, told, sockets, viewers, buffer, shown, breaks>>
    BY <1>6 DEF A!HandleAgentClose
  <2>2. connection' \in {"broken", "down"} /\ noticed' = noticed \cup {"manager"}
    BY <2>1, SettleDoes
  <2> QED BY <1>0, <1>1, <1>3, <1>6, <2>1, <2>2
<1>7. CASE A!HandleAgentAuth /\ ~AgentLogWork
  <2>1. /\ connection' = "up" /\ noticed' = {} /\ streaming' = TRUE
        /\ asked' = <<>> \/ asked' = <<"subscribe">>
        /\ UNCHANGED <<told, sockets, viewers, buffer, shown, breaks, stale>>
    BY <1>7 DEF A!HandleAgentAuth
  <2>2. <<"subscribe">> \in Seq(AgCommand)
    BY DEF AgCommand
  <2> QED BY <1>0, <1>1, <1>3, <1>4, <1>7, <2>1, <2>2
<1>8. CASE A!Hibernate /\ ~AgentLogWork
  <2>1. /\ buffer' = <<>>
        /\ UNCHANGED <<connection, noticed, asked, told, streaming, sockets, viewers, shown, breaks, stale>>
    BY <1>8 DEF A!Hibernate
  <2> QED BY <1>0, <1>1, <1>3, <1>4, <1>8, <2>1
<1>9. CASE A!Restart /\ ~AgentLogWork
  <2>1. /\ breaks < Breaks /\ breaks' = breaks + 1 /\ buffer' = <<>> /\ stale' = TRUE
        /\ sockets' = [s \in Sockets |-> IF sockets[s] = "unused" THEN "unused" ELSE "closed"]
        /\ asked' = <<>> /\ told' = <<>> /\ UNCHANGED <<streaming, viewers, shown>>
        /\ noticed' \in {noticed, noticed \cup {"manager"}} /\ connection' \in {"down", "broken"}
    BY <1>9 DEF A!Restart
  <2>2. breaks' \in 0 .. Breaks
    BY <1>0, <2>1
  <2>3. sockets' \in [Sockets -> A!SocketStates]
    BY <2>1 DEF A!SocketStates
  <2> QED BY <1>0, <1>1, <1>3, <1>4, <1>9, <2>1, <2>2, <2>3
<1>10. CASE BrowserStep /\ ~AgentLogWork
  <2>1. /\ UNCHANGED <<connection, noticed, told, breaks, buffer, shown>>
        /\ sockets' \in [Sockets -> A!SocketStates] /\ viewers' \subseteq Sockets
        /\ \/ UNCHANGED <<asked, streaming, stale>>
           \/ A!Send("unsubscribe") /\ streaming' = FALSE /\ stale' = FALSE
    BY <1>10, BrowserDoes
  <2>2. asked' \in Seq(AgCommand)
    <3>1. "unsubscribe" \in AgCommand
      BY DEF AgCommand
    <3>2. CASE A!Send("unsubscribe")
      BY <1>0, <3>1, <3>2, AgTold
    <3> QED BY <1>0, <2>1, <3>2
  <2> QED BY <1>0, <1>1, <1>3, <1>10, <2>1, <2>2
<1>11. ASSUME NEW s \in Sockets, A!HandleAgentLogSubscribe(s), ~AgentLogWork
       PROVE  A!TypeOK'
  <2>1. /\ UNCHANGED <<connection, noticed, told, breaks, buffer>>
        /\ sockets' \in [Sockets -> A!SocketStates] /\ viewers' \subseteq Sockets
        /\ shown' = [shown EXCEPT ![s] = buffer] /\ A!Send("subscribe")
        /\ \/ UNCHANGED <<streaming, stale>>
           \/ streaming' = TRUE /\ stale' = FALSE
    BY <1>11, WatchDoes
  <2>2. asked' \in Seq(AgCommand)
    <3>1. "subscribe" \in AgCommand
      BY DEF AgCommand
    <3> QED BY <1>0, <2>1, <3>1, AgTold
  <2>3. shown' \in [Sockets -> Seq(1 .. MaxLine)]
    BY <1>0, <2>1
  <2> QED BY <1>0, <1>1, <1>3, <1>11, <2>1, <2>2, <2>3
<1>12. CASE A!HandleAgentMessage /\ ~AgentLogWork
  <2>1. /\ UNCHANGED <<connection, noticed, asked, sockets, streaming, breaks, stale>>
        /\ told' \in Seq(A!ToManager) /\ viewers' \subseteq viewers
        /\ \/ \E line \in 1 .. MaxLine :
                /\ buffer' = A!Newest(Append(buffer, line))
                /\ shown' = [s \in Sockets |-> IF s \in A!Viewers THEN Append(shown[s], line) ELSE shown[s]]
           \/ \E lines \in Seq(1 .. MaxLine) :
                 /\ buffer' = A!Newest(buffer \o lines)
                 /\ shown' = [s \in Sockets |-> IF s \in A!Viewers THEN lines ELSE shown[s]]
    BY <1>12, ArrivalDoes
  <2>2. buffer' \in Seq(1 .. MaxLine) /\ Len(buffer') <= AgentKeep /\ shown' \in [Sockets -> Seq(1 .. MaxLine)]
    <3>1. ASSUME NEW line \in 1 .. MaxLine, buffer' = A!Newest(Append(buffer, line)),
                 shown' = [s \in Sockets |-> IF s \in A!Viewers THEN Append(shown[s], line) ELSE shown[s]]
          PROVE  buffer' \in Seq(1 .. MaxLine) /\ Len(buffer') <= AgentKeep /\ shown' \in [Sockets -> Seq(1 .. MaxLine)]
      <4>1. Append(buffer, line) \in Seq(1 .. MaxLine) /\ \A s \in Sockets : Append(shown[s], line) \in Seq(1 .. MaxLine)
        BY <1>0
      <4>2. buffer' \in Seq(1 .. MaxLine) /\ Len(buffer') <= AgentKeep
        BY <3>1, <4>1, NewestIs
      <4> QED BY <1>0, <3>1, <4>1, <4>2
    <3>2. ASSUME NEW lines \in Seq(1 .. MaxLine), buffer' = A!Newest(buffer \o lines),
                 shown' = [s \in Sockets |-> IF s \in A!Viewers THEN lines ELSE shown[s]]
          PROVE  buffer' \in Seq(1 .. MaxLine) /\ Len(buffer') <= AgentKeep /\ shown' \in [Sockets -> Seq(1 .. MaxLine)]
      <4>1. buffer \o lines \in Seq(1 .. MaxLine)
        BY <1>0, ConcatProperties
      <4>2. buffer' \in Seq(1 .. MaxLine) /\ Len(buffer') <= AgentKeep
        BY <3>2, <4>1, NewestIs
      <4> QED BY <1>0, <3>2, <4>2
    <3> QED BY <2>1, <3>1, <3>2
  <2> QED BY <1>0, <1>1, <1>3, <1>12, <2>1, <2>2
<1>13. CASE UNCHANGED A!agentLogVars
  BY <1>0, <1>1, <1>13 DEF A!agentLogVars, A!agentVars, A!doVars
<1> QED BY <1>2, <1>5, <1>6, <1>7, <1>8, <1>9, <1>10, <1>11, <1>12, <1>13, AgentLogSteps

LEMMA NothingInOrder ==
  ASSUME NEW last, NEW top
  PROVE  InOrder(last, <<>>, top)
BY DEF InOrder

\* What is sent is sent once, and in order.
LEMMA SentKept ==
  ASSUME A!TypeOK, Sent, [A!AgentLogNext]_A!agentLogVars
  PROVE  Sent'
<1>0. /\ logged \in 0 .. MaxLine /\ sent \in 0 .. MaxLine /\ MaxLine \in Nat
      /\ history \in Seq(1 .. MaxLine) /\ channel \in Seq(1 .. MaxLine)
      /\ ~open => sent = 0 /\ channel = <<>> /\ ~forwarding
      /\ reading => ~open
      /\ ~reading => history = <<>>
      /\ sent <= logged /\ InOrder(sent, history, logged) /\ InOrder(sent, channel, logged)
  BY AgentLogTypes DEF Sent
<1>1. ASSUME UNCHANGED <<logged, reading, history, open, channel, forwarding, sent>>
      PROVE  Sent'
  BY <1>1 DEF Sent, InOrder
<1>2. ASSUME NEW lo, lo = logged', NEW hi, hi = history', NEW ch, ch = channel', NEW se, se = sent',
             ~open' => se = 0 /\ ch = <<>> /\ ~forwarding', reading' => ~open', ~reading' => hi = <<>>,
             se <= lo, InOrder(se, hi, lo), InOrder(se, ch, lo)
      PROVE  Sent'
  BY <1>2 DEF Sent, InOrder
<1>3. CASE A!AddLine
  <2>1. /\ logged' = logged + 1 /\ UNCHANGED <<reading, history, open, forwarding, sent>>
        /\ \/ channel' = channel
           \/ open /\ channel' = Append(channel, logged + 1)
    BY <1>3 DEF A!AddLine
  <2>2. ASSUME NEW lines \in Seq(1 .. MaxLine), InOrder(sent, lines, logged)
        PROVE  InOrder(sent, lines, logged + 1) /\ InOrder(sent, Append(lines, logged + 1), logged + 1)
    <3>1. /\ Len(lines) \in Nat /\ \A m \in 1 .. Len(lines) : lines[m] \in 1 .. MaxLine
      BY LenProperties, ElementOfSeq
    <3>2. /\ \A m \in 1 .. Len(lines) : sent < lines[m] /\ lines[m] <= logged
          /\ \A m, n \in 1 .. Len(lines) : m < n => lines[m] < lines[n]
      BY <2>2 DEF InOrder
    <3>3. InOrder(sent, lines, logged + 1)
      BY <1>0, <3>1, <3>2 DEF InOrder
    <3>4. PICK more : more = Append(lines, logged + 1)
      OBVIOUS
    <3>5. /\ Len(more) = Len(lines) + 1 /\ more[Len(lines) + 1] = logged + 1
          /\ \A m \in 1 .. Len(lines) : more[m] = lines[m]
      <4>1. lines \in Seq(Int) /\ logged + 1 \in Int
        BY <1>0, SeqMonotonic
      <4> QED BY <3>4, <4>1, AppendProperties
    <3>6. InOrder(sent, more, logged + 1)
      <4>1. ASSUME NEW m \in 1 .. Len(more)
            PROVE  sent < more[m] /\ more[m] <= logged + 1
        <5>1. CASE m = Len(lines) + 1
          BY <1>0, <3>5, <5>1
        <5>2. CASE m # Len(lines) + 1
          <6>1. m \in 1 .. Len(lines) /\ more[m] = lines[m] /\ lines[m] \in Int
            BY <3>1, <3>5, <5>2
          <6> QED BY <1>0, <3>2, <6>1
        <5> QED BY <5>1, <5>2
      <4>2. ASSUME NEW m \in 1 .. Len(more), NEW n \in 1 .. Len(more), m < n
            PROVE  more[m] < more[n]
        <5>1. m \in 1 .. Len(lines) /\ more[m] = lines[m] /\ lines[m] <= logged
          BY <3>1, <3>2, <3>5, <4>2
        <5>2. CASE n = Len(lines) + 1
          BY <1>0, <3>1, <3>5, <5>1, <5>2
        <5>3. CASE n # Len(lines) + 1
          BY <3>1, <3>2, <3>5, <4>2, <5>1, <5>3
        <5> QED BY <5>2, <5>3
      <4> QED BY <4>1, <4>2 DEF InOrder
    <3> QED BY <3>3, <3>4, <3>6
  <2>3. InOrder(sent, history, logged + 1) /\ InOrder(sent, channel, logged + 1)
        /\ InOrder(sent, Append(channel, logged + 1), logged + 1)
    BY <1>0, <2>2
  <2>4. sent <= logged + 1
    BY <1>0
  <2> QED BY <1>0, <1>2, <2>1, <2>3, <2>4
<1>4. CASE A!ReadHistory
  <2>1. /\ A!Handles("subscribe") /\ UNCHANGED <<logged, open, channel, forwarding, sent>>
        /\ \/ UNCHANGED <<reading, history>>
           \/ ~open /\ reading' = TRUE /\ history' = A!Logged(logged)
    BY <1>4 DEF A!ReadHistory
  <2>2. InOrder(0, A!Logged(logged), logged)
    BY <1>0, LoggedIs
  <2>3. PICK hi : hi = A!Logged(logged)
    OBVIOUS
  <2> QED BY <1>0, <1>1, <1>2, <2>1, <2>2, <2>3
<1>5. CASE A!Subscribe
  <2>1. /\ reading /\ history' = <<>> /\ channel' = <<>> /\ reading' = FALSE /\ open' = TRUE /\ UNCHANGED logged
        /\ \/ history # <<>> /\ sent' = history[Len(history)]
           \/ UNCHANGED sent
    BY <1>5 DEF A!Subscribe
  <2>2. history # <<>> => history[Len(history)] <= logged
    <3>1. history # <<>> => Len(history) \in 1 .. Len(history)
      BY <1>0, EmptySeq, LenProperties
    <3> QED BY <1>0, <3>1 DEF InOrder
  <2>3. PICK se : se = sent'
    OBVIOUS
  <2>4. se <= logged
    BY <1>0, <2>1, <2>2, <2>3
  <2> QED BY <1>2, <2>1, <2>3, <2>4, NothingInOrder
<1>6. CASE A!HandleAgentLogsUnsubscribe \/ A!CleanupOnDisconnect
  <2>1. /\ ~reading /\ open' = FALSE /\ channel' = <<>> /\ forwarding' = FALSE /\ sent' = 0
        /\ UNCHANGED <<logged, reading, history>>
    BY <1>6 DEF A!HandleAgentLogsUnsubscribe, A!CleanupOnDisconnect, A!CloseChannel, A!Handles
  <2>2. 0 <= logged /\ history = <<>>
    BY <1>0, <2>1
  <2> QED BY <1>2, <2>1, <2>2, NothingInOrder
<1>7. CASE A!Forward
  <2>1. /\ forwarding /\ channel # <<>> /\ channel' = Tail(channel) /\ sent' = Head(channel)
        /\ UNCHANGED <<logged, reading, history, open>>
    BY <1>7 DEF A!Forward
  <2>2. open /\ ~reading /\ history = <<>>
    BY <1>0, <2>1
  <2>3. /\ Tail(channel) \in Seq(1 .. MaxLine) /\ Len(Tail(channel)) = Len(channel) - 1 /\ Len(channel) \in Nat \ {0}
        /\ \A n \in 1 .. Len(Tail(channel)) : Tail(channel)[n] = channel[n + 1]
        /\ Head(channel) = channel[1]
    BY <1>0, <2>1, HeadTailProperties, LenProperties, EmptySeq
  <2>4. Head(channel) <= logged /\ InOrder(Head(channel), Tail(channel), logged)
    <3>1. /\ \A m \in 1 .. Len(channel) : sent < channel[m] /\ channel[m] <= logged
          /\ \A m, n \in 1 .. Len(channel) : m < n => channel[m] < channel[n]
      BY <1>0 DEF InOrder
    <3>2. ASSUME NEW m \in 1 .. Len(Tail(channel))
          PROVE  Head(channel) < Tail(channel)[m] /\ Tail(channel)[m] <= logged
      BY <2>3, <3>1
    <3>3. ASSUME NEW m \in 1 .. Len(Tail(channel)), NEW n \in 1 .. Len(Tail(channel)), m < n
          PROVE  Tail(channel)[m] < Tail(channel)[n]
      BY <2>3, <3>1, <3>3
    <3>4. Head(channel) <= logged
      BY <2>3, <3>1
    <3> QED BY <3>2, <3>3, <3>4 DEF InOrder
  <2>5. PICK ch, se : ch = Tail(channel) /\ se = Head(channel)
    OBVIOUS
  <2> QED BY <1>2, <2>1, <2>2, <2>4, <2>5, NothingInOrder
<1>8. CASE A!Drain
  BY <1>1, <1>8 DEF A!Drain
<1> QED BY <1>1, <1>3, <1>4, <1>5, <1>6, <1>7, <1>8, AgentLogStill DEF AgentLogWork

\* What is left over stays older than what is sent.
LEMMA LeftKept ==
  ASSUME A!TypeOK, Sent, Left, [A!AgentLogNext]_A!agentLogVars
  PROVE  Left'
<1>0. /\ logged \in 0 .. MaxLine /\ sent \in 0 .. MaxLine /\ MaxLine \in Nat
      /\ history \in Seq(1 .. MaxLine) /\ channel \in Seq(1 .. MaxLine)
      /\ leftover \subseteq Seq(1 .. MaxLine) \ {<<>>}
      /\ InOrder(sent, channel, logged)
      /\ \A lines \in leftover : \A m \in 1 .. Len(lines) :
           /\ lines[m] \in 1 .. MaxLine /\ lines[m] <= logged
           /\ reading => history # <<>> /\ lines[m] <= history[Len(history)]
           /\ open => lines[m] <= sent
  <2>1. /\ leftover \subseteq Seq(1 .. MaxLine) \ {<<>>}
        /\ \A lines \in Seq(1 .. MaxLine) : \A m \in 1 .. Len(lines) : lines[m] \in 1 .. MaxLine
    BY AgentLogTypes, ElementOfSeq
  <2> QED BY <2>1, AgentLogTypes DEF Sent, Left
<1>1. ASSUME UNCHANGED <<logged, reading, history, open, leftover, sent>>
      PROVE  Left'
  BY <1>1 DEF Left
<1>2. ASSUME NEW le, le = leftover', NEW lo, lo = logged', NEW hi, hi = history', NEW se, se = sent',
             \A lines \in le : \A m \in 1 .. Len(lines) :
               /\ lines[m] <= lo
               /\ reading' => hi # <<>> /\ lines[m] <= hi[Len(hi)]
               /\ open' => lines[m] <= se
      PROVE  Left'
  BY <1>2 DEF Left
<1>3. CASE A!AddLine
  <2>1. /\ logged' = logged + 1 /\ UNCHANGED <<reading, history, open, leftover, sent>>
    BY <1>3 DEF A!AddLine
  <2>2. \A lines \in leftover : \A m \in 1 .. Len(lines) : lines[m] <= logged + 1
    BY <1>0
  <2> QED BY <1>0, <1>2, <2>1, <2>2
<1>4. CASE A!ReadHistory
  <2>1. /\ UNCHANGED <<logged, open, leftover, sent>>
        /\ \/ UNCHANGED <<reading, history>>
           \/ ~open /\ reading' = TRUE /\ history' = A!Logged(logged)
    BY <1>4 DEF A!ReadHistory
  <2>2. PICK hi : hi = A!Logged(logged)
    OBVIOUS
  <2>3. logged > 0 => hi # <<>> /\ hi[Len(hi)] = logged
    BY <1>0, <2>2, LoggedIs
  <2>4. ASSUME NEW lines \in leftover, NEW m \in 1 .. Len(lines)
        PROVE  hi # <<>> /\ lines[m] <= hi[Len(hi)]
    BY <1>0, <2>3
  <2>5. CASE UNCHANGED <<reading, history>>
    BY <1>1, <2>1, <2>5
  <2>6. CASE ~open /\ reading' = TRUE /\ history' = A!Logged(logged)
    BY <1>0, <1>2, <2>1, <2>2, <2>4, <2>6
  <2> QED BY <2>1, <2>5, <2>6
<1>5. CASE A!Subscribe
  <2>1. /\ reading /\ reading' = FALSE /\ UNCHANGED <<logged, leftover>>
        /\ history # <<>> => sent' = history[Len(history)]
    BY <1>5 DEF A!Subscribe
  <2>2. PICK se, hi : se = sent' /\ hi = history'
    OBVIOUS
  <2>3. \A lines \in leftover : \A m \in 1 .. Len(lines) : lines[m] <= logged /\ lines[m] <= se
    BY <1>0, <2>1, <2>2
  <2> QED BY <1>2, <2>1, <2>2, <2>3
<1>6. CASE A!HandleAgentLogsUnsubscribe \/ A!CleanupOnDisconnect
  <2>1. /\ ~reading' /\ ~open' /\ UNCHANGED logged
        /\ leftover' = leftover \cup {channel} \/ UNCHANGED leftover
    BY <1>6 DEF A!HandleAgentLogsUnsubscribe, A!CleanupOnDisconnect, A!CloseChannel, A!Handles
  <2>2. PICK le, hi, se : le = leftover' /\ hi = history' /\ se = sent'
    OBVIOUS
  <2>3. \A m \in 1 .. Len(channel) : channel[m] <= logged
    BY <1>0 DEF InOrder
  <2>4. \A lines \in le : \A m \in 1 .. Len(lines) : lines[m] <= logged
    BY <1>0, <2>1, <2>2, <2>3
  <2> QED BY <1>2, <2>1, <2>2, <2>4
<1>7. CASE A!Forward
  <2>1. /\ channel # <<>> /\ sent' = Head(channel) /\ UNCHANGED <<logged, reading, history, open, leftover>>
    BY <1>7 DEF A!Forward
  <2>2. Len(channel) \in Nat \ {0} /\ Head(channel) = channel[1] /\ channel[1] \in 1 .. MaxLine
    BY <1>0, <2>1, HeadTailProperties, LenProperties, EmptySeq
  <2>3. sent < Head(channel)
    BY <1>0, <2>2 DEF InOrder
  <2>4. PICK se : se = Head(channel)
    OBVIOUS
  <2>5. \A lines \in leftover : \A m \in 1 .. Len(lines) : open => lines[m] <= se
    BY <1>0, <2>2, <2>3, <2>4
  <2> QED BY <1>0, <1>2, <2>1, <2>4, <2>5
<1>8. CASE A!Drain
  <2>1. /\ UNCHANGED <<logged, reading, history, open, sent>>
        /\ \E lines \in leftover : leftover' \subseteq leftover \cup {Tail(lines)}
    BY <1>8 DEF A!Drain
  <2>2. PICK lines \in leftover : leftover' \subseteq leftover \cup {Tail(lines)}
    BY <2>1
  <2>3. Len(lines) \in Nat /\ Len(Tail(lines)) = Len(lines) - 1
        /\ \A m \in 1 .. Len(Tail(lines)) : Tail(lines)[m] = lines[m + 1]
    BY <1>0, <2>2, HeadTailProperties, LenProperties
  <2>4. \A m \in 1 .. Len(Tail(lines)) :
          /\ Tail(lines)[m] <= logged
          /\ reading => history # <<>> /\ Tail(lines)[m] <= history[Len(history)]
          /\ open => Tail(lines)[m] <= sent
    <3>1. \A m \in 1 .. Len(Tail(lines)) : m + 1 \in 1 .. Len(lines)
      BY <2>3
    <3> QED BY <1>0, <2>3, <3>1
  <2>5. PICK le : le = leftover'
    OBVIOUS
  <2> QED BY <1>0, <1>2, <2>1, <2>2, <2>4, <2>5
<1> QED BY <1>1, <1>3, <1>4, <1>5, <1>6, <1>7, <1>8, AgentLogStill DEF AgentLogWork

\* Who has noticed that the connection broke has given up what depends on it.
LEMMA SettledKept ==
  ASSUME A!TypeOK, Sent, Settled, [A!AgentLogNext]_A!agentLogVars
  PROVE  Settled'
<1>0. /\ asked \in Seq(AgCommand) /\ connection \in {"up", "broken", "down"}
      /\ connection = "up" => noticed = {} /\ (open => forwarding)
      /\ connection # "up" => asked = <<>>
      /\ connection = "down" \/ "agent" \in noticed => ~open /\ ~reading
      /\ (connection = "down" \/ "manager" \in noticed) /\ ~stale => ~streaming
  BY AgentLogTypes DEF Settled
<1>1. CASE AgentLogWork
  <2>0. UNCHANGED <<streaming, stale>> /\ (~A!CleanupOnDisconnect => UNCHANGED <<connection, noticed>>)
    BY <1>1, AgentLogWorks
  <2>1. CASE A!AddLine
    <3>1. UNCHANGED <<connection, noticed, asked, reading, open, forwarding>>
      BY <2>1 DEF A!AddLine
    <3> QED BY <1>0, <2>0, <3>1 DEF Settled
  <2>2. CASE A!ReadHistory
    <3>1. A!Handles("subscribe") /\ UNCHANGED <<connection, noticed, open, forwarding>>
      BY <2>2 DEF A!ReadHistory
    <3>2. connection = "up" /\ noticed = {}
      BY <1>0, <3>1, AgReads
    <3> QED BY <1>0, <2>0, <3>1, <3>2 DEF Settled
  <2>3. CASE A!Subscribe
    <3>1. /\ reading /\ reading' = FALSE /\ open' = TRUE /\ forwarding' = TRUE
          /\ UNCHANGED <<connection, noticed, asked>>
      BY <2>3 DEF A!Subscribe
    <3> QED BY <1>0, <2>0, <3>1 DEF Settled
  <2>4. CASE A!HandleAgentLogsUnsubscribe
    <3>1. A!Handles("unsubscribe") /\ open' = FALSE /\ UNCHANGED <<connection, noticed, reading>>
      BY <2>4 DEF A!HandleAgentLogsUnsubscribe, A!CloseChannel
    <3>2. connection = "up" /\ noticed = {}
      BY <1>0, <3>1, AgReads
    <3> QED BY <1>0, <2>0, <3>1, <3>2 DEF Settled
  <2>5. CASE A!Forward \/ A!Drain
    <3>1. /\ UNCHANGED <<connection, noticed, asked, reading, open>>
          /\ connection = "broken" \/ UNCHANGED forwarding
      BY <2>5 DEF A!Forward, A!Drain
    <3> QED BY <1>0, <2>0, <3>1 DEF Settled
  <2>6. CASE A!CleanupOnDisconnect
    <3>1. /\ ~reading /\ A!Settle("agent") /\ open' = FALSE /\ UNCHANGED <<reading, asked>>
      BY <2>6 DEF A!CleanupOnDisconnect, A!CloseChannel
    <3>2. /\ connection = "broken" /\ noticed' = noticed \cup {"agent"} /\ connection' \in {"broken", "down"}
          /\ connection' = "down" => noticed' = {"agent", "manager"}
      BY <3>1, SettleDoes
    <3>3. connection' = "down" \/ "manager" \in noticed' => "manager" \in noticed
      BY <3>2
    <3> QED BY <1>0, <2>0, <3>1, <3>2, <3>3 DEF Settled
  <2> QED BY <1>1, <2>1, <2>2, <2>3, <2>4, <2>5, <2>6 DEF AgentLogWork
<1>2. ASSUME ~AgentLogWork
      PROVE  UNCHANGED <<reading, open, forwarding>>
  BY <1>2, AgentLogStill
<1>3. CASE A!Break /\ ~AgentLogWork
  <2>1. connection' = "broken" /\ noticed' = {} /\ asked' = <<>>
    BY <1>3 DEF A!Break
  <2> QED BY <2>1 DEF Settled
<1>4. CASE A!HandleAgentClose /\ ~AgentLogWork
  <2>1. A!Settle("manager") /\ streaming' = FALSE /\ UNCHANGED asked
    BY <1>4 DEF A!HandleAgentClose
  <2>2. /\ connection = "broken" /\ noticed' = noticed \cup {"manager"} /\ connection' \in {"broken", "down"}
        /\ connection' = "down" => noticed' = {"agent", "manager"}
    BY <2>1, SettleDoes
  <2>3. connection' = "down" \/ "agent" \in noticed' => "agent" \in noticed
    BY <2>2
  <2> QED BY <1>0, <1>2, <1>4, <2>1, <2>2, <2>3 DEF Settled
<1>5. CASE A!HandleAgentAuth /\ ~AgentLogWork
  <2>1. connection = "down" /\ connection' = "up" /\ noticed' = {}
    BY <1>5 DEF A!HandleAgentAuth
  <2> QED BY <1>0, <1>2, <1>5, <2>1 DEF Settled
<1>6. CASE A!Hibernate /\ ~AgentLogWork
  <2>1. UNCHANGED <<connection, noticed, asked, streaming, stale>>
    BY <1>6 DEF A!Hibernate
  <2> QED BY <1>0, <1>2, <1>6, <2>1 DEF Settled
<1>7. CASE A!Restart /\ ~AgentLogWork
  <2>1. /\ stale' = TRUE /\ asked' = <<>> /\ connection' \in {"down", "broken"}
        /\ connection' = "down" \/ "agent" \in noticed' => connection = "down" \/ "agent" \in noticed
    BY <1>7 DEF A!Restart
  <2> QED BY <1>0, <1>2, <1>7, <2>1 DEF Settled
<1>8. CASE BrowserStep /\ ~AgentLogWork
  <2>1. /\ UNCHANGED <<connection, noticed>>
        /\ \/ UNCHANGED <<asked, streaming, stale>>
           \/ A!Send("unsubscribe") /\ streaming' = FALSE
    BY <1>8, BrowserDoes
  <2>2. connection # "up" => asked' = <<>>
    BY <1>0, <2>1 DEF A!Send
  <2>3. streaming' = FALSE \/ UNCHANGED <<streaming, stale>>
    BY <2>1
  <2> QED BY <1>0, <1>2, <1>8, <2>1, <2>2, <2>3 DEF Settled
<1>9. ASSUME NEW s \in Sockets, A!HandleAgentLogSubscribe(s), ~AgentLogWork
      PROVE  Settled'
  <2>1. /\ UNCHANGED <<connection, noticed>> /\ A!Send("subscribe")
        /\ connection = "down" \/ "manager" \in noticed => UNCHANGED <<streaming, stale>>
    BY <1>9, WatchDoes
  <2>2. connection # "up" => asked' = <<>>
    BY <1>0, <2>1 DEF A!Send
  <2> QED BY <1>0, <1>2, <1>9, <2>1, <2>2 DEF Settled
<1>10. CASE A!HandleAgentMessage /\ ~AgentLogWork
  <2>1. UNCHANGED <<connection, noticed, asked, streaming, stale>>
    BY <1>10, ArrivalDoes
  <2> QED BY <1>0, <1>2, <1>10, <2>1 DEF Settled
<1>11. CASE UNCHANGED A!agentLogVars
  BY <1>11 DEF Settled, A!agentLogVars, A!agentVars, A!doVars
<1> QED BY <1>1, <1>3, <1>4, <1>5, <1>6, <1>7, <1>8, <1>9, <1>10, <1>11, AgentLogSteps

\* The flag stays what the agent will do.
LEMMA BelievedKept ==
  ASSUME A!TypeOK, Sent, Settled, Believed, [A!AgentLogNext]_A!agentLogVars
  PROVE  Believed'
<1>0. /\ asked \in Seq(AgCommand) /\ connection \in {"up", "broken", "down"}
      /\ connection = "up" => noticed = {} /\ (open => forwarding)
      /\ connection = "down" /\ ~stale => ~streaming
      /\ connection = "up" /\ ~stale =>
           /\ asked # <<>> => (streaming <=> asked[Len(asked)] = "subscribe")
           /\ asked = <<>> /\ reading => streaming
           /\ asked = <<>> /\ ~reading => (streaming <=> open /\ forwarding)
           /\ A!Viewers # {} => streaming
  BY AgentLogTypes DEF Settled, Believed, A!Sending
<1>1. ASSUME NEW vs, vs = A!Viewers',
             connection' = "up" /\ ~stale' =>
               /\ asked' # <<>> => (streaming' <=> asked'[Len(asked')] = "subscribe")
               /\ asked' = <<>> /\ reading' => streaming'
               /\ asked' = <<>> /\ ~reading' => (streaming' <=> open' /\ forwarding')
               /\ vs # {} => streaming'
      PROVE  Believed'
  BY <1>1 DEF Believed, A!Sending, A!Viewers
<1>2. PICK vs : vs = A!Viewers'
  OBVIOUS
<1>3. CASE AgentLogWork
  <2>0. UNCHANGED <<streaming, stale>> /\ vs = A!Viewers /\ (~A!CleanupOnDisconnect => UNCHANGED <<connection, noticed>>)
    BY <1>2, <1>3, AgentLogWorks DEF A!Viewers
  <2>1. CASE A!AddLine
    <3>1. UNCHANGED <<connection, asked, reading, open, forwarding>>
      BY <2>1 DEF A!AddLine
    <3> QED BY <1>0, <1>1, <1>2, <2>0, <3>1
  <2>2. CASE A!ReadHistory
    <3>1. /\ A!Handles("subscribe") /\ UNCHANGED <<connection, open, forwarding>>
          /\ IF open THEN UNCHANGED reading ELSE reading' = TRUE
      BY <2>2 DEF A!ReadHistory
    <3>2. /\ asked # <<>> /\ ~reading
          /\ asked' = <<>> => asked[Len(asked)] = "subscribe"
          /\ asked' # <<>> => asked'[Len(asked')] = asked[Len(asked)]
      BY <1>0, <3>1, AgReads
    <3> QED BY <1>0, <1>1, <1>2, <2>0, <3>1, <3>2
  <2>3. CASE A!Subscribe
    <3>1. /\ reading /\ reading' = FALSE /\ open' = TRUE /\ forwarding' = TRUE /\ UNCHANGED <<connection, asked>>
      BY <2>3 DEF A!Subscribe
    <3> QED BY <1>0, <1>1, <1>2, <2>0, <3>1
  <2>4. CASE A!HandleAgentLogsUnsubscribe
    <3>1. A!Handles("unsubscribe") /\ open' = FALSE /\ UNCHANGED <<connection, reading>>
      BY <2>4 DEF A!HandleAgentLogsUnsubscribe, A!CloseChannel
    <3>2. /\ asked # <<>> /\ ~reading
          /\ asked' = <<>> => asked[Len(asked)] = "unsubscribe"
          /\ asked' # <<>> => asked'[Len(asked')] = asked[Len(asked)]
      BY <1>0, <3>1, AgReads
    <3> QED BY <1>0, <1>1, <1>2, <2>0, <3>1, <3>2
  <2>5. CASE A!Forward \/ A!Drain
    <3>1. /\ UNCHANGED <<connection, asked, reading, open>>
          /\ connection = "broken" \/ UNCHANGED forwarding
      BY <2>5 DEF A!Forward, A!Drain
    <3> QED BY <1>0, <1>1, <1>2, <2>0, <3>1
  <2>6. CASE A!CleanupOnDisconnect
    <3>1. connection' \in {"broken", "down"}
      BY <2>6, SettleDoes DEF A!CleanupOnDisconnect
    <3> QED BY <1>1, <1>2, <3>1
  <2> QED BY <1>3, <2>1, <2>2, <2>3, <2>4, <2>5, <2>6 DEF AgentLogWork
<1>4. ASSUME ~AgentLogWork
      PROVE  UNCHANGED <<reading, open, forwarding>>
  BY <1>4, AgentLogStill
<1>5. CASE A!Break \/ A!HandleAgentClose \/ A!Restart
  <2>1. connection' # "up" \/ stale' = TRUE
    BY <1>5, SettleDoes DEF A!Break, A!HandleAgentClose, A!Restart
  <2> QED BY <1>1, <1>2, <2>1
<1>6. CASE A!HandleAgentAuth
  <2>1. /\ connection = "down" /\ streaming' = TRUE /\ UNCHANGED stale
        /\ asked' = IF streaming THEN <<>> ELSE <<"subscribe">>
    BY <1>6 DEF A!HandleAgentAuth
  <2>2. ~stale => asked' # <<>> /\ asked'[Len(asked')] = "subscribe"
    BY <1>0, <2>1
  <2> QED BY <1>1, <1>2, <2>1, <2>2
<1>7. CASE A!Hibernate /\ ~AgentLogWork
  <2>1. UNCHANGED <<connection, asked, streaming, stale, sockets, viewers>>
    BY <1>7 DEF A!Hibernate
  <2>2. vs = A!Viewers
    BY <1>2, <2>1 DEF A!Viewers
  <2> QED BY <1>0, <1>1, <1>2, <1>4, <1>7, <2>1, <2>2
<1>8. CASE BrowserStep /\ ~AgentLogWork
  <2>1. /\ UNCHANGED connection /\ vs \subseteq A!Viewers
        /\ \/ UNCHANGED <<asked, streaming, stale>>
           \/ A!Send("unsubscribe") /\ streaming' = FALSE /\ stale' = FALSE /\ vs = {}
    BY <1>2, <1>8, BrowserDoes
  <2>2. CASE UNCHANGED <<asked, streaming, stale>>
    BY <1>0, <1>1, <1>2, <1>4, <1>8, <2>1, <2>2
  <2>3. CASE A!Send("unsubscribe") /\ streaming' = FALSE /\ stale' = FALSE /\ vs = {}
    <3>1. connection = "up" => asked' # <<>> /\ asked'[Len(asked')] = "unsubscribe"
      <4>1. "unsubscribe" \in AgCommand
        BY DEF AgCommand
      <4> QED BY <1>0, <2>3, <4>1, AgTold
    <3> QED BY <1>1, <1>2, <2>1, <2>3, <3>1
  <2> QED BY <2>1, <2>2, <2>3
<1>9. ASSUME NEW s \in Sockets, A!HandleAgentLogSubscribe(s)
      PROVE  Believed'
  <2>1. /\ UNCHANGED connection /\ A!Send("subscribe")
        /\ IF connection = "down" \/ "manager" \in noticed THEN UNCHANGED <<streaming, stale>>
           ELSE streaming' = TRUE /\ stale' = FALSE
    BY <1>9, WatchDoes
  <2>2. connection = "up" => asked' # <<>> /\ asked'[Len(asked')] = "subscribe"
    <3>1. "subscribe" \in AgCommand
      BY DEF AgCommand
    <3> QED BY <1>0, <2>1, <3>1, AgTold
  <2>3. connection = "up" => streaming' = TRUE
    BY <1>0, <2>1
  <2> QED BY <1>1, <1>2, <2>1, <2>2, <2>3
<1>10. CASE A!HandleAgentMessage /\ ~AgentLogWork
  <2>1. UNCHANGED <<connection, asked, streaming, stale, sockets>> /\ viewers' \subseteq viewers
    BY <1>10, ArrivalDoes
  <2>2. vs \subseteq A!Viewers
    BY <1>2, <2>1 DEF A!Viewers
  <2> QED BY <1>0, <1>1, <1>2, <1>4, <1>10, <2>1, <2>2
<1>11. CASE UNCHANGED A!agentLogVars
  BY <1>11 DEF Believed, A!Sending, A!Viewers, A!agentLogVars, A!agentVars, A!doVars
<1> QED BY <1>3, <1>5, <1>6, <1>7, <1>8, <1>9, <1>10, <1>11, AgentLogSteps

\* What is kept and what is shown stay alike.
LEMMA AgentLogAgreesKept ==
  ASSUME A!TypeOK, AgentLogAgrees, [A!AgentLogNext]_A!agentLogVars
  PROVE  AgentLogAgrees'
<1>0. /\ sockets \in [Sockets -> A!SocketStates] /\ viewers \subseteq Sockets /\ A!Viewers \subseteq Sockets
      /\ buffer \in Seq(1 .. MaxLine) /\ shown \in [Sockets -> Seq(1 .. MaxLine)]
      /\ \A s \in A!Viewers : SameEnds(buffer, shown[s])
  BY AgentLogTypes DEF AgentLogAgrees, A!Viewers
<1>1. ASSUME NEW vs, vs = A!Viewers', NEW kept, kept = buffer', NEW ss, ss = shown',
             \A s \in vs : SameEnds(kept, ss[s])
      PROVE  AgentLogAgrees'
  BY <1>1 DEF AgentLogAgrees, SameEnds, A!Viewers
<1>2. PICK vs : vs = A!Viewers'
  OBVIOUS
<1>3. ASSUME vs \subseteq A!Viewers, UNCHANGED <<buffer, shown>>
      PROVE  AgentLogAgrees'
  BY <1>0, <1>1, <1>2, <1>3
<1>4. ASSUME UNCHANGED <<sockets, viewers, buffer, shown>>
      PROVE  AgentLogAgrees'
  <2>1. vs = A!Viewers
    BY <1>2, <1>4 DEF A!Viewers
  <2> QED BY <1>3, <1>4, <2>1
<1>5. CASE AgentLogWork
  BY <1>4, <1>5, AgentLogWorks
<1>6. CASE A!Break \/ A!HandleAgentClose \/ A!HandleAgentAuth
  BY <1>4, <1>6 DEF A!Break, A!HandleAgentClose, A!HandleAgentAuth, A!doVars
<1>7. CASE A!Hibernate \/ A!Restart
  <2>1. buffer' = <<>> /\ UNCHANGED shown /\ vs \subseteq Sockets
    <3>1. buffer' = <<>> /\ UNCHANGED <<viewers, shown>>
      BY <1>7 DEF A!Hibernate, A!Restart
    <3> QED BY <1>0, <1>2, <3>1 DEF A!Viewers
  <2>2. PICK kept : kept = <<>>
    OBVIOUS
  <2>3. \A s \in vs : SameEnds(kept, shown[s])
    BY <1>0, <2>1, <2>2, EndsEmpty
  <2> QED BY <1>1, <1>2, <2>1, <2>2, <2>3
<1>8. CASE BrowserStep
  BY <1>2, <1>3, <1>8, BrowserDoes
<1>9. ASSUME NEW s \in Sockets, A!HandleAgentLogSubscribe(s)
      PROVE  AgentLogAgrees'
  <2>1. vs \subseteq A!Viewers \cup {s} /\ UNCHANGED buffer /\ shown' = [shown EXCEPT ![s] = buffer]
    BY <1>2, <1>9, WatchDoes
  <2>2. PICK ss : ss = [shown EXCEPT ![s] = buffer]
    OBVIOUS
  <2>3. ASSUME NEW t \in vs
        PROVE  SameEnds(buffer, ss[t])
    <3>1. CASE t = s
      <4>1. ss[t] = buffer
        BY <1>0, <2>2, <3>1
      <4> QED BY <4>1 DEF SameEnds
    <3>2. CASE t # s
      <4>1. ss[t] = shown[t] /\ t \in A!Viewers
        BY <1>0, <2>1, <2>2, <3>2
      <4> QED BY <1>0, <4>1
    <3> QED BY <3>1, <3>2
  <2> QED BY <1>1, <1>2, <2>1, <2>2, <2>3
<1>10. CASE A!HandleAgentMessage
  <2>1. /\ UNCHANGED sockets /\ viewers' \subseteq viewers
        /\ \/ \E line \in 1 .. MaxLine :
                /\ buffer' = A!Newest(Append(buffer, line))
                /\ shown' = [s \in Sockets |-> IF s \in A!Viewers THEN Append(shown[s], line) ELSE shown[s]]
           \/ \E lines \in Seq(1 .. MaxLine) :
                /\ buffer' = A!Newest(buffer \o lines)
                /\ shown' = [s \in Sockets |-> IF s \in A!Viewers THEN lines ELSE shown[s]]
    BY <1>10, ArrivalDoes
  <2>2. vs \subseteq A!Viewers
    BY <1>2, <2>1 DEF A!Viewers
  <2>3. ASSUME NEW line \in 1 .. MaxLine, buffer' = A!Newest(Append(buffer, line)),
               shown' = [s \in Sockets |-> IF s \in A!Viewers THEN Append(shown[s], line) ELSE shown[s]]
        PROVE  AgentLogAgrees'
    <3>1. PICK kept, ss : /\ kept = A!Newest(Append(buffer, line))
                          /\ ss = [s \in Sockets |-> IF s \in A!Viewers THEN Append(shown[s], line) ELSE shown[s]]
      OBVIOUS
    <3>2. ASSUME NEW t \in vs
          PROVE  SameEnds(kept, ss[t])
      <4>1. t \in A!Viewers /\ ss[t] = Append(shown[t], line) /\ shown[t] \in Seq(1 .. MaxLine)
        BY <1>0, <2>2, <3>1
      <4>2. SameEnds(Append(buffer, line), Append(shown[t], line))
        BY <1>0, <4>1, EndsAppend
      <4>3. Append(buffer, line) \in Seq(1 .. MaxLine) /\ Append(shown[t], line) \in Seq(1 .. MaxLine)
        BY <1>0, <4>1
      <4>4. SameEnds(A!Newest(Append(buffer, line)), Append(shown[t], line))
        BY <4>2, <4>3, NewestIs
      <4> QED BY <3>1, <4>1, <4>4
    <3>3. kept = buffer' /\ ss = shown'
      BY <2>3, <3>1
    <3> QED BY <1>1, <1>2, <3>2, <3>3
  <2>4. ASSUME NEW lines \in Seq(1 .. MaxLine), buffer' = A!Newest(buffer \o lines),
               shown' = [s \in Sockets |-> IF s \in A!Viewers THEN lines ELSE shown[s]]
        PROVE  AgentLogAgrees'
    <3>1. PICK kept, ss : /\ kept = A!Newest(buffer \o lines)
                          /\ ss = [s \in Sockets |-> IF s \in A!Viewers THEN lines ELSE shown[s]]
      OBVIOUS
    <3>2. SameEnds(buffer \o lines, lines) /\ buffer \o lines \in Seq(1 .. MaxLine)
      BY <1>0, EndsConcat, ConcatProperties
    <3>3. SameEnds(A!Newest(buffer \o lines), lines)
      BY <3>2, NewestIs
    <3>4. ASSUME NEW t \in vs
          PROVE  SameEnds(kept, ss[t])
      <4>1. ss[t] = lines
        BY <1>0, <2>2, <3>1
      <4> QED BY <3>1, <3>3, <4>1
    <3>5. kept = buffer' /\ ss = shown'
      BY <2>4, <3>1
    <3> QED BY <1>1, <1>2, <3>4, <3>5
  <2> QED BY <2>1, <2>3, <2>4
<1>11. CASE UNCHANGED A!agentLogVars
  BY <1>4, <1>11 DEF A!agentLogVars, A!doVars
<1> QED BY <1>5, <1>6, <1>7, <1>8, <1>9, <1>10, <1>11, AgentLogSteps

LEMMA AgentLogKept ==
  ASSUME AgentLogInv, [A!AgentLogNext]_A!agentLogVars
  PROVE  AgentLogInv'
BY AgentLogTyped, SentKept, LeftKept, SettledKept, BelievedKept, AgentLogAgreesKept DEF AgentLogInv

\* Nothing is watched at first, nor sent, nor asked.
LEMMA AgentLogStarts == A!AgentLogInit => AgentLogInv
<1> SUFFICES ASSUME A!AgentLogInit
             PROVE  AgentLogInv
  OBVIOUS
<1>1. /\ logged = 0 /\ reading = FALSE /\ history = <<>> /\ open = FALSE /\ channel = <<>>
      /\ forwarding = FALSE /\ leftover = {} /\ sent = 0
      /\ connection = "down" /\ noticed = {} /\ asked = <<>> /\ told = <<>>
      /\ streaming = FALSE /\ stale = FALSE /\ viewers = {} /\ buffer = <<>> /\ breaks = 0
      /\ sockets = [s \in Sockets |-> "unused"] /\ shown = [s \in Sockets |-> <<>>]
  BY DEF A!AgentLogInit
<1>2. MaxLine \in Nat /\ AgentKeep \in Nat \ {0} /\ Channel \in Nat \ {0} /\ Breaks \in Nat
  BY AgentLogTypes
<1>3. A!TypeOK
  <2>1. <<>> \in Seq(1 .. MaxLine) /\ Len(<<>>) <= AgentKeep /\ Len(<<>>) <= Channel
    BY <1>2, EmptySeq
  <2>2. /\ asked \in Seq({"subscribe", "unsubscribe"}) /\ told \in Seq(A!ToManager)
        /\ shown \in [Sockets -> Seq(1 .. MaxLine)] /\ sockets \in [Sockets -> A!SocketStates]
    BY <1>1, <2>1 DEF A!SocketStates
  <2>3. logged \in 0 .. MaxLine /\ sent \in 0 .. MaxLine /\ breaks \in 0 .. Breaks
    BY <1>1, <1>2
  <2>4. /\ history \in Seq(1 .. MaxLine) /\ Len(history) <= AgentKeep
        /\ channel \in Seq(1 .. MaxLine) /\ Len(channel) <= Channel
        /\ buffer \in Seq(1 .. MaxLine) /\ Len(buffer) <= AgentKeep
    BY <1>1, <2>1
  <2> QED BY <1>1, <2>2, <2>3, <2>4 DEF A!TypeOK, A!Lines, A!AtMost
<1>4. Sent /\ Left
  BY <1>1, NothingInOrder DEF Sent, Left
<1>5. Settled /\ Believed /\ AgentLogAgrees
  BY <1>1 DEF Settled, Believed, AgentLogAgrees, A!Viewers
<1> QED BY <1>3, <1>4, <1>5 DEF AgentLogInv

LEMMA IncreasingSays ==
  ASSUME NEW last \in 0 .. MaxLine, NEW lines \in Seq(1 .. MaxLine), NEW top, InOrder(last, lines, top)
  PROVE  A!Increasing(<<last>> \o lines)
<1>0. MaxLine \in Nat /\ Len(lines) \in Nat
  BY AgentLogTypes, LenProperties
<1>1. <<last>> \in Seq(Int) /\ lines \in Seq(Int) /\ Len(<<last>>) = 1 /\ <<last>>[1] = last
  BY <1>0, SeqMonotonic
<1>2. PICK all : all = <<last>> \o lines
  OBVIOUS
<1>3. /\ Len(all) = 1 + Len(lines)
      /\ \A i \in 1 .. 1 + Len(lines) : all[i] = IF i <= 1 THEN last ELSE lines[i - 1]
  <2>1. /\ Len(all) = Len(<<last>>) + Len(lines)
        /\ \A i \in 1 .. Len(<<last>>) + Len(lines) :
             all[i] = IF i <= Len(<<last>>) THEN <<last>>[i] ELSE lines[i - Len(<<last>>)]
    BY <1>1, <1>2, ConcatProperties
  <2>2. \A i \in 1 .. 1 + Len(lines) : i <= 1 => i = 1
    BY <1>0
  <2> QED BY <1>1, <2>1, <2>2
<1>4. ASSUME NEW i \in 1 .. Len(all), NEW j \in 1 .. Len(all), i < j
      PROVE  all[i] < all[j]
  <2>1. j - 1 \in 1 .. Len(lines) /\ all[j] = lines[j - 1]
    BY <1>0, <1>3, <1>4
  <2>2. CASE i = 1
    <3>1. all[i] = last
      BY <1>0, <1>3, <2>2
    <3> QED BY <2>1, <3>1 DEF InOrder
  <2>3. CASE i # 1
    <3>1. i - 1 \in 1 .. Len(lines) /\ all[i] = lines[i - 1] /\ i - 1 < j - 1
      BY <1>0, <1>3, <1>4, <2>3
    <3> QED BY <2>1, <3>1 DEF InOrder
  <2> QED BY <2>2, <2>3
<1>5. A!Increasing(all)
  BY <1>4 DEF A!Increasing
<1> QED BY <1>2, <1>5

LEMMA AgentLogSays ==
  AgentLogInv => A!TypeOK /\ A!FlagTrue /\ A!WatchedIsSent /\ A!SentOnce /\ A!AgentViewsAgree
<1> SUFFICES ASSUME AgentLogInv
             PROVE  A!TypeOK /\ A!FlagTrue /\ A!WatchedIsSent /\ A!SentOnce /\ A!AgentViewsAgree
  OBVIOUS
<1>0. /\ sent \in 0 .. MaxLine /\ history \in Seq(1 .. MaxLine) /\ channel \in Seq(1 .. MaxLine)
      /\ viewers \subseteq Sockets /\ buffer \in Seq(1 .. MaxLine) /\ shown \in [Sockets -> Seq(1 .. MaxLine)]
  BY AgentLogTypes DEF AgentLogInv
<1>1. A!FlagTrue /\ A!WatchedIsSent
  BY DEF AgentLogInv, Believed, A!FlagTrue, A!WatchedIsSent, A!Quiet
<1>2. A!SentOnce
  <2>1. InOrder(sent, history, logged) /\ InOrder(sent, channel, logged)
    BY DEF AgentLogInv, Sent
  <2>2. A!Increasing(<<sent>> \o history) /\ A!Increasing(<<sent>> \o channel)
    BY <1>0, <2>1, IncreasingSays
  <2>3. A!RepeatsAreOld
    BY DEF AgentLogInv, Left, A!RepeatsAreOld
  <2> QED BY <2>2, <2>3 DEF A!SentOnce, A!SentInOrder
<1>3. A!AgentViewsAgree
  <2>1. ASSUME NEW s \in A!Viewers, NEW n, n = IF Len(buffer) < Len(shown[s]) THEN Len(buffer) ELSE Len(shown[s])
        PROVE  SubSeq(buffer, Len(buffer) - n + 1, Len(buffer)) = SubSeq(shown[s], Len(shown[s]) - n + 1, Len(shown[s]))
    <3>1. shown[s] \in Seq(1 .. MaxLine) /\ SameEnds(buffer, shown[s])
      BY <1>0 DEF AgentLogInv, AgentLogAgrees, A!Viewers
    <3>2. n \in Nat /\ n <= Len(buffer) /\ n <= Len(shown[s])
      BY <1>0, <2>1, <3>1, LenProperties
    <3> QED BY <1>0, <3>1, <3>2, EndsSay
  <2> QED BY <2>1 DEF A!AgentViewsAgree
<1> QED BY <1>1, <1>2, <1>3 DEF AgentLogInv

-----------------------------------------------------------------------------
(* The connection, with all that goes on over it                           *)

LEMMA ConnectionUpdates == ConnectionSpec => Updating
<1>1. ConnectionInit => UpdatesInit
  BY DEF ConnectionInit
<1>2. [ConnectionNext]_vars => [UpdatesNext]_updateVars
  BY OnePart
<1> QED BY <1>1, <1>2, PTL DEF ConnectionSpec, Updating

LogsAndPart ==
  /\ part \in {"logs", "agentLog", "terminals", "shots", "updates"}
  /\ part = "logs" => LogsInv
  /\ part = "agentLog" => AgentLogInv

LEMMA LogsInvariant == ConnectionSpec => []LogsAndPart
<1>1. ConnectionInit => LogsAndPart
  BY LogsStart, AgentLogStarts DEF ConnectionInit, LogsAndPart, StreamsInv
<1>2. LogsAndPart /\ [ConnectionNext]_vars => LogsAndPart'
  BY OnePart, LogsKept, AgentLogKept DEF LogsAndPart
<1> QED BY <1>1, <1>2, PTL DEF ConnectionSpec

\* Whatever goes on over a connection, its state has its type: no message of one kind is taken
\* for another, no line is kept that was not written, and no buffer outgrows its bound.
THEOREM ConnectionTypesCorrect == ConnectionSpec => []ConnectionTypeOK
<1>0. TP!RconAssumption /\ OP!RconAssumption
  BY ConnectionAssumption, TerminalsSame, ShotsSame
<1>1. SessionsInv /\ LogsAndPart /\ TypeInv => ConnectionTypeOK
  <2> SUFFICES ASSUME SessionsInv, LogsAndPart, TypeInv
               PROVE  ConnectionTypeOK
    OBVIOUS
  <2>1. part = "terminals" => T!TypeOK
    BY TerminalsSame DEF SessionsInv, TP!RconInv
  <2>2. part = "shots" => O!TypeOK
    BY ShotsSame DEF SessionsInv, OP!RconInv
  <2>3. TypeOK
    BY DEF TypeInv, Typed, NoticeInv, Counted, Causes, Stored, TypeOK, Mail
  <2>4. (part = "logs" => L!TypeOK) /\ (part = "agentLog" => A!TypeOK)
    BY DEF LogsAndPart, LogsInv, AgentLogInv
  <2> QED BY <2>1, <2>2, <2>3, <2>4 DEF ConnectionTypeOK, LogsAndPart
<1> QED BY <1>1, SessionsInvariant, LogsInvariant, ConnectionUpdates, TypeInvariant, PTL

\* What a browser shows of a log, and what the Durable Object would show a newcomer, are the same
\* lines as far back as both go, however often it has forgotten its lines or the connection has
\* broken in between; and of the agent's own log a subscription sends no line twice and none out of
\* order, while what comes besides is left over from an earlier one and no newer than its history.
THEOREM ViewsAreAlike == ConnectionSpec => []ViewsAgree
<1>1. LogsAndPart => ViewsAgree
  BY LogsSay, AgentLogSays DEF LogsAndPart, ViewsAgree
<1> QED BY <1>1, LogsInvariant, PTL

StreamsAndPart == LogsAndPart /\ (part = "logs" => StreamsInv)

\* What an agent streams is what somebody watches, if a cancelled forwarder has ended before its
\* container is streamed anew: what LogSubscribe, LogUnsubscribe, the closes of browsers and
\* the broken connections do to the requests on their way never leaves the two apart for longer
\* than those requests take, but where LogStreams and AgentLog name it.
THEOREM StreamsAreFollowed ==
  ASSUME Prompt
  PROVE  ConnectionSpec => []StreamsFollowViewers
<1>1. ConnectionInit => StreamsAndPart
  BY LogsStart, AgentLogStarts DEF ConnectionInit, LogsAndPart, StreamsAndPart, StreamsInv
<1>2. StreamsAndPart /\ [ConnectionNext]_vars => StreamsAndPart'
  BY Prompt, OnePart, LogsKept, AgentLogKept, StreamsInvKept DEF LogsAndPart, StreamsAndPart
<1>3. StreamsAndPart => StreamsFollowViewers
  BY LogsSay, AgentLogSays DEF LogsAndPart, StreamsAndPart, StreamsFollowViewers
<1> QED BY <1>1, <1>2, <1>3, PTL DEF ConnectionSpec

\* Also beside all the rest, no recipient is told of an update that has not taken place, or twice.
THEOREM UpdatesAreToldHere == ConnectionSpec => []UpdatesTold
BY MailsInvariant, ConnectionUpdates, PTL
=============================================================================
