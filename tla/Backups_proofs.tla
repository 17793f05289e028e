--------------------------- MODULE Backups_proofs ---------------------------
(***************************************************************************)
(* What holds of Backups for any number of requests, any retention and any *)
(* faults that a theorem does not exclude: the types; that no world is     *)
(* lost; that a sync mirrors the disk, a backup is faithful and the server *)
(* never runs on half of one; that the oldest backup goes, and only if     *)
(* enough newer ones remain.                                               *)
(*                                                                         *)
(* WorldsKept is not inductive.  A rollback removes the data directory,   *)
(* so what it holds then must not be a world: WhileExtracting.  That rests *)
(* on there being one restore (OneRestore), and the renaming of the data   *)
(* directory on the name it gets being free: Fresh.  The other properties  *)
(* rest on what is new having no job and no metadata (NewBare), each with  *)
(* an invariant of its own: MirrorInv, PackInv, RunsInv and ShelfInv.      *)
(***************************************************************************)
EXTENDS Backups, FiniteSetTheorems, WellFoundedInduction, TLAPS

RequestOps == {"none", "create", "sync", "delete", "restore"}

\* A request that is given another record of the type.
LEMMA BecomeTyped ==
  ASSUME requests \in [Numbers -> Request], NEW n \in Numbers,
         NEW q \in Request, Become(n, q)
  PROVE  requests' \in [Numbers -> Request]
BY DEF Become

\* An empty slot is of the type of requests, and of jobs.
LEMMA BlanksTyped == Idle \in Request /\ NoJob \in Job
BY BoundsAssumption DEF Idle, Request, NoJob, Job, Numbers, Nothing, Contents

\* An answer leaves requests well typed.
LEMMA AnswerTyped ==
  ASSUME requests \in [Numbers -> Request], NEW n \in Numbers,
         NEW answer \in {"ok", "error"}
  PROVE  Answer(n, answer) \in [Numbers -> Request]
BY DEF Answer, Request

\* The end of a job leaves jobs and requests well typed.
LEMMA EndTyped ==
  ASSUME requests \in [Numbers -> Request], jobs \in [Numbers -> Job],
         NEW n \in Numbers, NEW answer \in {"ok", "error"}, End(n, answer)
  PROVE  requests' \in [Numbers -> Request] /\ jobs' \in [Numbers -> Job]
BY AnswerTyped, BlanksTyped DEF End

\* Spoiling the other jobs leaves jobs well typed, and where they are.
LEMMA SpoilTyped ==
  ASSUME jobs \in [Numbers -> Job], NEW n \in Numbers
  PROVE  /\ Spoil(n) \in [Numbers -> Job]
         /\ Spoil(n)[n] = jobs[n]
         /\ \A m \in Numbers : Spoil(n)[m].op = jobs[m].op /\ Spoil(n)[m].at = jobs[m].at
BY DEF Spoil, Job

\* A cardinality of backups is a number.
LEMMA CountTyped ==
  ASSUME NEW S \in SUBSET Numbers
  PROVE  Cardinality(S) \in Nat
<1>1. IsFiniteSet(Numbers)
  BY BoundsAssumption, FS_Interval DEF Numbers
<1>2. IsFiniteSet(S)
  BY <1>1, FS_Subset
<1> QED
  BY <1>2, FS_CardinalityType

\* A request that is received is of the type, and so is its table.
LEMMA ReceiveTyped ==
  ASSUME TypeOK, NEW op \in RequestOps, NEW i \in Numbers, Receive(op, i)
  PROVE  /\ received + 1 \in Numbers
         /\ received' \in 0 .. MaxRequests
         /\ requests' \in [Numbers -> Request]
<1> DEFINE q == [Idle EXCEPT !.op = op, !.backup = i, !.at = "ask"]
<1>1. received + 1 \in Numbers /\ received' \in 0 .. MaxRequests
  BY BoundsAssumption DEF Receive, TypeOK, Numbers
<1>2. q \in Request
  BY BlanksTyped DEF Request, RequestOps
<1> QED
  BY <1>1, <1>2, BecomeTyped DEF Receive, TypeOK

\* The type invariant is kept by every step of the Worker and the DO.
LEMMA ManagerTyped ==
  ASSUME TypeOK, Manager
  PROVE  TypeOK'
<1> USE DEF hostVars
<1>1. CASE BeginCreate
  <2>1. Receive("create", received + 1)
    BY <1>1 DEF BeginCreate
  <2>2. received + 1 \in Numbers
    BY <2>1, BoundsAssumption DEF Receive, TypeOK, Numbers
  <2>3. received' \in 0 .. MaxRequests /\ requests' \in [Numbers -> Request]
    BY <2>1, <2>2, ReceiveTyped DEF RequestOps
  <2>4. rows' \in [Numbers -> Statuses]
    BY <1>1, <2>2 DEF BeginCreate, TypeOK, Statuses
  <2> QED
    BY <2>1, <2>3, <2>4 DEF Receive, TypeOK
<1>2. CASE BeginSync
  <2>1. Receive("sync", 1) /\ 1 \in Numbers
    BY <1>2, BoundsAssumption DEF BeginSync, Numbers
  <2>2. received' \in 0 .. MaxRequests /\ requests' \in [Numbers -> Request]
    BY <2>1, ReceiveTyped DEF RequestOps
  <2> QED
    BY <1>2, <2>1, <2>2 DEF BeginSync, Receive, TypeOK
<1>3. ASSUME NEW i \in Numbers, BeginDelete(i) \/ BeginRestore(i)
      PROVE  TypeOK'
  <2>1. PICK op \in {"delete", "restore"} : Receive(op, i)
    BY <1>3 DEF BeginDelete, BeginRestore
  <2>2. received' \in 0 .. MaxRequests /\ requests' \in [Numbers -> Request]
    BY <2>1, ReceiveTyped DEF RequestOps
  <2> QED
    BY <1>3, <2>1, <2>2 DEF BeginDelete, BeginRestore, Receive, TypeOK
<1>4. ASSUME NEW n \in Numbers, Send(n)
      PROVE  TypeOK'
  <2>1. requests' \in [Numbers -> Request]
    BY <1>4 DEF Send, Become, TypeOK, Request
  <2>2. ASSUME Op(n) \in {"create", "restore"}
        PROVE  [NoJob EXCEPT !.op = Op(n), !.at = "begin", !.backup = requests[n].backup] \in Job
    BY <2>2, BlanksTyped DEF TypeOK, Job, Request
  <2>3. jobs' \in [Numbers -> Job]
    BY <1>4, <2>2 DEF Send, TypeOK
  <2> QED
    BY <1>4, <2>1, <2>3 DEF Send, TypeOK
<1>5. ASSUME NEW n \in Numbers, Lose(n)
      PROVE  TypeOK'
  <2>1. requests' \in [Numbers -> Request]
    <3>1. requests[n] \in Request /\ Complete \in SUBSET Numbers /\ Listed \in SUBSET Numbers
      BY DEF TypeOK, Complete, Listed
    <3>2. [requests[n] EXCEPT !.at = "wait", !.answer = "error"] \in Request
      BY <3>1 DEF Request
    <3> QED
      BY <1>5, <3>2, BecomeTyped DEF Lose, TypeOK
  <2> QED
    BY <1>5, <2>1 DEF Lose, TypeOK
<1>6. ASSUME NEW n \in Numbers, GiveUp(n)
      PROVE  TypeOK'
  BY <1>6, AnswerTyped DEF GiveUp, TypeOK
<1>7. ASSUME NEW n \in Numbers, Throw(n)
      PROVE  TypeOK'
  BY <1>7, BlanksTyped, BecomeTyped DEF Throw, Finish, TypeOK
<1>8. ASSUME NEW n \in Numbers, RestoreDone(n)
      PROVE  TypeOK'
  BY <1>8, BlanksTyped, BecomeTyped DEF RestoreDone, Finish, TypeOK
<1>9. ASSUME NEW n \in Numbers, SyncRefused(n)
      PROVE  TypeOK'
  BY <1>9, BlanksTyped, BecomeTyped DEF SyncRefused, Finish, TypeOK
<1>10. ASSUME NEW n \in Numbers, SyncDone(n)
      PROVE  TypeOK'
  BY <1>10, BlanksTyped, BecomeTyped DEF SyncDone, Finish, TypeOK
<1>11. ASSUME NEW n \in Numbers, CreateDone(n)
      PROVE  TypeOK'
  <2>1. requests' \in [Numbers -> Request]
    BY <1>11, BlanksTyped, BecomeTyped DEF CreateDone, Finish, TypeOK
  <2>2. rows' \in [Numbers -> Statuses]
    BY <1>11 DEF CreateDone, SetStatus, TypeOK, Statuses
  <2> QED
    BY <1>11, <2>1, <2>2 DEF CreateDone, TypeOK
<1>12. ASSUME NEW n \in Numbers, DeleteDone(n)
      PROVE  TypeOK'
  <2>1. requests' \in [Numbers -> Request]
    BY <1>12, BlanksTyped, BecomeTyped DEF DeleteDone, Finish, TypeOK
  <2>2. rows' \in [Numbers -> Statuses]
    BY <1>12 DEF DeleteDone, SetStatus, TypeOK, Statuses
  <2> QED
    BY <1>12, <2>1, <2>2 DEF DeleteDone, TypeOK
<1>13. ASSUME NEW n \in Numbers, SyncRead(n)
      PROVE  TypeOK'
  <2>1. requests' \in [Numbers -> Request]
    <3> DEFINE todo == requests[n].todo \ Complete
               gone == Complete \ requests[n].todo
    <3>1. requests[n] \in Request /\ todo \in SUBSET Numbers /\ gone \in SUBSET Numbers
      BY DEF TypeOK, Complete, Request
    <3>2. [requests[n] EXCEPT !.at = "insert", !.todo = todo, !.gone = gone] \in Request
      BY <3>1 DEF Request
    <3>3. Become(n, [requests[n] EXCEPT !.at = "insert", !.todo = todo, !.gone = gone])
      BY <1>13 DEF SyncRead
    <3> HIDE DEF todo, gone
    <3> QED
      BY <3>2, <3>3, BecomeTyped DEF TypeOK
  <2> QED
    BY <1>13, <2>1 DEF SyncRead, TypeOK
<1>14. ASSUME NEW n \in Numbers, SyncInserted(n)
      PROVE  TypeOK'
  <2>1. requests' \in [Numbers -> Request]
    <3>1. requests[n] \in Request /\ Complete \in SUBSET Numbers /\ Listed \in SUBSET Numbers
      BY DEF TypeOK, Complete, Listed
    <3>2. [requests[n] EXCEPT !.at = "prune"] \in Request
      BY <3>1 DEF Request
    <3> QED
      BY <1>14, <3>2, BecomeTyped DEF SyncInserted, TypeOK
  <2> QED
    BY <1>14, <2>1 DEF SyncInserted, TypeOK
<1>15. ASSUME NEW n \in Numbers, NEW i \in Numbers, SyncInsert(n, i)
      PROVE  TypeOK'
  <2>1. requests' \in [Numbers -> Request]
    <3>1. [requests[n] EXCEPT !.todo = @ \ {i}] \in Request
      BY DEF TypeOK, Request
    <3> QED
      BY <1>15, <3>1, BlanksTyped, BecomeTyped DEF SyncInsert, Finish, TypeOK
  <2>2. rows' \in [Numbers -> Statuses]
    BY <1>15 DEF SyncInsert, TypeOK, Statuses
  <2> QED
    BY <1>15, <2>1, <2>2 DEF SyncInsert, TypeOK
<1>16. ASSUME NEW n \in Numbers, NEW i \in Numbers, SyncPrune(n, i)
      PROVE  TypeOK'
  <2>1. requests' \in [Numbers -> Request]
    <3>1. [requests[n] EXCEPT !.gone = @ \ {i}] \in Request
      BY DEF TypeOK, Request
    <3> QED
      BY <1>16, <3>1, BecomeTyped DEF SyncPrune, TypeOK
  <2>2. rows' \in [Numbers -> Statuses]
    BY <1>16 DEF SyncPrune, SetStatus, TypeOK, Statuses
  <2> QED
    BY <1>16, <2>1, <2>2 DEF SyncPrune, TypeOK
<1> QED
  BY <1>1, <1>2, <1>3, <1>4, <1>5, <1>6, <1>7, <1>8, <1>9, <1>10, <1>11, <1>12, <1>13, <1>14, <1>15, <1>16 DEF Manager

\* The type invariant is kept by every step of the agent.
LEMMA AgentTyped ==
  ASSUME TypeOK, Agent
  PROVE  TypeOK'
<1> USE DEF hostVars
<1>1. ASSUME NEW n \in Numbers, AgentList(n)
      PROVE  TypeOK'
  <2>1. requests' \in [Numbers -> Request]
    <3>1. requests[n] \in Request /\ Complete \in SUBSET Numbers /\ Listed \in SUBSET Numbers
      BY DEF TypeOK, Complete, Listed
    <3>2. [requests[n] EXCEPT !.answer = "ok", !.todo = Listed] \in Request
      BY <3>1 DEF Request
    <3> QED
      BY <1>1, <3>2, BecomeTyped DEF AgentList, TypeOK
  <2> QED
    BY <1>1, <2>1 DEF AgentList, TypeOK
<1>2. ASSUME NEW n \in Numbers, CreateBegin(n)
      PROVE  TypeOK'
  <2>1. CASE dirs[Data] = Nothing
    BY <1>2, <2>1, EndTyped DEF CreateBegin, TypeOK
  <2>2. CASE dirs[Data] # Nothing
    <3>1. jobs' \in [Numbers -> Job]
      <4>0. jobs[n] \in Job /\ dirs[Data] \in Contents /\ Alone(n) \in BOOLEAN
        BY SpoilTyped DEF TypeOK, Dirs, Alone
      <4>1. [jobs[n] EXCEPT !.at = "pack", !.holds = dirs[Data]] \in Job
        BY <4>0 DEF Job
      <4>2. jobs' = [jobs EXCEPT ![n] = [jobs[n] EXCEPT !.at = "pack", !.holds = dirs[Data]]]
        BY <1>2, <2>2 DEF CreateBegin, TypeOK
      <4> QED
        BY <4>1, <4>2, SpoilTyped DEF TypeOK
    <3>2. archives' \in [Numbers -> Contents]
      BY <1>2, <2>2 DEF CreateBegin, TypeOK, Contents, Part
    <3> QED
      BY <1>2, <2>2, <3>1, <3>2 DEF CreateBegin, TypeOK
  <2> QED
    BY <2>1, <2>2
<1>3. ASSUME NEW n \in Numbers, CreatePack(n)
      PROVE  TypeOK'
  <2>1. jobs' \in [Numbers -> Job]
    BY <1>3 DEF CreatePack, Go, TypeOK, Job
  <2>2. archives' \in [Numbers -> Contents]
    BY <1>3 DEF CreatePack, TypeOK, Job, Contents, Part, Torn
  <2> QED
    BY <1>3, <2>1, <2>2 DEF CreatePack, TypeOK
<1>4. ASSUME NEW n \in Numbers, CreateFail(n)
      PROVE  TypeOK'
  <2>1. archives' \in [Numbers -> Contents]
    BY <1>4 DEF CreateFail, TypeOK, Contents, Nothing
  <2> QED
    BY <1>4, <2>1, EndTyped DEF CreateFail, TypeOK
<1>5. ASSUME NEW n \in Numbers, CreateMeta(n)
      PROVE  TypeOK'
  <2>1. jobs' \in [Numbers -> Job]
    BY <1>5 DEF CreateMeta, Go, TypeOK, Job
  <2>2. createdAt' \in [Numbers -> Nat]
    <3>1. Cardinality({i \in Numbers : createdAt[i] # 0}) \in Nat
      BY CountTyped
    <3> QED
      BY <1>5, <3>1 DEF CreateMeta, TypeOK
  <2> QED
    BY <1>5, <2>1, <2>2 DEF CreateMeta, TypeOK
<1>6. ASSUME NEW n \in Numbers, CreatePrune(n)
      PROVE  TypeOK'
  <2>1. archives' \in [Numbers -> Contents]
    BY <1>6 DEF CreatePrune, TypeOK, Contents, Nothing
  <2> QED
    BY <1>6, <2>1, EndTyped DEF CreatePrune, TypeOK
<1>7. ASSUME NEW n \in Numbers, RestoreBegin(n)
      PROVE  TypeOK'
  <2>1. requests' \in [Numbers -> Request] /\ jobs' \in [Numbers -> Job]
    BY <1>7, EndTyped DEF RestoreBegin, Go, TypeOK, Job
  <2>2. up' \in BOOLEAN
    BY <1>7 DEF RestoreBegin, TypeOK
  <2>3. mount' \in Dirs
    BY <1>7 DEF RestoreBegin, TypeOK, Dirs
  <2> QED
    BY <1>7, <2>1, <2>2, <2>3 DEF RestoreBegin, TypeOK
<1>8. ASSUME NEW n \in Numbers, RestoreMove(n)
      PROVE  TypeOK'
  <2>1. archives[jobs[n].backup] \in Contents
    BY DEF TypeOK, Job
  <2>2. jobs' \in [Numbers -> Job]
    <3>0. Spoil(n)[n] \in Job /\ dirs[Data] \in Contents /\ Alone(n) \in BOOLEAN
      BY SpoilTyped DEF TypeOK, Dirs, Alone
    <3>1. [Spoil(n)[n] EXCEPT !.at = "extract",
            !.holds = archives[jobs[n].backup], !.clean = Alone(n)] \in Job
      BY <2>1, <3>0 DEF Job
    <3>2. jobs' = [Spoil(n) EXCEPT ![n] = [Spoil(n)[n] EXCEPT !.at = "extract",
            !.holds = archives[jobs[n].backup], !.clean = Alone(n)]]
      BY <1>8, <2>1, SpoilTyped DEF RestoreMove, TypeOK
    <3> QED
      BY <3>1, <3>2, SpoilTyped DEF TypeOK
  <2>3. dirs' \in [Dirs -> Contents]
    BY <1>8 DEF RestoreMove, TypeOK, Dirs, Contents, Nothing, Part
  <2>4. mount' \in Dirs
    BY <1>8 DEF RestoreMove, TypeOK, Dirs
  <2> QED
    BY <1>8, <2>2, <2>3, <2>4 DEF RestoreMove, TypeOK
<1>9. ASSUME NEW n \in Numbers, RestoreMoveFail(n)
      PROVE  TypeOK'
  <2>1. jobs' \in [Numbers -> Job]
    <3>0. jobs[n] \in Job /\ dirs[Data] \in Contents /\ Alone(n) \in BOOLEAN
      BY SpoilTyped DEF TypeOK, Dirs, Alone
    <3>1. [jobs[n] EXCEPT !.at = "boot", !.ok = FALSE] \in Job
      BY <3>0 DEF Job
    <3>2. jobs' = [jobs EXCEPT ![n] = [jobs[n] EXCEPT !.at = "boot", !.ok = FALSE]]
      BY <1>9 DEF RestoreMoveFail, TypeOK
    <3> QED
      BY <3>1, <3>2, SpoilTyped DEF TypeOK
  <2> QED
    BY <1>9, <2>1 DEF RestoreMoveFail, TypeOK
<1>10. ASSUME NEW n \in Numbers, RestoreExtract(n)
      PROVE  TypeOK'
  <2>1. jobs' \in [Numbers -> Job]
    <3>0. Spoil(n)[n] \in Job /\ dirs[Data] \in Contents /\ Alone(n) \in BOOLEAN
      BY SpoilTyped DEF TypeOK, Dirs, Alone
    <3>1. [Spoil(n)[n] EXCEPT !.at = "boot"] \in Job
      BY <3>0 DEF Job
    <3>2. jobs' = [Spoil(n) EXCEPT ![n] = [Spoil(n)[n] EXCEPT !.at = "boot"]]
      BY <1>10, SpoilTyped DEF RestoreExtract, TypeOK
    <3> QED
      BY <3>1, <3>2, SpoilTyped DEF TypeOK
  <2>2. dirs' \in [Dirs -> Contents] /\ worlds' \in Nat
    BY <1>10 DEF RestoreExtract, TypeOK, Contents, Part, World
  <2> QED
    BY <1>10, <2>1, <2>2 DEF RestoreExtract, TypeOK
<1>11. ASSUME NEW n \in Numbers, RestoreFail(n)
      PROVE  TypeOK'
  <2>1. jobs' \in [Numbers -> Job]
    <3>0. Spoil(n)[n] \in Job /\ dirs[Data] \in Contents /\ Alone(n) \in BOOLEAN
      BY SpoilTyped DEF TypeOK, Dirs, Alone
    <3>1. [Spoil(n)[n] EXCEPT !.at = "boot", !.ok = FALSE] \in Job
      BY <3>0 DEF Job
    <3>2. jobs' = [Spoil(n) EXCEPT ![n] = [Spoil(n)[n] EXCEPT !.at = "boot", !.ok = FALSE]]
      BY <1>11, SpoilTyped DEF RestoreFail, TypeOK
    <3> QED
      BY <3>1, <3>2, SpoilTyped DEF TypeOK
  <2>2. dirs' \in [Dirs -> Contents]
    BY <1>11 DEF RestoreFail, TypeOK, Contents, Nothing, Dirs
  <2>3. mount' \in Dirs
    BY <1>11 DEF RestoreFail, TypeOK, Dirs, Data
  <2> QED
    BY <1>11, <2>1, <2>2, <2>3 DEF RestoreFail, TypeOK
<1>12. ASSUME NEW n \in Numbers, RestoreBoot(n)
      PROVE  TypeOK'
  <2>1. requests' \in [Numbers -> Request] /\ jobs' \in [Numbers -> Job]
    BY <1>12, EndTyped DEF RestoreBoot, TypeOK
  <2>2. up' \in BOOLEAN
    BY <1>12 DEF RestoreBoot, TypeOK
  <2> QED
    BY <1>12, <2>1, <2>2 DEF RestoreBoot, TypeOK
<1>13. CASE Crash
  BY <1>13, BlanksTyped DEF Crash, TypeOK
<1>14. CASE Power
  BY <1>14 DEF Power, TypeOK, Dirs, Data
<1> QED
  BY <1>1, <1>2, <1>3, <1>4, <1>5, <1>6, <1>7, <1>8, <1>9, <1>10, <1>11, <1>12, <1>13, <1>14 DEF Agent

\* The initial states and the steps of Next, stuttering included, are well typed.
LEMMA InitTyped == Init => TypeOK
BY BoundsAssumption, BlanksTyped
DEF Init, TypeOK, Statuses, Contents, Nothing, World, Dirs, Data, Numbers

LEMMA NextTyped == TypeOK /\ [Next]_vars => TypeOK'
<1> SUFFICES ASSUME TypeOK, [Next]_vars PROVE TypeOK'
  OBVIOUS
<1>1. CASE Next
  BY <1>1, ManagerTyped, AgentTyped DEF Next
<1>2. CASE UNCHANGED vars
  BY <1>2 DEF vars, TypeOK
<1> QED
  BY <1>1, <1>2

\* Every variable keeps its type (Backups, all of it).
THEOREM TypeCorrect == Spec => []TypeOK
BY InitTyped, NextTyped, PTL DEF Spec

-----------------------------------------------------------------------------
(***************************************************************************)
(* No world is lost.                                                       *)
(***************************************************************************)

Restores(n) == Op(n) = "restore" \/ jobs[n].op = "restore"

\* There is one restore at a time.
OneRestore == \A n, m \in Numbers : Restores(n) /\ Restores(m) => n = m

\* A restore that has not moved the data directory has put nothing aside.
Unmoved(n) ==
  \/ n > received
  \/ At(n, "ask")
  \/ jobs[n].op = "restore" /\ jobs[n].at \in {"begin", "move"}
Fresh ==
  \A n \in Numbers :
    /\ n > received => Op(n) = "none"
    /\ n > received \/ At(n, "ask") => jobs[n].op = "none"
    /\ Unmoved(n) => dirs[n] = Nothing

\* While a restore extracts, the data directory does not hold a world.
WhileExtracting == \A n \in Numbers : JobAt(n, "restore", "extract") => ~Whole(dirs[Data])

KeptInv == TypeOK /\ OneRestore /\ Fresh /\ WhileExtracting /\ WorldsKept

\* What most steps do to requests, jobs and directories: a request keeps its
\* operation or ends and is not asked again, a job goes on or ends without
\* extracting, and the directories are left alone.
RequestSettles(n) ==
  requests'[n] = requests[n] \/ (requests'[n].op \in {Op(n), "none"} /\ requests'[n].at # "ask")
JobSettles(n) ==
  \/ jobs'[n] = jobs[n]
  \/ /\ jobs'[n].op \in {jobs[n].op, "none"}
     /\ jobs'[n].at \notin {"begin", "extract"}
     /\ jobs'[n].at = "move" => jobs[n].at = "begin"
Settles ==
  /\ UNCHANGED <<dirs, worlds, received>>
  /\ \A n \in Numbers : RequestSettles(n) /\ JobSettles(n)

\* A step of that kind keeps the invariant.
LEMMA SettlesKept ==
  ASSUME KeptInv, Settles, TypeOK'
  PROVE  KeptInv'
<1>1. OneRestore'
  BY DEF KeptInv, Settles, OneRestore, Restores, RequestSettles, JobSettles, Op
<1>2. Fresh'
  BY DEF KeptInv, Settles, Fresh, Unmoved, RequestSettles, JobSettles, Op, At
<1>3. WhileExtracting'
  BY DEF KeptInv, Settles, WhileExtracting, JobSettles, JobAt, Whole
<1>4. WorldsKept'
  BY DEF KeptInv, Settles, WorldsKept
<1> QED
  BY <1>1, <1>2, <1>3, <1>4 DEF KeptInv

\* The pieces of which such steps are made.
LEMMA BecomeSettles ==
  ASSUME TypeOK, NEW n \in Numbers, NEW q, Become(n, q),
         q.op \in {Op(n), "none"}, q.at # "ask", UNCHANGED jobs
  PROVE  \A m \in Numbers : RequestSettles(m) /\ JobSettles(m)
BY DEF TypeOK, Become, RequestSettles, JobSettles, Op

LEMMA FinishSettles ==
  ASSUME TypeOK, NEW n \in Numbers, Finish(n), UNCHANGED jobs
  PROVE  \A m \in Numbers : RequestSettles(m) /\ JobSettles(m)
BY BecomeSettles DEF Finish, Idle

LEMMA AnswerSettles ==
  ASSUME TypeOK, NEW n \in Numbers, NEW answer, requests' = Answer(n, answer)
  PROVE  \A m \in Numbers : RequestSettles(m)
<1>1. CASE Waits(n)
  <2>1. requests' = [requests EXCEPT ![n] = [requests[n] EXCEPT !.answer = answer]]
    BY <1>1 DEF Answer
  <2>2. requests[n] \in Request
    BY DEF TypeOK
  <2>3. requests'[n].op = Op(n) /\ requests'[n].at = "wait"
    BY <1>1, <2>1, <2>2 DEF TypeOK, Request, Op, Waits, At
  <2> QED
    BY <2>1, <2>3 DEF TypeOK, RequestSettles
<1>2. CASE ~Waits(n)
  BY <1>2 DEF Answer, RequestSettles
<1> QED
  BY <1>1, <1>2

LEMMA EndSettles ==
  ASSUME TypeOK, NEW n \in Numbers, NEW answer, End(n, answer)
  PROVE  \A m \in Numbers : RequestSettles(m) /\ JobSettles(m)
<1>1. \A m \in Numbers : RequestSettles(m)
  BY AnswerSettles DEF End
<1>2. \A m \in Numbers : JobSettles(m)
  BY DEF End, TypeOK, JobSettles, NoJob
<1> QED
  BY <1>1, <1>2

LEMMA JobSettled ==
  ASSUME TypeOK, NEW n \in Numbers, NEW j, jobs' = [jobs EXCEPT ![n] = j],
         j.op = jobs[n].op, j.at \notin {"begin", "extract"},
         j.at = "move" => jobs[n].at = "begin", UNCHANGED requests
  PROVE  \A m \in Numbers : RequestSettles(m) /\ JobSettles(m)
BY DEF TypeOK, JobSettles, RequestSettles

\* A request begins: its number is new, and a restore begins only where none is in
\* progress.
LEMMA BeginKept ==
  ASSUME Overlap # "free", KeptInv, TypeOK', NEW op \in RequestOps \ {"none"},
         NEW i \in Numbers, Receive(op, i)
  PROVE  KeptInv'
<1> USE DEF KeptInv
<1>0. received + 1 \in Numbers
  BY ReceiveTyped
<1> PICK new \in Numbers : new = received + 1
  BY <1>0
<1>1. /\ new \in Numbers /\ new > received /\ received' = new
      /\ \A m \in Numbers : m > received' => m > received /\ m # new
  <2>1. new \in Numbers /\ received' = new
    BY ReceiveTyped DEF Receive
  <2>2. received \in Nat /\ Numbers \subseteq Nat
    BY DEF TypeOK, Numbers
  <2> QED
    BY <2>1, <2>2
<1>2. /\ \A m \in Numbers \ {new} : requests'[m] = requests[m]
      /\ requests'[new].op = op
      /\ UNCHANGED <<jobs, dirs, worlds>>
  <2> DEFINE q == [Idle EXCEPT !.op = op, !.backup = i, !.at = "ask"]
  <2>1. Become(new, q) /\ UNCHANGED <<jobs, dirs, worlds>>
    BY DEF Receive, hostVars
  <2>2. q.op = op
    BY DEF Idle
  <2>3. new \in Numbers /\ requests \in [Numbers -> Request]
    BY <1>1 DEF TypeOK
  <2> HIDE DEF q
  <2> QED
    BY <2>1, <2>2, <2>3 DEF Become, Op
<1>3. Op(new) = "none" /\ jobs[new].op = "none" /\ dirs[new] = Nothing
  BY <1>1 DEF Fresh, Unmoved
<1>4. OneRestore'
  <2>1. CASE op = "restore"
    <3>1. \A m \in Numbers : ~Restores(m)
      BY <2>1 DEF Receive, MayBegin, InProgress, Conflicting, Restores
    <3>2. \A m \in Numbers : Restores(m)' => m = new
      BY <1>2, <3>1 DEF Restores, Op
    <3> QED
      BY <3>2 DEF OneRestore
  <2>2. CASE op # "restore"
    <3>1. ASSUME NEW m \in Numbers, Restores(m)'
          PROVE  Restores(m)
      <4>1. m # new
        BY <1>2, <1>3, <2>2, <3>1 DEF Restores, Op
      <4> QED
        BY <1>2, <3>1, <4>1 DEF Restores, Op
    <3> QED
      BY <3>1 DEF OneRestore
  <2> QED
    BY <2>1, <2>2
<1>5. Fresh'
  <2> SUFFICES ASSUME NEW m \in Numbers
               PROVE  /\ m > received' => Op(m)' = "none"
                      /\ m > received' \/ At(m, "ask")' => jobs'[m].op = "none"
                      /\ Unmoved(m)' => dirs'[m] = Nothing
    BY DEF Fresh
  <2>1. CASE m = new
    BY <1>1, <1>2, <1>3, <2>1
  <2>2. CASE m # new
    BY <1>1, <1>2, <2>2 DEF Fresh, Unmoved, Op, At
  <2> QED
    BY <2>1, <2>2
<1>6. WhileExtracting' /\ WorldsKept'
  BY <1>2 DEF WhileExtracting, WorldsKept, JobAt
<1> QED
  BY <1>4, <1>5, <1>6

\* A question is sent: a restore's job begins where its request was.
LEMMA SendKept ==
  ASSUME KeptInv, TypeOK', NEW n \in Numbers, Send(n)
  PROVE  KeptInv'
<1> USE DEF KeptInv
<1>1. /\ \A m \in Numbers \ {n} : requests'[m] = requests[m] /\ jobs'[m] = jobs[m]
      /\ requests'[n].op = Op(n) /\ requests'[n].at = "wait"
      /\ jobs'[n].op = "none" \/ (jobs'[n].op = Op(n) /\ jobs'[n].at = "begin")
      /\ At(n, "ask") /\ UNCHANGED <<dirs, worlds, received>>
  <2> DEFINE j == [NoJob EXCEPT !.op = Op(n), !.at = "begin", !.backup = requests[n].backup]
  <2>0. /\ \A m \in Numbers \ {n} : requests'[m] = requests[m]
        /\ requests'[n].op = Op(n) /\ requests'[n].at = "wait"
        /\ At(n, "ask") /\ UNCHANGED <<dirs, worlds, received>>
    <3>1. requests[n] \in Request
      BY DEF TypeOK
    <3> QED
      BY <3>1 DEF Send, Become, TypeOK, Request, Op, hostVars
  <2>1. CASE Op(n) \in {"create", "restore"}
    <3>1. jobs' = [jobs EXCEPT ![n] = j]
      BY <2>1 DEF Send
    <3>2. j.op = Op(n) /\ j.at = "begin"
      BY DEF NoJob
    <3> HIDE DEF j
    <3> QED
      <4>1. jobs'[n] = j /\ \A m \in Numbers \ {n} : jobs'[m] = jobs[m]
        BY <3>1 DEF TypeOK
      <4>2. jobs'[n].op = "none" \/ (jobs'[n].op = Op(n) /\ jobs'[n].at = "begin")
        BY <3>2, <4>1
      <4> QED
        BY <2>0, <4>1, <4>2
  <2>2. CASE Op(n) \notin {"create", "restore"}
    <3>1. jobs[n].op = "none" /\ jobs' = jobs
      BY <2>2 DEF Send, Fresh
    <3> QED
      BY <2>0, <2>2, <3>1 DEF Send, TypeOK
  <2> QED
    BY <2>1, <2>2
<1>2. Op(n)' = Op(n) /\ ~At(n, "ask")'
  BY <1>1 DEF Op, At
<1>3. jobs[n].op = "none" /\ dirs[n] = Nothing
  BY <1>1 DEF Fresh, Unmoved
<1>4. OneRestore'
  <2>1. \A m \in Numbers : Restores(m)' => Restores(m)
    BY <1>1, <1>2 DEF Restores, Op
  <2> QED
    BY <2>1 DEF OneRestore
<1>5. Fresh'
  BY <1>1, <1>2, <1>3 DEF Fresh, Unmoved, Op, At
<1>6. WhileExtracting' /\ WorldsKept'
  BY <1>1 DEF WhileExtracting, WorldsKept, JobAt
<1> QED
  BY <1>4, <1>5, <1>6

\* The steps of the Worker and the DO after the question has been asked.
Goes(n) ==
  \/ Lose(n) \/ GiveUp(n) \/ Throw(n)
  \/ CreateDone(n) \/ DeleteDone(n) \/ RestoreDone(n)
  \/ SyncRefused(n) \/ SyncRead(n) \/ SyncInserted(n) \/ SyncDone(n)
  \/ \E i \in Numbers : SyncInsert(n, i) \/ SyncPrune(n, i)

\* They leave the host and the jobs alone, and no request is asked again.
LEMMA GoesSettles ==
  ASSUME TypeOK, NEW n \in Numbers, Goes(n)
  PROVE  /\ UNCHANGED <<hostVars, jobs, received>>
         /\ \A m \in Numbers : RequestSettles(m)
<1>0. UNCHANGED <<hostVars, jobs, received>>
  BY DEF Goes, Lose, GiveUp, Throw, CreateDone, DeleteDone, RestoreDone, SyncRefused, SyncRead,
         SyncInserted, SyncDone, SyncInsert, SyncPrune
<1>1. requests[n] \in Request
  BY DEF TypeOK
<1>2. CASE Finish(n)
  BY <1>0, <1>2, FinishSettles
<1>3. CASE GiveUp(n)
  BY <1>3, AnswerSettles DEF GiveUp
<1>4. ASSUME NEW q, Become(n, q), q.op = Op(n), q.at # "ask"
      PROVE  \A m \in Numbers : RequestSettles(m)
  BY <1>0, <1>4, BecomeSettles
<1>5. CASE Lose(n)
  <2> DEFINE q == [requests[n] EXCEPT !.at = "wait", !.answer = "error"]
  <2>1. Become(n, q) /\ q.op = Op(n) /\ q.at # "ask"
    BY <1>1, <1>5 DEF Lose, Request, Op
  <2> HIDE DEF q
  <2> QED
    BY <1>0, <1>4, <2>1
<1>6. CASE SyncRead(n)
  <2> DEFINE q == [requests[n] EXCEPT !.at = "insert", !.todo = @ \ Complete,
                                      !.gone = Complete \ requests[n].todo]
  <2>1. Become(n, q) /\ q.op = Op(n) /\ q.at # "ask"
    BY <1>1, <1>6 DEF SyncRead, Request, Op
  <2> HIDE DEF q
  <2> QED
    BY <1>0, <1>4, <2>1
<1>7. CASE SyncInserted(n)
  <2> DEFINE q == [requests[n] EXCEPT !.at = "prune"]
  <2>1. Become(n, q) /\ q.op = Op(n) /\ q.at # "ask"
    BY <1>1, <1>7 DEF SyncInserted, Request, Op
  <2> HIDE DEF q
  <2> QED
    BY <1>0, <1>4, <2>1
<1>8. ASSUME NEW i \in Numbers, SyncInsert(n, i), ~InTable(i)
      PROVE  \A m \in Numbers : RequestSettles(m)
  <2> DEFINE q == [requests[n] EXCEPT !.todo = @ \ {i}]
  <2>1. Become(n, q) /\ q.op = Op(n) /\ q.at # "ask"
    BY <1>1, <1>8 DEF SyncInsert, Request, Op, At
  <2> HIDE DEF q
  <2> QED
    BY <1>0, <1>4, <2>1
<1>9. ASSUME NEW i \in Numbers, SyncPrune(n, i)
      PROVE  \A m \in Numbers : RequestSettles(m)
  <2> DEFINE q == [requests[n] EXCEPT !.gone = @ \ {i}]
  <2>1. Become(n, q) /\ q.op = Op(n) /\ q.at # "ask"
    BY <1>1, <1>9 DEF SyncPrune, Request, Op, At
  <2> HIDE DEF q
  <2> QED
    BY <1>0, <1>4, <2>1
<1> QED
  BY <1>0, <1>2, <1>3, <1>5, <1>6, <1>7, <1>8, <1>9
  DEF Goes, Throw, CreateDone, DeleteDone, RestoreDone, SyncRefused, SyncDone, SyncInsert

\* A step of the Worker and the DO receives a request, sends a question or goes on.
LEMMA ManagerSteps ==
  ASSUME TypeOK, Manager
  PROVE  \/ \E op \in RequestOps \ {"none"}, i \in Numbers : Receive(op, i)
         \/ \E n \in Numbers : Send(n) \/ Goes(n)
<1>1. CASE BeginCreate
  <2>1. received + 1 \in Numbers /\ Receive("create", received + 1)
    BY <1>1, BoundsAssumption DEF BeginCreate, Receive, TypeOK, Numbers
  <2> QED
    BY <2>1 DEF RequestOps
<1>2. CASE BeginSync
  <2>1. 1 \in Numbers /\ Receive("sync", 1)
    BY <1>2, BoundsAssumption DEF BeginSync, Numbers
  <2> QED
    BY <2>1 DEF RequestOps
<1>3. ASSUME NEW i \in Numbers, BeginDelete(i) \/ BeginRestore(i)
      PROVE  \E op \in RequestOps \ {"none"} : Receive(op, i)
  BY <1>3 DEF BeginDelete, BeginRestore, RequestOps
<1> QED
  BY <1>1, <1>2, <1>3 DEF Manager, Goes

\* The invariant is kept by every step of the Worker and the DO.
LEMMA ManagerKept ==
  ASSUME Overlap # "free", KeptInv, Manager, TypeOK'
  PROVE  KeptInv'
<1>0. TypeOK
  BY DEF KeptInv
<1>1. ASSUME NEW op \in RequestOps \ {"none"}, NEW i \in Numbers, Receive(op, i)
      PROVE  KeptInv'
  BY <1>1, BeginKept
<1>2. ASSUME NEW n \in Numbers, Send(n)
      PROVE  KeptInv'
  BY <1>2, SendKept
<1>3. ASSUME NEW n \in Numbers, Goes(n)
      PROVE  KeptInv'
  <2>1. /\ UNCHANGED <<dirs, worlds, jobs, received>>
        /\ \A m \in Numbers : RequestSettles(m)
    BY <1>0, <1>3, GoesSettles DEF hostVars
  <2>2. Settles
    BY <2>1 DEF Settles, JobSettles
  <2> QED
    BY <2>2, SettlesKept
<1> QED
  BY <1>0, <1>1, <1>2, <1>3, ManagerSteps

\* A job that goes on without extracting settles, whatever else of it changes.
LEMMA GoSettles ==
  ASSUME TypeOK, NEW n \in Numbers, NEW place \in {"pack", "meta", "prune", "move", "boot"},
         jobs[n].at = "begin" \/ place # "move",
         Go(n, place), UNCHANGED requests
  PROVE  \A m \in Numbers : RequestSettles(m) /\ JobSettles(m)
<1> DEFINE j == [jobs[n] EXCEPT !.at = place]
<1>1. jobs[n] \in Job
  BY DEF TypeOK
<1>2. j.op = jobs[n].op /\ j.at = place
  BY <1>1 DEF Job
<1>3. jobs' = [jobs EXCEPT ![n] = j]
  BY DEF Go
<1> HIDE DEF j
<1> QED
  BY <1>2, <1>3, JobSettled

\* What the three steps that change the directories leave alone.
LEMMA MovingJobs ==
  ASSUME TypeOK, NEW n \in Numbers, NEW j, jobs' = [Spoil(n) EXCEPT ![n] = j],
         j.op = jobs[n].op
  PROVE  /\ jobs'[n] = j
         /\ \A m \in Numbers : jobs'[m].op = jobs[m].op
         /\ \A m \in Numbers \ {n} : jobs'[m].at = jobs[m].at
BY SpoilTyped DEF TypeOK

\* Such steps keep the invariant, but for what they do to the worlds.
LEMMA MovingKept ==
  ASSUME KeptInv, TypeOK', NEW n \in Numbers, jobs[n].op = "restore",
         \A m \in Numbers : jobs'[m].op = jobs[m].op,
         \A m \in Numbers \ {n} : jobs'[m].at = jobs[m].at,
         jobs'[n].at \in {"extract", "boot"},
         \A m \in Numbers \ {n} : dirs'[m] = dirs[m],
         UNCHANGED <<requests, received>>,
         jobs'[n].at = "extract" => ~Whole(dirs'[Data])
  PROVE  OneRestore' /\ Fresh' /\ WhileExtracting'
<1> USE DEF KeptInv
<1>1. OneRestore'
  BY DEF OneRestore, Restores, Op
<1>2. Fresh'
  <2> SUFFICES ASSUME NEW m \in Numbers
               PROVE  /\ m > received' => Op(m)' = "none"
                      /\ m > received' \/ At(m, "ask")' => jobs'[m].op = "none"
                      /\ Unmoved(m)' => dirs'[m] = Nothing
    BY DEF Fresh
  <2>1. CASE m = n
    BY <2>1 DEF Fresh, Unmoved, Op, At
  <2>2. CASE m # n
    BY <2>2 DEF Fresh, Unmoved, Op, At
  <2> QED
    BY <2>1, <2>2
<1>3. WhileExtracting'
  <2> SUFFICES ASSUME NEW m \in Numbers, JobAt(m, "restore", "extract")'
               PROVE  ~Whole(dirs'[Data])
    BY DEF WhileExtracting, Whole
  <2>1. m = n
    BY DEF OneRestore, Restores, JobAt
  <2> QED
    BY <2>1 DEF JobAt
<1> QED
  BY <1>1, <1>2, <1>3

\* RestoreMove puts aside what the data directory holds, under a name that is free.
LEMMA MoveKept ==
  ASSUME KeptInv, TypeOK', NEW n \in Numbers, RestoreMove(n)
  PROVE  KeptInv'
<1> USE DEF KeptInv
<1> DEFINE content == archives[jobs[n].backup]
           j == [Spoil(n)[n] EXCEPT !.at = "extract", !.holds = content, !.clean = Alone(n)]
<1>1. Spoil(n)[n] \in Job /\ Spoil(n)[n] = jobs[n] /\ jobs[n].op = "restore" /\ jobs[n].at = "move"
  BY SpoilTyped DEF RestoreMove, JobAt, TypeOK
<1>2. j.op = jobs[n].op /\ j.at = "extract"
  BY <1>1 DEF Job
<1>3. jobs' = [Spoil(n) EXCEPT ![n] = j]
  BY SpoilTyped DEF RestoreMove, TypeOK
<1>4. dirs'[n] = dirs[Data] /\ dirs'[Data] \in {Nothing, Part}
      /\ \A m \in Numbers \ {n} : dirs'[m] = dirs[m]
  BY DEF RestoreMove, TypeOK, Dirs, Data, Numbers
<1>5. dirs[n] = Nothing
  BY <1>1 DEF Fresh, Unmoved
<1>6. UNCHANGED <<requests, received, worlds>>
  BY DEF RestoreMove
<1> HIDE DEF j, content
<1>7. OneRestore' /\ Fresh' /\ WhileExtracting'
  <2>1. ~Whole(dirs'[Data])
    BY <1>4 DEF Whole, Nothing, Part, Torn
  <2> QED
    BY <1>1, <1>2, <1>3, <1>4, <1>6, <2>1, MovingJobs, MovingKept
<1>8. WorldsKept'
  <2> SUFFICES ASSUME NEW w \in 1 .. worlds
               PROVE  \E d \in Dirs : dirs'[d] = World(w)
    BY <1>6 DEF WorldsKept, World
  <2>1. PICK d \in Dirs : dirs[d] = World(w)
    BY DEF WorldsKept
  <2>2. World(w) # Nothing
    BY DEF World, Nothing, TypeOK
  <2>3. CASE d = Data
    BY <1>4, <2>1, <2>3 DEF Dirs
  <2>4. CASE d # Data
    BY <1>4, <1>5, <2>1, <2>2, <2>4 DEF Dirs
  <2> QED
    BY <2>3, <2>4
<1> QED
  BY <1>7, <1>8

\* RestoreExtract puts a world, or part of one, where there was none.
LEMMA ExtractKept ==
  ASSUME KeptInv, TypeOK', NEW n \in Numbers, RestoreExtract(n)
  PROVE  KeptInv'
<1> USE DEF KeptInv
<1> DEFINE j == [Spoil(n)[n] EXCEPT !.at = "boot"]
<1>1. Spoil(n)[n] \in Job /\ Spoil(n)[n] = jobs[n] /\ jobs[n].op = "restore" /\ jobs[n].at = "extract"
  BY SpoilTyped DEF RestoreExtract, JobAt, TypeOK
<1>2. j.op = jobs[n].op /\ j.at = "boot"
  BY <1>1 DEF Job
<1>3. jobs' = [Spoil(n) EXCEPT ![n] = j]
  BY SpoilTyped DEF RestoreExtract, TypeOK
<1>4. /\ \A m \in Numbers : dirs'[m] = dirs[m]
      /\ \/ worlds' = worlds + 1 /\ dirs'[Data] = World(worlds + 1)
         \/ worlds' = worlds
  BY DEF RestoreExtract, TypeOK, Dirs, Data, Numbers
<1>5. ~Whole(dirs[Data])
  BY <1>1 DEF WhileExtracting, JobAt
<1>6. UNCHANGED <<requests, received>>
  BY DEF RestoreExtract
<1> HIDE DEF j
<1>7. OneRestore' /\ Fresh' /\ WhileExtracting'
  BY <1>1, <1>2, <1>3, <1>4, <1>6, MovingJobs, MovingKept
<1>8. WorldsKept'
  <2> SUFFICES ASSUME NEW w \in 1 .. worlds'
               PROVE  \E d \in Dirs : dirs'[d] = World(w)
    BY DEF WorldsKept, World
  <2>1. CASE w \in 1 .. worlds
    <3>1. PICK d \in Dirs : dirs[d] = World(w)
      BY <2>1 DEF WorldsKept
    <3>2. d # Data
      BY <1>5, <2>1, <3>1 DEF Whole, World, Part, Torn, TypeOK
    <3> QED
      BY <1>4, <3>1, <3>2 DEF Dirs
  <2>2. CASE w \notin 1 .. worlds
    <3>1. w = worlds + 1 /\ worlds' = worlds + 1
      BY <1>4, <2>2 DEF TypeOK
    <3>2. dirs'[Data] = World(w)
      BY <1>4, <3>1 DEF TypeOK
    <3> QED
      BY <3>2 DEF Dirs
  <2> QED
    BY <2>1, <2>2
<1> QED
  BY <1>7, <1>8

\* RestoreFail replaces a data directory that is no world by what was put aside.
LEMMA FailKept ==
  ASSUME KeptInv, TypeOK', NEW n \in Numbers, RestoreFail(n)
  PROVE  KeptInv'
<1> USE DEF KeptInv
<1> DEFINE j == [Spoil(n)[n] EXCEPT !.at = "boot", !.ok = FALSE]
<1>1. Spoil(n)[n] \in Job /\ Spoil(n)[n] = jobs[n] /\ jobs[n].op = "restore" /\ jobs[n].at = "extract"
  BY SpoilTyped DEF RestoreFail, JobAt, TypeOK
<1>2. j.op = jobs[n].op /\ j.at = "boot"
  BY <1>1 DEF Job
<1>3. jobs' = [Spoil(n) EXCEPT ![n] = j]
  BY SpoilTyped DEF RestoreFail, TypeOK
<1>4. /\ \A m \in Numbers \ {n} : dirs'[m] = dirs[m]
      /\ dirs'[n] = dirs[n] \/ dirs'[Data] = dirs[n]
  BY DEF RestoreFail, TypeOK, Dirs, Data, Numbers
<1>5. ~Whole(dirs[Data])
  BY <1>1 DEF WhileExtracting, JobAt
<1>6. UNCHANGED <<requests, received, worlds>>
  BY DEF RestoreFail
<1> HIDE DEF j
<1>7. OneRestore' /\ Fresh' /\ WhileExtracting'
  BY <1>1, <1>2, <1>3, <1>4, <1>6, MovingJobs, MovingKept
<1>8. WorldsKept'
  <2> SUFFICES ASSUME NEW w \in 1 .. worlds
               PROVE  \E d \in Dirs : dirs'[d] = World(w)
    BY <1>6 DEF WorldsKept, World
  <2>1. PICK d \in Dirs : dirs[d] = World(w)
    BY DEF WorldsKept
  <2>2. d # Data
    BY <1>5, <2>1 DEF Whole, World, Part, Torn, TypeOK
  <2> QED
    BY <1>4, <2>1, <2>2 DEF Dirs
<1> QED
  BY <1>7, <1>8

\* The invariant is kept by every step of the agent.
LEMMA AgentKept ==
  ASSUME KeptInv, Agent, TypeOK'
  PROVE  KeptInv'
<1> USE DEF hostVars
<1>0. TypeOK
  BY DEF KeptInv
<1>1. ASSUME NEW n \in Numbers, AgentList(n)
      PROVE  KeptInv'
  <2> DEFINE q == [requests[n] EXCEPT !.answer = "ok", !.todo = Listed]
  <2>1. requests[n] \in Request
    BY <1>0 DEF TypeOK
  <2>2. q.op = Op(n) /\ q.at # "ask"
    BY <1>1, <2>1 DEF AgentList, Request, Op, At, Waits
  <2>3. Become(n, q) /\ UNCHANGED <<jobs, dirs, worlds, received>>
    BY <1>1 DEF AgentList
  <2> HIDE DEF q
  <2> QED
    BY <1>0, <2>2, <2>3, BecomeSettles, SettlesKept DEF Settles
<1>2. ASSUME NEW n \in Numbers, CreateBegin(n)
      PROVE  KeptInv'
  <2>1. CASE dirs[Data] = Nothing
    BY <1>0, <1>2, <2>1, EndSettles, SettlesKept DEF CreateBegin, Settles
  <2>2. CASE dirs[Data] # Nothing
    <3> DEFINE j == [jobs[n] EXCEPT !.at = "pack", !.holds = dirs[Data]]
    <3>1. jobs[n] \in Job
      BY <1>0 DEF TypeOK
    <3>2. j.op = jobs[n].op /\ j.at = "pack"
      BY <3>1 DEF Job
    <3>3. jobs' = [jobs EXCEPT ![n] = j] /\ UNCHANGED <<requests, dirs, worlds, received>>
      BY <1>0, <1>2, <2>2 DEF CreateBegin, TypeOK
    <3> HIDE DEF j
    <3> QED
      BY <1>0, <3>2, <3>3, JobSettled, SettlesKept DEF Settles
  <2> QED
    BY <2>1, <2>2
<1>3. ASSUME NEW n \in Numbers, CreatePack(n)
      PROVE  KeptInv'
  BY <1>0, <1>3, GoSettles, SettlesKept DEF CreatePack, Settles
<1>4. ASSUME NEW n \in Numbers, CreateMeta(n)
      PROVE  KeptInv'
  BY <1>0, <1>4, GoSettles, SettlesKept DEF CreateMeta, Settles
<1>5. ASSUME NEW n \in Numbers, CreateFail(n)
      PROVE  KeptInv'
  BY <1>0, <1>5, EndSettles, SettlesKept DEF CreateFail, Settles
<1>6. ASSUME NEW n \in Numbers, CreatePrune(n)
      PROVE  KeptInv'
  BY <1>0, <1>6, EndSettles, SettlesKept DEF CreatePrune, Settles
<1>7. ASSUME NEW n \in Numbers, RestoreBoot(n)
      PROVE  KeptInv'
  BY <1>0, <1>7, EndSettles, SettlesKept DEF RestoreBoot, Settles
<1>8. ASSUME NEW n \in Numbers, RestoreBegin(n)
      PROVE  KeptInv'
  <2>1. CASE archives[jobs[n].backup] = Nothing
    BY <1>0, <1>8, <2>1, EndSettles, SettlesKept DEF RestoreBegin, Settles
  <2>2. CASE archives[jobs[n].backup] # Nothing
    BY <1>0, <1>8, <2>2, GoSettles, SettlesKept DEF RestoreBegin, JobAt, Settles
  <2> QED
    BY <2>1, <2>2
<1>9. ASSUME NEW n \in Numbers, RestoreMove(n)
      PROVE  KeptInv'
  BY <1>9, MoveKept
<1>10. ASSUME NEW n \in Numbers, RestoreMoveFail(n)
      PROVE  KeptInv'
  <2> DEFINE j == [jobs[n] EXCEPT !.at = "boot", !.ok = FALSE]
  <2>1. jobs[n] \in Job
    BY <1>0 DEF TypeOK
  <2>2. j.op = jobs[n].op /\ j.at = "boot"
    BY <2>1 DEF Job
  <2>3. jobs' = [jobs EXCEPT ![n] = j] /\ UNCHANGED <<requests, dirs, worlds, received>>
    BY <1>0, <1>10 DEF RestoreMoveFail, TypeOK
  <2> HIDE DEF j
  <2> QED
    BY <1>0, <2>2, <2>3, JobSettled, SettlesKept DEF Settles
<1>11. ASSUME NEW n \in Numbers, RestoreExtract(n)
      PROVE  KeptInv'
  BY <1>11, ExtractKept
<1>12. ASSUME NEW n \in Numbers, RestoreFail(n)
      PROVE  KeptInv'
  BY <1>12, FailKept
<1>13. CASE Crash
  <2>1. UNCHANGED <<requests, dirs, worlds, received>>
        /\ \A n \in Numbers : jobs'[n].op = "none" /\ jobs'[n].at = "idle"
    BY <1>13 DEF Crash, NoJob
  <2>2. \A n \in Numbers : RequestSettles(n) /\ JobSettles(n)
    BY <2>1 DEF RequestSettles, JobSettles
  <2> QED
    BY <2>1, <2>2, SettlesKept DEF Settles
<1>14. CASE Power
  BY <1>14, SettlesKept DEF Power, Settles, RequestSettles, JobSettles
<1> QED
  BY <1>1, <1>2, <1>3, <1>4, <1>5, <1>6, <1>7, <1>8, <1>9, <1>10, <1>11, <1>12, <1>13, <1>14 DEF Agent


\* In the initial states nothing is restored and the first world is in its place.
LEMMA InitKept == Init => KeptInv
<1> SUFFICES ASSUME Init PROVE KeptInv
  OBVIOUS
<1>1. TypeOK
  BY InitTyped
<1>2. OneRestore /\ Fresh /\ WhileExtracting
  BY <1>1 DEF Init, OneRestore, Restores, Fresh, Unmoved, WhileExtracting, JobAt, Op, At,
              Idle, NoJob, Dirs, Data, Numbers
<1>3. WorldsKept
  BY DEF Init, WorldsKept, World, Dirs, Data
<1> QED
  BY <1>1, <1>2, <1>3 DEF KeptInv

LEMMA NextKept == Overlap # "free" /\ KeptInv /\ [Next]_vars => KeptInv'
<1> SUFFICES ASSUME Overlap # "free", KeptInv, [Next]_vars PROVE KeptInv'
  OBVIOUS
<1>1. TypeOK'
  BY NextTyped DEF KeptInv
<1>2. CASE Next
  BY <1>1, <1>2, ManagerKept, AgentKept DEF Next
<1>3. CASE UNCHANGED vars
  <2>1. \A n \in Numbers : RequestSettles(n) /\ JobSettles(n)
    BY <1>3 DEF vars, RequestSettles, JobSettles
  <2> QED
    BY <1>1, <1>3, <2>1, SettlesKept DEF vars, Settles
<1> QED
  BY <1>2, <1>3

\* With one restore at a time, whatever fails and however often the agent restarts,
\* every world the server has had is in the data directory or in one put aside
\* (RestoreFromBackup's safety net).
THEOREM WorldsAreKept ==
  ASSUME Overlap # "free"
  PROVE  Spec => []WorldsKept
<1>1. KeptInv /\ [Next]_vars => KeptInv'
  BY NextKept
<1>2. KeptInv => WorldsKept
  BY DEF KeptInv
<1> QED
  BY InitKept, <1>1, <1>2, PTL DEF Spec

-----------------------------------------------------------------------------
(***************************************************************************)
(* What is new has no job and no metadata.  On this rest the properties of *)
(* the archives: a backup has its time only when its archive is done.      *)
(***************************************************************************)

\* A create that has not written the metadata.
Early(n) == jobs[n].op = "create" /\ jobs[n].at \in {"begin", "pack", "meta"}

NewBare ==
  \A n \in Numbers :
    /\ n > received => Op(n) = "none"
    /\ n > received \/ At(n, "ask") => jobs[n].op = "none" /\ createdAt[n] = 0
    /\ Early(n) => createdAt[n] = 0
    /\ jobs[n].op # "none" => Op(n) \in {jobs[n].op, "none"}

NewInv == TypeOK /\ NewBare

\* What a step does to the job of number n: it goes on, ends, or begins from nothing; the
\* time of the backup is written by its own job.
Grows(n) ==
  /\ jobs'[n].op \in {jobs[n].op, "none"}
  /\ Early(n)' => Early(n)
  /\ createdAt'[n] # createdAt[n] => JobAt(n, "create", "meta") /\ JobAt(n, "create", "prune")'

\* All steps of the agent do so, and no other does anything to archives and times.
LEMMA AgentGrows ==
  ASSUME TypeOK, Agent
  PROVE  /\ UNCHANGED <<rows, received>>
         /\ \A m \in Numbers : RequestSettles(m) /\ Grows(m)
<1> USE DEF hostVars
<1>0. /\ jobs \in [Numbers -> Job] /\ requests \in [Numbers -> Request]
      /\ createdAt \in [Numbers -> Nat]
  BY DEF TypeOK
<1>1. ASSUME NEW n \in Numbers, AgentList(n)
      PROVE  \A m \in Numbers : RequestSettles(m) /\ Grows(m)
  <2> DEFINE q == [requests[n] EXCEPT !.answer = "ok", !.todo = Listed]
  <2>1. Become(n, q) /\ q.op = Op(n) /\ q.at # "ask" /\ UNCHANGED <<jobs, createdAt>>
    BY <1>0, <1>1 DEF AgentList, Waits, At, Op, Request
  <2> HIDE DEF q
  <2> QED
    BY <2>1, BecomeSettles DEF Grows, Early
<1>2. ASSUME NEW n \in Numbers, NEW answer, End(n, answer), UNCHANGED createdAt
      PROVE  \A m \in Numbers : RequestSettles(m) /\ Grows(m)
  <2>1. \A m \in Numbers : jobs'[m] = IF m = n THEN NoJob ELSE jobs[m]
    BY <1>0, <1>2 DEF End
  <2> QED
    BY <1>2, <2>1, EndSettles DEF Grows, Early, NoJob
<1>3. ASSUME NEW n \in Numbers, NEW j \in Job, UNCHANGED requests,
             jobs' = [jobs EXCEPT ![n] = j] \/ jobs' = [Spoil(n) EXCEPT ![n] = j],
             j.op = jobs[n].op,
             j.op = "create" /\ j.at \in {"begin", "pack", "meta"} => Early(n),
             \/ UNCHANGED createdAt
             \/ /\ JobAt(n, "create", "meta") /\ j.at = "prune"
                /\ \A m \in Numbers \ {n} : createdAt'[m] = createdAt[m]
      PROVE  \A m \in Numbers : RequestSettles(m) /\ Grows(m)
  <2>1. jobs'[n] = j /\ \A m \in Numbers \ {n} : jobs'[m].op = jobs[m].op /\ jobs'[m].at = jobs[m].at
    BY <1>0, <1>3, SpoilTyped
  <2>2. \A m \in Numbers : RequestSettles(m)
    BY <1>3 DEF RequestSettles
  <2> QED
    BY <1>3, <2>1, <2>2 DEF Grows, Early, JobAt
<1>4. ASSUME NEW n \in Numbers, CreateBegin(n)
      PROVE  \A m \in Numbers : RequestSettles(m) /\ Grows(m)
  <2>1. CASE dirs[Data] = Nothing
    BY <1>2, <1>4, <2>1 DEF CreateBegin
  <2>2. CASE dirs[Data] # Nothing
    <3> DEFINE j == [jobs[n] EXCEPT !.at = "pack", !.holds = dirs[Data]]
    <3>0. jobs[n] \in Job /\ dirs[Data] \in Contents /\ JobAt(n, "create", "begin")
      BY <1>0, <1>4 DEF CreateBegin, TypeOK, Dirs
    <3>1. j \in Job /\ j.op = jobs[n].op /\ Early(n)
      BY <3>0 DEF JobAt, Early, Job
    <3>2. jobs' = [jobs EXCEPT ![n] = j] /\ UNCHANGED <<requests, createdAt>>
      BY <1>0, <1>4, <2>2 DEF CreateBegin
    <3> HIDE DEF j
    <3> QED
      BY <1>3, <3>1, <3>2
  <2> QED
    BY <2>1, <2>2
<1>5. ASSUME NEW n \in Numbers, CreatePack(n)
      PROVE  \A m \in Numbers : RequestSettles(m) /\ Grows(m)
  <2> DEFINE j == [jobs[n] EXCEPT !.at = "meta"]
  <2>1. j \in Job /\ j.op = jobs[n].op /\ Early(n)
    BY <1>0, <1>5 DEF CreatePack, JobAt, Early, Job
  <2>2. jobs' = [jobs EXCEPT ![n] = j] /\ UNCHANGED <<requests, createdAt>>
    BY <1>0, <1>5 DEF CreatePack, Go
  <2> HIDE DEF j
  <2> QED
    BY <1>3, <2>1, <2>2
<1>6. ASSUME NEW n \in Numbers, CreateFail(n) \/ CreatePrune(n) \/ RestoreBoot(n)
      PROVE  \A m \in Numbers : RequestSettles(m) /\ Grows(m)
  BY <1>2, <1>6 DEF CreateFail, CreatePrune, RestoreBoot
<1>7. ASSUME NEW n \in Numbers, CreateMeta(n)
      PROVE  \A m \in Numbers : RequestSettles(m) /\ Grows(m)
  <2> DEFINE j == [jobs[n] EXCEPT !.at = "prune"]
  <2>1. j \in Job /\ j.op = jobs[n].op /\ j.at = "prune" /\ JobAt(n, "create", "meta")
    BY <1>0, <1>7 DEF CreateMeta, JobAt, Early, Job
  <2>2. jobs' = [jobs EXCEPT ![n] = j] /\ UNCHANGED requests
        /\ \A m \in Numbers \ {n} : createdAt'[m] = createdAt[m]
    BY <1>0, <1>7 DEF CreateMeta, Go
  <2> HIDE DEF j
  <2> QED
    BY <1>3, <2>1, <2>2
<1>8. ASSUME NEW n \in Numbers, RestoreBegin(n)
      PROVE  \A m \in Numbers : RequestSettles(m) /\ Grows(m)
  <2>1. CASE archives[jobs[n].backup] = Nothing
    BY <1>2, <1>8, <2>1 DEF RestoreBegin
  <2>2. CASE archives[jobs[n].backup] # Nothing
    <3> DEFINE j == [jobs[n] EXCEPT !.at = "move"]
    <3>1. j \in Job /\ j.op = jobs[n].op /\ j.op = "restore"
      BY <1>0, <1>8 DEF RestoreBegin, JobAt, Job
    <3>2. jobs' = [jobs EXCEPT ![n] = j] /\ UNCHANGED <<requests, createdAt>>
      BY <1>0, <1>8, <2>2 DEF RestoreBegin, Go
    <3> HIDE DEF j
    <3> QED
      BY <1>3, <3>1, <3>2
  <2> QED
    BY <2>1, <2>2
<1>9. ASSUME NEW n \in Numbers, RestoreMove(n)
      PROVE  \A m \in Numbers : RequestSettles(m) /\ Grows(m)
  <2> DEFINE j == [Spoil(n)[n] EXCEPT !.at = "extract", !.holds = archives[jobs[n].backup],
                                      !.clean = Alone(n)]
  <2>1. /\ Spoil(n)[n] \in Job /\ Spoil(n)[n] = jobs[n] /\ jobs[n].op = "restore"
        /\ archives[jobs[n].backup] \in Contents /\ Alone(n) \in BOOLEAN
    BY <1>0, <1>9, SpoilTyped DEF TypeOK, Job, Alone, RestoreMove, JobAt
  <2>2. j \in Job /\ j.op = jobs[n].op /\ j.op = "restore"
    BY <2>1 DEF Job
  <2>3. jobs' = [Spoil(n) EXCEPT ![n] = j] /\ UNCHANGED <<requests, createdAt>>
    BY <1>9, SpoilTyped DEF RestoreMove, TypeOK
  <2> HIDE DEF j
  <2> QED
    BY <1>3, <2>2, <2>3
<1>10. ASSUME NEW n \in Numbers, RestoreMoveFail(n)
       PROVE  \A m \in Numbers : RequestSettles(m) /\ Grows(m)
  <2> DEFINE j == [jobs[n] EXCEPT !.at = "boot", !.ok = FALSE]
  <2>1. j \in Job /\ j.op = jobs[n].op /\ j.op = "restore"
    BY <1>0, <1>10 DEF RestoreMoveFail, JobAt, Job
  <2>2. jobs' = [jobs EXCEPT ![n] = j] /\ UNCHANGED <<requests, createdAt>>
    BY <1>0, <1>10 DEF RestoreMoveFail
  <2> HIDE DEF j
  <2> QED
    BY <1>3, <2>1, <2>2
<1>11. ASSUME NEW n \in Numbers, RestoreExtract(n)
       PROVE  \A m \in Numbers : RequestSettles(m) /\ Grows(m)
  <2> DEFINE j == [Spoil(n)[n] EXCEPT !.at = "boot"]
  <2>0. Spoil(n)[n] \in Job /\ Spoil(n)[n] = jobs[n] /\ jobs[n].op = "restore"
    BY <1>0, <1>11, SpoilTyped DEF RestoreExtract, JobAt
  <2>1. j \in Job /\ j.op = jobs[n].op
    BY <2>0 DEF Job
  <2>2. jobs' = [Spoil(n) EXCEPT ![n] = j] /\ UNCHANGED <<requests, createdAt>>
    BY <1>11, SpoilTyped DEF RestoreExtract, TypeOK
  <2> HIDE DEF j
  <2> QED
    BY <1>3, <2>0, <2>1, <2>2
<1>12. ASSUME NEW n \in Numbers, RestoreFail(n)
       PROVE  \A m \in Numbers : RequestSettles(m) /\ Grows(m)
  <2> DEFINE j == [Spoil(n)[n] EXCEPT !.at = "boot", !.ok = FALSE]
  <2>0. Spoil(n)[n] \in Job /\ Spoil(n)[n] = jobs[n] /\ jobs[n].op = "restore"
    BY <1>0, <1>12, SpoilTyped DEF RestoreFail, JobAt
  <2>1. j \in Job /\ j.op = jobs[n].op
    BY <2>0 DEF Job
  <2>2. jobs' = [Spoil(n) EXCEPT ![n] = j] /\ UNCHANGED <<requests, createdAt>>
    BY <1>12, SpoilTyped DEF RestoreFail, TypeOK
  <2> HIDE DEF j
  <2> QED
    BY <1>3, <2>0, <2>1, <2>2
<1>13. ASSUME Crash
       PROVE  \A m \in Numbers : RequestSettles(m) /\ Grows(m)
  <2>1. UNCHANGED <<requests, createdAt>> /\ \A m \in Numbers : jobs'[m] = NoJob
    BY <1>13 DEF Crash
  <2>2. NoJob.op = "none"
    BY DEF NoJob
  <2> QED
    BY <2>1, <2>2 DEF RequestSettles, Grows, Early
<1>14. ASSUME Power
       PROVE  \A m \in Numbers : RequestSettles(m) /\ Grows(m)
  BY <1>14 DEF Power, RequestSettles, Grows, Early
<1>15. UNCHANGED <<rows, received>>
  BY DEF Agent, AgentList, CreateBegin, CreatePack, CreateFail, CreateMeta, CreatePrune,
         RestoreBegin, RestoreMove, RestoreMoveFail, RestoreExtract, RestoreFail, RestoreBoot,
         Crash, Power
<1> QED
  BY <1>1, <1>4, <1>5, <1>6, <1>7, <1>8, <1>9, <1>10, <1>11, <1>12, <1>13, <1>14, <1>15 DEF Agent


\* Nothing is received, and no job begins: what is new stays so.
LEMMA NewGrows ==
  ASSUME NewInv, UNCHANGED received, \A m \in Numbers : RequestSettles(m) /\ Grows(m)
  PROVE  NewBare'
<1> SUFFICES ASSUME NEW m \in Numbers
             PROVE  /\ m > received' => Op(m)' = "none"
                    /\ m > received' \/ At(m, "ask")' =>
                         jobs'[m].op = "none" /\ createdAt'[m] = 0
                    /\ Early(m)' => createdAt'[m] = 0
                    /\ jobs'[m].op # "none" => Op(m)' \in {jobs'[m].op, "none"}
  BY DEF NewBare
<1>1. RequestSettles(m) /\ Grows(m)
  OBVIOUS
<1> QED
  BY <1>1 DEF NewInv, NewBare, RequestSettles, Grows, Early, JobAt, Op, At

\* A request that is received has the first number that is new.
LEMMA ReceiveTakes ==
  ASSUME TypeOK, NEW op \in RequestOps \ {"none"}, NEW i \in Numbers, Receive(op, i)
  PROVE  \E new \in Numbers :
           /\ new = received + 1 /\ received' = new
           /\ \A m \in Numbers : m > received' <=> m > received /\ m # new
           /\ \A m \in Numbers \ {new} : requests'[m] = requests[m]
           /\ requests'[new].op = op /\ requests'[new].at = "ask"
<1> PICK new \in Numbers : new = received + 1
  BY ReceiveTyped
<1>1. received' = new /\ new > received /\ \A m \in Numbers : m > received' <=> m > received /\ m # new
  BY DEF Receive, TypeOK, Numbers
<1> DEFINE q == [Idle EXCEPT !.op = op, !.backup = i, !.at = "ask"]
<1>2. Become(new, q) /\ q.op = op /\ q.at = "ask"
  BY DEF Receive, Idle
<1> HIDE DEF q
<1>3. requests' = [requests EXCEPT ![new] = q] /\ requests \in [Numbers -> Request]
  BY <1>2 DEF Become, TypeOK
<1> QED
  BY <1>1, <1>2, <1>3

\* A question that is sent makes a create or a restore a job, on numbers that had none.
LEMMA SendMakes ==
  ASSUME TypeOK, NEW n \in Numbers, Send(n)
  PROVE  /\ At(n, "ask")
         /\ \A m \in Numbers \ {n} : requests'[m] = requests[m] /\ jobs'[m] = jobs[m]
         /\ requests'[n].op = Op(n) /\ requests'[n].at = "wait"
         /\ requests'[n].answer = requests[n].answer
         /\ IF Op(n) \in {"create", "restore"}
            THEN /\ jobs'[n].op = Op(n) /\ jobs'[n].at = "begin"
                 /\ jobs'[n].backup = requests[n].backup /\ jobs'[n].clean
            ELSE jobs'[n] = jobs[n]
         /\ UNCHANGED <<rows, hostVars, received>>
<1>1. requests[n] \in Request /\ requests \in [Numbers -> Request] /\ jobs \in [Numbers -> Job]
  BY DEF TypeOK
<1>2. /\ At(n, "ask") /\ UNCHANGED <<rows, hostVars, received>>
      /\ requests' = [requests EXCEPT ![n] = [requests[n] EXCEPT !.at = "wait"]]
  BY DEF Send, Become
<1>3. /\ requests'[n].op = Op(n) /\ requests'[n].at = "wait"
      /\ requests'[n].answer = requests[n].answer
      /\ \A m \in Numbers \ {n} : requests'[m] = requests[m]
  BY <1>1, <1>2 DEF Request, Op
<1> DEFINE j == [NoJob EXCEPT !.op = Op(n), !.at = "begin", !.backup = requests[n].backup]
<1>4. j.op = Op(n) /\ j.at = "begin" /\ j.backup = requests[n].backup /\ j.clean
  BY DEF NoJob
<1>5. jobs' = IF Op(n) \in {"create", "restore"} THEN [jobs EXCEPT ![n] = j] ELSE jobs
  BY DEF Send
<1> HIDE DEF j
<1> QED
  BY <1>1, <1>2, <1>3, <1>4, <1>5

LEMMA NewKept == NewInv /\ [Next]_vars => NewInv'
<1> SUFFICES ASSUME NewInv, [Next]_vars PROVE NewBare'
  BY NextTyped DEF NewInv
<1>0. TypeOK
  BY DEF NewInv
<1>1. ASSUME NEW op \in RequestOps \ {"none"}, NEW i \in Numbers, Receive(op, i)
      PROVE  NewBare'
  <2> PICK new \in Numbers :
           /\ new = received + 1 /\ received' = new
           /\ \A m \in Numbers : m > received' <=> m > received /\ m # new
           /\ \A m \in Numbers \ {new} : requests'[m] = requests[m]
           /\ requests'[new].op = op /\ requests'[new].at = "ask"
    BY <1>0, <1>1, ReceiveTakes
  <2>1. new > received /\ UNCHANGED <<jobs, createdAt>>
    BY <1>0, <1>1 DEF TypeOK, Receive, hostVars
  <2> QED
    BY <2>1 DEF NewInv, NewBare, Early, Op, At
<1>2. ASSUME NEW n \in Numbers, Send(n)
      PROVE  NewBare'
  <2>1. /\ At(n, "ask") /\ UNCHANGED <<received, createdAt>>
        /\ \A m \in Numbers \ {n} : requests'[m] = requests[m] /\ jobs'[m] = jobs[m]
        /\ requests'[n].op = Op(n) /\ requests'[n].at = "wait"
        /\ jobs'[n] = jobs[n] \/ jobs'[n].op = Op(n)
        /\ Op(n) # "none" \/ jobs'[n] = jobs[n]
    BY <1>0, <1>2, SendMakes DEF hostVars
  <2> QED
    BY <2>1 DEF NewInv, NewBare, Early, Op, At
<1>3. ASSUME NEW n \in Numbers, Goes(n)
      PROVE  NewBare'
  <2>1. UNCHANGED <<received, jobs, createdAt>> /\ \A m \in Numbers : RequestSettles(m)
    BY <1>0, <1>3, GoesSettles DEF hostVars
  <2> QED
    BY <2>1, NewGrows DEF Grows, Early
<1>4. CASE Agent
  BY <1>0, <1>4, AgentGrows, NewGrows
<1>5. CASE UNCHANGED vars
  BY <1>5 DEF vars, NewInv, NewBare, Early, Op, At
<1> QED
  BY <1>0, <1>1, <1>2, <1>3, <1>4, <1>5, ManagerSteps DEF Next

LEMMA InitNew == Init => NewInv
BY InitTyped DEF Init, NewInv, NewBare, Early, Op, At, Idle, NoJob


-----------------------------------------------------------------------------
(***************************************************************************)
(* What is not done at once: MayBegin, of requests and of the jobs that    *)
(* outlive them.                                                           *)
(***************************************************************************)

Creates(n) == Op(n) = "create" \/ jobs[n].op = "create"
BusyAt(n) == Op(n) # "none" \/ jobs[n].op # "none"

\* Nothing is packed while a restore is under way.
Apart == \A n, m \in Numbers : ~(Restores(n) /\ Creates(m))

\* One request and its job at a time.
OneBusy == \A n, m \in Numbers : BusyAt(n) /\ BusyAt(m) => n = m

ExclusiveInv == NewInv /\ OneRestore /\ Apart
BusyInv == NewInv /\ OneBusy

\* A step begins a request, or begins nothing.
Begins(op, new) ==
  /\ MayBegin(op)
  /\ Op(new) = "none" /\ jobs[new].op = "none" /\ requests'[new].op = op
  /\ \A m \in Numbers \ {new} : requests'[m] = requests[m]
  /\ UNCHANGED jobs
LEMMA StepsBegin ==
  ASSUME NewInv, [Next]_vars
  PROVE  \/ \E op \in RequestOps \ {"none"}, new \in Numbers : Begins(op, new)
         \/ \A m \in Numbers : /\ Op(m)' \in {Op(m), "none"}
                               /\ jobs'[m].op \in {jobs[m].op, Op(m), "none"}
<1>0. TypeOK
  BY DEF NewInv
<1>1. ASSUME NEW op \in RequestOps \ {"none"}, NEW i \in Numbers, Receive(op, i)
      PROVE  \E new \in Numbers : Begins(op, new)
  <2> PICK new \in Numbers :
           /\ new = received + 1
           /\ \A m \in Numbers \ {new} : requests'[m] = requests[m]
           /\ requests'[new].op = op
    BY <1>0, <1>1, ReceiveTakes
  <2>1. new > received
    BY <1>0 DEF TypeOK
  <2> QED
    BY <1>1, <2>1 DEF Begins, Receive, NewInv, NewBare
<1>2. ASSUME NEW n \in Numbers, Send(n)
      PROVE  \A m \in Numbers : /\ Op(m)' \in {Op(m), "none"}
                                /\ jobs'[m].op \in {jobs[m].op, Op(m), "none"}
  BY <1>0, <1>2, SendMakes DEF Op
<1>3. ASSUME NEW n \in Numbers, Goes(n)
      PROVE  \A m \in Numbers : /\ Op(m)' \in {Op(m), "none"}
                                /\ jobs'[m].op \in {jobs[m].op, Op(m), "none"}
  BY <1>0, <1>3, GoesSettles DEF Op, RequestSettles
<1>4. ASSUME Agent
      PROVE  \A m \in Numbers : /\ Op(m)' \in {Op(m), "none"}
                                /\ jobs'[m].op \in {jobs[m].op, Op(m), "none"}
  BY <1>0, <1>4, AgentGrows DEF Op, RequestSettles, Grows
<1>5. ASSUME UNCHANGED vars
      PROVE  \A m \in Numbers : /\ Op(m)' \in {Op(m), "none"}
                                /\ jobs'[m].op \in {jobs[m].op, Op(m), "none"}
  BY <1>5 DEF vars, Op
<1> QED
  BY <1>0, <1>1, <1>2, <1>3, <1>4, <1>5, ManagerSteps DEF Next

LEMMA ExclusiveKept ==
  ASSUME Overlap # "free", ExclusiveInv, [Next]_vars
  PROVE  ExclusiveInv'
<1>1. NewInv'
  BY NewKept DEF ExclusiveInv
<1>2. ASSUME NEW op \in RequestOps \ {"none"}, NEW new \in Numbers, Begins(op, new)
      PROVE  OneRestore' /\ Apart'
  <2>1. /\ Restores(new)' <=> op = "restore"
        /\ Creates(new)' <=> op = "create"
        /\ \A m \in Numbers \ {new} : (Restores(m)' <=> Restores(m)) /\ (Creates(m)' <=> Creates(m))
    BY <1>2 DEF Begins, Restores, Creates, Op
  <2>2. /\ op = "restore" => \A m \in Numbers : ~Restores(m) /\ ~Creates(m)
        /\ op = "create" => \A m \in Numbers : ~Restores(m)
    BY <1>2 DEF Begins, MayBegin, InProgress, Conflicting, Restores, Creates
  <2> QED
    BY <2>1, <2>2 DEF ExclusiveInv, OneRestore, Apart
<1>3. ASSUME \A m \in Numbers : /\ Op(m)' \in {Op(m), "none"}
                                /\ jobs'[m].op \in {jobs[m].op, Op(m), "none"}
      PROVE  OneRestore' /\ Apart'
  <2>1. \A m \in Numbers : (Restores(m)' => Restores(m)) /\ (Creates(m)' => Creates(m))
    BY <1>3 DEF Restores, Creates
  <2> QED
    BY <2>1 DEF ExclusiveInv, OneRestore, Apart
<1> QED
  BY <1>1, <1>2, <1>3, StepsBegin DEF ExclusiveInv

LEMMA BusyKept ==
  ASSUME Overlap = "none", BusyInv, [Next]_vars
  PROVE  BusyInv'
<1>1. NewInv'
  BY NewKept DEF BusyInv
<1>2. ASSUME NEW op \in RequestOps \ {"none"}, NEW new \in Numbers, Begins(op, new)
      PROVE  OneBusy'
  <2>1. \A m \in Numbers : ~BusyAt(m)
    <3>1. \A m \in Numbers : requests[m] \in Request /\ jobs[m] \in Job
      BY DEF BusyInv, NewInv, TypeOK
    <3> QED
      BY <1>2, <3>1 DEF Begins, MayBegin, InProgress, BusyAt, Op, Request, Job
  <2>2. \A m \in Numbers : BusyAt(m)' => m = new
    BY <1>2, <2>1 DEF Begins, BusyAt, Op
  <2> QED
    BY <2>2 DEF OneBusy
<1>3. ASSUME \A m \in Numbers : /\ Op(m)' \in {Op(m), "none"}
                                /\ jobs'[m].op \in {jobs[m].op, Op(m), "none"}
      PROVE  OneBusy'
  <2>1. \A m \in Numbers : BusyAt(m)' => BusyAt(m)
    BY <1>3 DEF BusyAt
  <2> QED
    BY <2>1 DEF BusyInv, OneBusy
<1> QED
  BY <1>1, <1>2, <1>3, StepsBegin DEF BusyInv

LEMMA InitExclusive == Init => ExclusiveInv /\ BusyInv
<1> SUFFICES ASSUME Init PROVE ExclusiveInv /\ BusyInv
  OBVIOUS
<1>1. \A n \in Numbers : ~BusyAt(n) /\ ~Restores(n) /\ ~Creates(n)
  BY DEF Init, BusyAt, Restores, Creates, Op, Idle, NoJob
<1> QED
  BY <1>1, InitNew DEF ExclusiveInv, BusyInv, OneRestore, Apart, OneBusy


-----------------------------------------------------------------------------
(***************************************************************************)
(* A sync that is alone mirrors the disk.                                  *)
(***************************************************************************)

Updates == {"insert", "prune"}

\* A request is not answered before it is sent, and only a sync updates the rows.
InOrder ==
  \A n \in Numbers :
    /\ At(n, "ask") => requests[n].answer = "none"
    /\ requests[n].at \in Updates => Op(n) = "sync"

\* How far a sync is: it was told what is on disk, has the missing rows still to insert,
\* and the rows that are too many still to delete.
Mirrors(n) ==
  /\ At(n, "wait") /\ requests[n].answer = "ok" => requests[n].todo = Listed
  /\ At(n, "insert") => requests[n].todo = Listed \ Complete
  /\ At(n, "prune") => Listed \subseteq Complete
  /\ requests[n].at \in Updates => requests[n].gone = Complete \ Listed

MirrorInv == BusyInv /\ InOrder /\ \A n \in Numbers : Op(n) = "sync" => Mirrors(n)

\* A step that leaves rows and archives alone, and all requests but one.
LEMMA MirrorsElsewhere ==
  ASSUME MirrorInv, UNCHANGED <<rows, archives, createdAt>>, NEW n \in Numbers,
         \A m \in Numbers \ {n} : requests'[m] = requests[m],
         requests'[n].at = "ask" => requests'[n].answer = "none",
         requests'[n].at \in Updates => requests'[n].op = "sync",
         requests'[n].op = "sync" => Mirrors(n)'
  PROVE  InOrder' /\ \A m \in Numbers : Op(m)' = "sync" => Mirrors(m)'
BY DEF MirrorInv, InOrder, Mirrors, Op, At, Listed, Complete

\* A step that updates the rows, or the archives, when there is no sync but at most one
\* that makes it.
LEMMA MirrorsAlone ==
  ASSUME BusyInv, InOrder, NEW n \in Numbers, BusyAt(n),
         \A m \in Numbers \ {n} : requests'[m] = requests[m],
         requests'[n].at # "ask",
         requests'[n].at \in Updates => requests'[n].op = "sync",
         requests'[n].op = "sync" => Mirrors(n)'
  PROVE  InOrder' /\ \A m \in Numbers : Op(m)' = "sync" => Mirrors(m)'
BY DEF BusyInv, OneBusy, BusyAt, InOrder, Op, At

\* The steps of the sync, one by one.
LEMMA SyncMirrored ==
  ASSUME MirrorInv, NEW n \in Numbers,
         \/ SyncRead(n) \/ SyncInserted(n) \/ AgentList(n)
         \/ \E i \in Numbers : SyncInsert(n, i) \/ SyncPrune(n, i)
  PROVE  InOrder' /\ \A m \in Numbers : Op(m)' = "sync" => Mirrors(m)'
<1> USE DEF hostVars
<1>0. requests \in [Numbers -> Request] /\ requests[n] \in Request /\ rows \in [Numbers -> Statuses]
  BY DEF MirrorInv, BusyInv, NewInv, TypeOK
<1>1. Op(n) = "sync" /\ Mirrors(n) /\ BusyAt(n) /\ BusyInv /\ InOrder
  <2>1. Op(n) = "sync"
    BY DEF MirrorInv, InOrder, Updates, SyncRead, SyncInserted, AgentList, SyncInsert, SyncPrune,
           At
  <2> QED
    BY <2>1 DEF MirrorInv, BusyAt
<1>2. ASSUME NEW q, Become(n, q), q.at # "ask", q.op = "sync",
             requests'[n] = q => Mirrors(n)'
      PROVE  InOrder' /\ \A m \in Numbers : Op(m)' = "sync" => Mirrors(m)'
  <2>1. requests'[n] = q /\ \A m \in Numbers \ {n} : requests'[m] = requests[m]
    BY <1>0, <1>2 DEF Become
  <2> QED
    BY <1>1, <1>2, <2>1, MirrorsAlone
<1>3. CASE SyncRead(n)
  <2> DEFINE q == [requests[n] EXCEPT !.at = "insert", !.todo = @ \ Complete,
                                      !.gone = Complete \ requests[n].todo]
  <2>1. /\ Become(n, q) /\ q.at = "insert" /\ q.op = "sync" /\ UNCHANGED <<rows, archives, createdAt>>
        /\ q.todo = requests[n].todo \ Complete /\ q.gone = Complete \ requests[n].todo
    BY <1>0, <1>1, <1>3 DEF SyncRead, Request, Op
  <2>2. requests[n].todo = Listed
    BY <1>1, <1>3 DEF SyncRead, Mirrors
  <2> HIDE DEF q
  <2> QED
    BY <1>2, <2>1, <2>2 DEF Mirrors, At, Listed, Complete, Updates
<1>4. CASE SyncInserted(n)
  <2> DEFINE q == [requests[n] EXCEPT !.at = "prune"]
  <2>1. /\ Become(n, q) /\ q.at = "prune" /\ q.op = "sync" /\ UNCHANGED <<rows, archives, createdAt>>
        /\ q.gone = requests[n].gone /\ requests[n].todo = {} /\ At(n, "insert")
    BY <1>0, <1>1, <1>4 DEF SyncInserted, Request, Op
  <2>2. Listed \subseteq Complete /\ requests[n].gone = Complete \ Listed
    BY <1>1, <2>1 DEF Mirrors, At, Updates
  <2> HIDE DEF q
  <2> QED
    BY <1>2, <2>1, <2>2 DEF Mirrors, At, Listed, Complete, Updates
<1>5. CASE AgentList(n)
  <2> DEFINE q == [requests[n] EXCEPT !.answer = "ok", !.todo = Listed]
  <2>1. /\ Become(n, q) /\ q.at = "wait" /\ q.op = "sync" /\ UNCHANGED <<rows, archives, createdAt>>
        /\ q.todo = Listed
    BY <1>0, <1>1, <1>5 DEF AgentList, Waits, At, Request, Op
  <2> HIDE DEF q
  <2> QED
    BY <1>2, <2>1 DEF Mirrors, At, Listed, Updates
<1>6. ASSUME NEW i \in Numbers, SyncInsert(n, i)
      PROVE  InOrder' /\ \A m \in Numbers : Op(m)' = "sync" => Mirrors(m)'
  <2>1. CASE InTable(i)
    <3>1. Become(n, Idle) /\ Idle.at # "ask" /\ Idle.at \notin Updates /\ Idle.op # "sync"
      BY <1>6, <2>1 DEF SyncInsert, Finish, Idle, Updates
    <3>2. requests'[n] = Idle /\ \A m \in Numbers \ {n} : requests'[m] = requests[m]
      BY <1>0, <3>1 DEF Become
    <3> QED
      BY <1>1, <3>1, <3>2, MirrorsAlone
  <2>2. CASE ~InTable(i)
    <3> DEFINE q == [requests[n] EXCEPT !.todo = @ \ {i}]
    <3>1. /\ Become(n, q) /\ q.at = "insert" /\ q.op = "sync" /\ UNCHANGED <<archives, createdAt>>
          /\ q.todo = requests[n].todo \ {i} /\ q.gone = requests[n].gone
          /\ i \in requests[n].todo /\ At(n, "insert")
      BY <1>0, <1>1, <1>6, <2>2 DEF SyncInsert, Request, Op, At
    <3>2. requests[n].todo = Listed \ Complete /\ requests[n].gone = Complete \ Listed
      BY <1>1, <3>1 DEF Mirrors, At, Updates
    <3>3. Complete' = Complete \cup {i}
      BY <1>0, <1>6, <2>2 DEF SyncInsert, Complete
    <3>4. Listed' = Listed
      BY <3>1 DEF Listed
    <3> HIDE DEF q
    <3>5. requests'[n] = q => Mirrors(n)'
      BY <3>1, <3>2, <3>3, <3>4 DEF Mirrors, At, Updates
    <3> QED
      BY <1>2, <3>1, <3>5
  <2> QED
    BY <2>1, <2>2
<1>7. ASSUME NEW i \in Numbers, SyncPrune(n, i)
      PROVE  InOrder' /\ \A m \in Numbers : Op(m)' = "sync" => Mirrors(m)'
  <2> DEFINE q == [requests[n] EXCEPT !.gone = @ \ {i}]
  <2>1. /\ Become(n, q) /\ q.at = "prune" /\ q.op = "sync" /\ UNCHANGED <<archives, createdAt>>
        /\ q.gone = requests[n].gone \ {i} /\ i \in requests[n].gone /\ At(n, "prune")
    BY <1>0, <1>1, <1>7 DEF SyncPrune, Request, Op, At
  <2>2. Listed \subseteq Complete /\ requests[n].gone = Complete \ Listed
    BY <1>1, <2>1 DEF Mirrors, At, Updates
  <2>3. Complete' = Complete \ {i}
    BY <1>0, <1>7 DEF SyncPrune, SetStatus, Complete, InTable
  <2>4. Listed' = Listed
    BY <2>1 DEF Listed
  <2> HIDE DEF q
  <2>5. requests'[n] = q => Mirrors(n)'
    BY <2>1, <2>2, <2>3, <2>4 DEF Mirrors, At, Updates
  <2> QED
    BY <1>2, <2>1, <2>5
<1> QED
  BY <1>3, <1>4, <1>5, <1>6, <1>7

\* The rest of the agent's steps but Power are a job's, and at most answer its request.
Works(n) ==
  /\ jobs[n].op # "none"
  /\ UNCHANGED requests \/ (Waits(n) /\ \E answer \in {"ok", "error"} :
                              Become(n, [requests[n] EXCEPT !.answer = answer]))

LEMMA AgentWorks ==
  ASSUME TypeOK, Agent
  PROVE  \E n \in Numbers : AgentList(n) \/ Works(n) \/ Power
<1> USE DEF hostVars
<1>1. ASSUME NEW n \in Numbers, NEW answer \in {"ok", "error"}, End(n, answer), jobs[n].op # "none"
      PROVE  Works(n)
  <2>1. CASE Waits(n)
    BY <1>1, <2>1 DEF End, Answer, Works, Become
  <2>2. CASE ~Waits(n)
    BY <1>1, <2>2 DEF End, Answer, Works
  <2> QED
    BY <2>1, <2>2
<1>2. ASSUME NEW n \in Numbers,
             \/ CreateBegin(n) \/ CreatePack(n) \/ CreateFail(n) \/ CreateMeta(n) \/ CreatePrune(n)
             \/ RestoreBegin(n) \/ RestoreMove(n) \/ RestoreMoveFail(n)
             \/ RestoreExtract(n) \/ RestoreFail(n) \/ RestoreBoot(n)
      PROVE  Works(n)
  <2>1. jobs[n].op # "none"
    BY <1>2 DEF CreateBegin, CreatePack, CreateFail, CreateMeta, CreatePrune, RestoreBegin,
       RestoreMove, RestoreMoveFail, RestoreExtract, RestoreFail, RestoreBoot, JobAt
  <2>2. UNCHANGED requests \/ End(n, "ok") \/ End(n, "error")
    BY <1>2 DEF CreateBegin, CreatePack, CreateFail, CreateMeta, CreatePrune, RestoreBegin,
       RestoreMove, RestoreMoveFail, RestoreExtract, RestoreFail, RestoreBoot
  <2> QED
    BY <1>1, <2>1, <2>2 DEF Works
<1>3. CASE Crash
  BY <1>3 DEF Crash, Works
<1>4. CASE Power
  BY <1>4, BoundsAssumption DEF Numbers
<1> QED
  BY <1>2, <1>3, <1>4 DEF Agent

LEMMA MirrorKept ==
  ASSUME Overlap = "none", MirrorInv, [Next]_vars
  PROVE  MirrorInv'
<1> USE DEF hostVars
<1>0. BusyInv /\ TypeOK /\ InOrder /\ NewBare /\ BusyInv'
  BY BusyKept DEF MirrorInv, BusyInv, NewInv
<1> SUFFICES InOrder' /\ \A m \in Numbers : Op(m)' = "sync" => Mirrors(m)'
  BY <1>0 DEF MirrorInv
<1>t. /\ requests \in [Numbers -> Request] /\ \A n \in Numbers : requests[n] \in Request
      /\ jobs \in [Numbers -> Job] /\ \A n \in Numbers : jobs[n] \in Job
  BY <1>0 DEF TypeOK
<1>1. ASSUME NEW op \in RequestOps \ {"none"}, NEW i \in Numbers, Receive(op, i)
      PROVE  InOrder' /\ \A m \in Numbers : Op(m)' = "sync" => Mirrors(m)'
  <2>1. received + 1 \in Numbers
    BY <1>0, <1>1, ReceiveTyped
  <2> PICK new \in Numbers : new = received + 1
    BY <2>1
  <2> DEFINE q == [Idle EXCEPT !.op = op, !.backup = i, !.at = "ask"]
  <2>2. Become(new, q) /\ q.op = op /\ q.at = "ask" /\ q.answer = "none"
    BY <1>1 DEF Receive, Idle
  <2> HIDE DEF q
  <2>3. requests'[new] = q /\ \A m \in Numbers \ {new} : requests'[m] = requests[m]
    BY <1>t, <2>2 DEF Become
  <2>4. \A m \in Numbers : ~BusyAt(m)
    BY <1>1, <1>t DEF Receive, MayBegin, InProgress, BusyAt, Op, Request, Job
  <2>5. \A m \in Numbers \ {new} : Op(m)' # "sync" /\ requests'[m].at \notin Updates
    BY <1>0, <2>3, <2>4 DEF InOrder, BusyAt, Op
  <2> QED
    BY <1>0, <2>2, <2>3, <2>5 DEF InOrder, Mirrors, At, Updates
<1>2. ASSUME NEW n \in Numbers, Send(n)
      PROVE  InOrder' /\ \A m \in Numbers : Op(m)' = "sync" => Mirrors(m)'
  <2>1. /\ \A m \in Numbers \ {n} : requests'[m] = requests[m]
        /\ requests'[n].at = "wait" /\ requests'[n].answer = "none"
        /\ UNCHANGED <<rows, archives, createdAt>>
    BY <1>0, <1>2, SendMakes DEF InOrder
  <2>2. Mirrors(n)' /\ requests'[n].at \notin Updates
    BY <2>1 DEF Mirrors, At, Updates
  <2> QED
    BY <2>1, <2>2, MirrorsElsewhere
<1>3. ASSUME NEW n \in Numbers, Finish(n),
             UNCHANGED <<rows, archives, createdAt>> \/ BusyAt(n)
      PROVE  InOrder' /\ \A m \in Numbers : Op(m)' = "sync" => Mirrors(m)'
  <2>1. Idle.at = "idle" /\ Idle.op = "none" /\ "idle" \notin Updates
    BY DEF Idle, Updates
  <2>2. requests'[n] = Idle /\ \A m \in Numbers \ {n} : requests'[m] = requests[m]
    BY <1>3, <1>t DEF Finish, Become
  <2>3. CASE BusyAt(n)
    BY <1>0, <2>1, <2>2, <2>3, MirrorsAlone
  <2>4. CASE UNCHANGED <<rows, archives, createdAt>>
    BY <2>1, <2>2, <2>4, MirrorsElsewhere
  <2> QED
    BY <1>3, <2>3, <2>4
<1>4. ASSUME NEW n \in Numbers, Lose(n) \/ GiveUp(n)
      PROVE  InOrder' /\ \A m \in Numbers : Op(m)' = "sync" => Mirrors(m)'
  <2> PICK q : /\ q = [requests[n] EXCEPT !.at = "wait", !.answer = "error"]
               /\ requests' = [requests EXCEPT ![n] = q]
    <3>1. CASE Lose(n)
      BY <3>1 DEF Lose, Become
    <3>2. CASE GiveUp(n)
      <4>1. requests' = [requests EXCEPT ![n] = [requests[n] EXCEPT !.answer = "error"]]
        BY <3>2 DEF GiveUp, Answer
      <4>2. [requests[n] EXCEPT !.answer = "error"]
            = [requests[n] EXCEPT !.at = "wait", !.answer = "error"]
        BY <1>t, <3>2 DEF GiveUp, Waits, At, Request
      <4> QED
        BY <4>1, <4>2
    <3> QED
      BY <1>4, <3>1, <3>2
  <2>1. q.at = "wait" /\ q.answer = "error"
    BY <1>t DEF Request
  <2>2. requests'[n] = q /\ \A m \in Numbers \ {n} : requests'[m] = requests[m]
    BY <1>t
  <2>3. UNCHANGED <<rows, archives, createdAt>>
    BY <1>4 DEF Lose, GiveUp
  <2>4. Mirrors(n)' /\ q.at \notin Updates
    BY <2>1, <2>2 DEF Mirrors, At, Updates
  <2> QED
    BY <2>1, <2>2, <2>3, <2>4, MirrorsElsewhere
<1>5. ASSUME NEW n \in Numbers, Goes(n)
      PROVE  InOrder' /\ \A m \in Numbers : Op(m)' = "sync" => Mirrors(m)'
  <2>1. CASE \/ Throw(n) \/ CreateDone(n) \/ DeleteDone(n) \/ RestoreDone(n) \/ SyncRefused(n)
             \/ SyncDone(n)
    <3>1. Finish(n)
      BY <2>1 DEF Throw, CreateDone, DeleteDone, RestoreDone, SyncRefused, SyncDone
    <3>2. UNCHANGED <<rows, archives, createdAt>> \/ BusyAt(n)
      BY <2>1 DEF Throw, CreateDone, DeleteDone, RestoreDone, SyncRefused, SyncDone, BusyAt
    <3> QED
      BY <1>3, <3>1, <3>2
  <2> QED
    BY <1>4, <1>5, <2>1, SyncMirrored DEF Goes
<1>6. CASE Agent
  <2>1. ASSUME NEW n \in Numbers, Works(n)
        PROVE  InOrder' /\ \A m \in Numbers : Op(m)' = "sync" => Mirrors(m)'
    <3>1. BusyAt(n) /\ Op(n) # "sync"
      BY <1>0, <1>t, <2>1 DEF Works, BusyAt, NewBare, Job
    <3>2. \/ UNCHANGED requests
          \/ /\ \A m \in Numbers \ {n} : requests'[m] = requests[m]
             /\ requests'[n].op = Op(n) /\ requests'[n].at = "wait"
      <4>1. ASSUME NEW answer \in {"ok", "error"}, Waits(n),
                   Become(n, [requests[n] EXCEPT !.answer = answer])
            PROVE  /\ \A m \in Numbers \ {n} : requests'[m] = requests[m]
                   /\ requests'[n].op = Op(n) /\ requests'[n].at = "wait"
        BY <1>t, <4>1 DEF Become, Waits, At, Op, Request
      <4> QED
        BY <2>1, <4>1 DEF Works
    <3>3. CASE UNCHANGED requests
      BY <1>0, <3>1, <3>3 DEF InOrder, BusyInv, OneBusy, BusyAt, Op, At
    <3>4. CASE /\ \A m \in Numbers \ {n} : requests'[m] = requests[m]
               /\ requests'[n].op = Op(n) /\ requests'[n].at = "wait"
      BY <1>0, <3>1, <3>4, MirrorsAlone DEF Updates
    <3> QED
      BY <3>2, <3>3, <3>4
  <2>2. CASE Power
    BY <2>2 DEF Power, MirrorInv, InOrder, Mirrors, Op, At, Listed, Complete
  <2> QED
    BY <1>0, <1>6, <2>1, <2>2, AgentWorks, SyncMirrored
<1>7. CASE UNCHANGED vars
  BY <1>7 DEF vars, MirrorInv, InOrder, Mirrors, Op, At, Listed, Complete
<1> QED
  BY <1>0, <1>1, <1>2, <1>5, <1>6, <1>7, ManagerSteps DEF Next

LEMMA InitMirror == Init => MirrorInv
BY InitExclusive DEF Init, MirrorInv, InOrder, Mirrors, Updates, Op, At, Idle

\* A sync that no other request or job runs into leaves, when it ends well, exactly the
\* backups on disk as complete rows, whatever fails (the sync route of agents.ts).
THEOREM SyncsMirror ==
  ASSUME Overlap = "none"
  PROVE  Spec => []SyncMirrors
<1>1. MirrorInv /\ [Next]_vars => MirrorInv'
  BY MirrorKept
<1>2. MirrorInv => SyncMirrors
  BY DEF MirrorInv, InOrder, Mirrors, SyncMirrors, Updates, At
<1> QED
  BY InitMirror, <1>1, <1>2, PTL DEF Spec


-----------------------------------------------------------------------------
(***************************************************************************)
(* What is packed is what the data directory holds.                        *)
(***************************************************************************)

Packs(n) ==
  /\ JobAt(n, "create", "begin") => jobs[n].clean
  /\ JobAt(n, "create", "pack") =>
       jobs[n].clean /\ jobs[n].holds = dirs[Data] /\ dirs[Data] # Nothing
  /\ JobAt(n, "create", "meta") =>
       archives[n] = dirs[Data] \/ ("torn" \in Faults /\ archives[n] = Torn)

PackInv == ExclusiveInv /\ \A n \in Numbers : Packs(n)

\* The steps of a create, and those of a restore.
CreateWorks(n) ==
  CreateBegin(n) \/ CreatePack(n) \/ CreateFail(n) \/ CreateMeta(n) \/ CreatePrune(n)
RestoreWorks(n) ==
  \/ RestoreBegin(n) \/ RestoreMove(n) \/ RestoreMoveFail(n)
  \/ RestoreExtract(n) \/ RestoreFail(n) \/ RestoreBoot(n)

\* A create changes its own archive, and its last step removes listed ones.
LEMMA CreateWorksAlone ==
  ASSUME TypeOK, NEW n \in Numbers, CreateWorks(n)
  PROVE  /\ jobs[n].op = "create" /\ UNCHANGED <<rows, dirs, worlds, up, mount, received>>
         /\ \A m \in Numbers \ {n} :
              /\ jobs'[m] = jobs[m] /\ createdAt'[m] = createdAt[m]
              /\ archives'[m] = archives[m] \/ (m \in Listed /\ archives'[m] = Nothing)
<1>0. /\ jobs \in [Numbers -> Job] /\ createdAt \in [Numbers -> Nat]
      /\ archives \in [Numbers -> Contents]
  BY DEF TypeOK
<1>1. CASE CreateBegin(n)
  BY <1>0, <1>1 DEF CreateBegin, JobAt, End
<1>2. CASE CreatePack(n)
  BY <1>0, <1>2 DEF CreatePack, JobAt, Go
<1>3. CASE CreateFail(n)
  BY <1>0, <1>3 DEF CreateFail, JobAt, End
<1>4. CASE CreateMeta(n)
  BY <1>0, <1>4 DEF CreateMeta, JobAt, Go
<1>5. CASE CreatePrune(n)
  <2>1. Surplus \subseteq Listed
    BY DEF Surplus
  <2> QED
    BY <1>0, <1>5, <2>1 DEF CreatePrune, JobAt, End
<1> QED
  BY <1>1, <1>2, <1>3, <1>4, <1>5 DEF CreateWorks

\* A restore changes no archive, and spoils the other jobs at worst.
LEMMA RestoreWorksAlone ==
  ASSUME TypeOK, NEW n \in Numbers, RestoreWorks(n)
  PROVE  /\ jobs[n].op = "restore" /\ UNCHANGED <<rows, archives, createdAt, received>>
         /\ \A m \in Numbers \ {n} : jobs'[m].op = jobs[m].op /\ jobs'[m].at = jobs[m].at
<1>1. jobs[n].op = "restore" /\ UNCHANGED <<rows, archives, createdAt, received>>
  BY DEF RestoreWorks, RestoreBegin, RestoreMove, RestoreMoveFail, RestoreExtract, RestoreFail,
     RestoreBoot, JobAt, hostVars
<1>2. jobs \in [Numbers -> Job] /\ Spoil(n) \in [Numbers -> Job]
  BY SpoilTyped DEF TypeOK
<1>3. \A m \in Numbers \ {n} : jobs'[m] \in {jobs[m], Spoil(n)[m]}
  BY <1>2 DEF RestoreWorks, RestoreBegin, RestoreMove, RestoreMoveFail, RestoreExtract,
     RestoreFail, RestoreBoot, End, Go
<1>4. \A m \in Numbers : Spoil(n)[m].op = jobs[m].op /\ Spoil(n)[m].at = jobs[m].at
  BY <1>2, SpoilTyped
<1> QED
  BY <1>1, <1>3, <1>4

LEMMA AgentSplits ==
  ASSUME Agent
  PROVE  \/ \E n \in Numbers : AgentList(n) \/ CreateWorks(n) \/ RestoreWorks(n)
         \/ Crash \/ Power
BY DEF Agent, CreateWorks, RestoreWorks

\* What a create does to itself.
LEMMA CreatePacks ==
  ASSUME PackInv, NEW n \in Numbers, CreateWorks(n)
  PROVE  Packs(n)'
<1>0. /\ jobs \in [Numbers -> Job] /\ jobs[n] \in Job
      /\ archives \in [Numbers -> Contents] /\ Packs(n)
  BY DEF PackInv, ExclusiveInv, NewInv, TypeOK
<1>1. ASSUME NEW answer, End(n, answer)
      PROVE  Packs(n)'
  <2>1. jobs'[n] = NoJob /\ NoJob.op = "none"
    BY <1>0, <1>1 DEF End, NoJob
  <2> QED
    BY <2>1 DEF Packs, JobAt
<1>2. CASE CreateBegin(n)
  <2>1. CASE dirs[Data] = Nothing
    BY <1>1, <1>2, <2>1 DEF CreateBegin
  <2>2. CASE dirs[Data] # Nothing
    <3> DEFINE j == [jobs[n] EXCEPT !.at = "pack", !.holds = dirs[Data]]
    <3>1. j.at = "pack" /\ j.holds = dirs[Data] /\ j.clean = jobs[n].clean
      BY <1>0 DEF Job
    <3>2. jobs'[n] = j /\ UNCHANGED dirs
      BY <1>0, <1>2, <2>2 DEF CreateBegin
    <3>3. jobs[n].clean
      BY <1>0, <1>2 DEF CreateBegin, Packs
    <3> HIDE DEF j
    <3> QED
      BY <2>2, <3>1, <3>2, <3>3 DEF Packs, JobAt
  <2> QED
    BY <2>1, <2>2
<1>3. CASE CreatePack(n)
  <2>1. jobs[n].clean /\ jobs[n].holds = dirs[Data]
    BY <1>0, <1>3 DEF CreatePack, Packs
  <2>2. (archives'[n] = dirs[Data] \/ ("torn" \in Faults /\ archives'[n] = Torn)) /\ UNCHANGED dirs
    BY <1>0, <1>3, <2>1 DEF CreatePack
  <2>3. jobs'[n].at = "meta"
    BY <1>0, <1>3 DEF CreatePack, Go, Job
  <2> QED
    BY <2>2, <2>3 DEF Packs, JobAt
<1>4. CASE CreateMeta(n)
  <2>1. jobs'[n].at = "prune"
    BY <1>0, <1>4 DEF CreateMeta, Go, Job
  <2> QED
    BY <2>1 DEF Packs, JobAt
<1>5. CASE CreateFail(n) \/ CreatePrune(n)
  BY <1>1, <1>5 DEF CreateFail, CreatePrune
<1> QED
  BY <1>2, <1>3, <1>4, <1>5 DEF CreateWorks

LEMMA PackKept ==
  ASSUME Overlap # "free", PackInv, [Next]_vars
  PROVE  PackInv'
<1>0. ExclusiveInv /\ NewInv /\ TypeOK /\ ExclusiveInv'
  BY ExclusiveKept DEF PackInv, ExclusiveInv, NewInv
<1> SUFFICES ASSUME NEW m \in Numbers
             PROVE  Packs(m)'
  BY <1>0 DEF PackInv
<1>1. Packs(m)
  BY DEF PackInv
<1>2. ASSUME UNCHANGED <<hostVars, jobs>>
      PROVE  Packs(m)'
  BY <1>1, <1>2 DEF hostVars, Packs, JobAt
<1>3. ASSUME NEW n \in Numbers, Send(n)
      PROVE  Packs(m)'
  <2>1. /\ UNCHANGED hostVars
        /\ \/ jobs'[m] = jobs[m]
           \/ jobs'[m].at = "begin" /\ jobs'[m].clean
    BY <1>0, <1>3, SendMakes
  <2> QED
    BY <1>1, <2>1 DEF hostVars, Packs, JobAt
<1>4. ASSUME NEW n \in Numbers, CreateWorks(n)
      PROVE  Packs(m)'
  <2>1. CASE m = n
    BY <1>4, <2>1, CreatePacks
  <2>2. CASE m # n
    <3>1. /\ jobs'[m] = jobs[m] /\ UNCHANGED dirs
          /\ archives'[m] = archives[m] \/ createdAt[m] # 0
      BY <1>0, <1>4, <2>2, CreateWorksAlone DEF Listed
    <3>2. JobAt(m, "create", "meta") => createdAt[m] = 0
      BY <1>0 DEF NewInv, NewBare, Early, JobAt
    <3> QED
      BY <1>1, <3>1, <3>2 DEF Packs, JobAt
  <2> QED
    BY <2>1, <2>2
<1>5. ASSUME NEW n \in Numbers, RestoreWorks(n)
      PROVE  Packs(m)'
  <2>1. jobs[m].op # "create"
    BY <1>0, <1>5, RestoreWorksAlone DEF ExclusiveInv, Apart, Restores, Creates
  <2>2. jobs'[m].op \in {jobs[m].op, "none"}
    BY <1>0, <1>5, AgentGrows DEF Agent, RestoreWorks, Grows
  <2> QED
    BY <2>1, <2>2 DEF Packs, JobAt
<1>6. CASE Crash
  <2>1. jobs'[m] = NoJob /\ NoJob.op = "none"
    BY <1>6 DEF Crash, NoJob
  <2> QED
    BY <2>1 DEF Packs, JobAt
<1>7. CASE Power
  BY <1>1, <1>7 DEF Power, Packs, JobAt
<1>8. CASE Agent
  BY <1>2, <1>4, <1>5, <1>6, <1>7, <1>8, AgentSplits DEF AgentList
<1>9. CASE Manager
  BY <1>0, <1>2, <1>3, <1>9, ManagerSteps, GoesSettles DEF Receive
<1>10. CASE UNCHANGED vars
  BY <1>2, <1>10 DEF vars, hostVars
<1> QED
  BY <1>8, <1>9, <1>10 DEF Next

LEMMA InitPack == Init => PackInv
<1> SUFFICES ASSUME Init PROVE PackInv
  OBVIOUS
<1>1. \A n \in Numbers : jobs[n].op = "none"
  BY DEF Init, NoJob
<1> QED
  BY <1>1, InitExclusive DEF PackInv, Packs, JobAt

\* Only the writing of the metadata lists a backup.
LEMMA ListedGrows ==
  ASSUME NewInv, [Next]_vars, NEW i \in Numbers, i \in Listed' \ Listed
  PROVE  CreateMeta(i)
<1>0. TypeOK /\ NewBare
  BY DEF NewInv
<1>1. ~UNCHANGED <<archives, createdAt>>
  BY DEF Listed
<1>2. Agent
  <2>1. CASE Manager
    BY <1>0, <1>1, <2>1, ManagerSteps, GoesSettles, SendMakes DEF Receive, hostVars
  <2> QED
    BY <1>1, <2>1 DEF Next, vars
<1>3. PICK n \in Numbers : CreateWorks(n)
  BY <1>0, <1>1, <1>2, AgentSplits, RestoreWorksAlone DEF AgentList, Crash, Power, hostVars
<1>4. i = n
  BY <1>0, <1>3, CreateWorksAlone DEF Listed
<1>5. createdAt'[i] # 0 /\ archives'[i] # Nothing
  BY DEF Listed
<1>6. CASE createdAt'[i] # createdAt[i]
  <2>1. JobAt(i, "create", "meta") /\ JobAt(i, "create", "prune")'
    BY <1>0, <1>2, <1>6, AgentGrows DEF Grows
  <2>2. CreateMeta(n)
    BY <1>3, <1>4, <2>1 DEF CreateWorks, CreateBegin, CreatePack, CreateFail, CreatePrune, JobAt
  <2> QED
    BY <1>4, <2>2
<1>7. CASE createdAt'[i] = createdAt[i]
  <2>1. ~Early(i) /\ archives[i] = Nothing
    BY <1>0, <1>5, <1>7 DEF NewBare, Listed
  <2>2. CreatePrune(n)
    BY <1>3, <1>4, <2>1 DEF CreateWorks, CreateBegin, CreatePack, CreateFail, CreateMeta, JobAt, Early
  <2> QED
    BY <1>5, <2>1, <2>2 DEF CreatePrune
<1> QED
  BY <1>6, <1>7

\* A backup that becomes listed holds what the data directory holds, however many requests
\* fail at the Worker while their jobs go on and whatever fails on the host, as long as no
\* restore runs into a create (CreateBackup); or it lacks its end, if that can fail to
\* be written, for nobody looks whether it was.
THEOREM BackupsAreFaithful ==
  ASSUME Overlap # "free"
  PROVE  Spec => BackupsFaithful
<1>1. PackInv /\ [Next]_vars => PackInv'
  BY PackKept
<1>2. PackInv /\ [Next]_vars =>
        \A i \in Listed' \ Listed :
          archives'[i] = dirs[Data] \/ ("torn" \in Faults /\ archives'[i] = Torn)
  <2> SUFFICES ASSUME PackInv, [Next]_vars, NEW i \in Listed' \ Listed
               PROVE  archives'[i] = dirs[Data] \/ ("torn" \in Faults /\ archives'[i] = Torn)
    OBVIOUS
  <2>1. i \in Numbers
    BY DEF Listed
  <2>2. JobAt(i, "create", "meta") /\ archives'[i] = archives[i]
    BY <2>1, ListedGrows DEF PackInv, ExclusiveInv, CreateMeta
  <2> QED
    BY <2>1, <2>2 DEF PackInv, Packs
<1> QED
  BY InitPack, <1>1, <1>2, PTL DEF Spec, BackupsFaithful


-----------------------------------------------------------------------------
(***************************************************************************)
(* The server never runs on part of a world.  A restart of the agent, and  *)
(* a directory that cannot be renamed, do leave part of one for the next   *)
(* start of the server; nothing else does.                                 *)
(***************************************************************************)

Extracts(n) == JobAt(n, "restore", "extract")

\* Part of an archive is being packed: none that can be restored is in part.
PartsPacked == \A n \in Numbers : archives[n] = Part => JobAt(n, "create", "pack")

\* The data directory holds a world unless a restore extracts; that one has the world
\* aside and an archive to extract, alone, and the server does not run on what it makes.
ExtractsAside(n) ==
  /\ Whole(dirs[n])
  /\ jobs[n].clean /\ jobs[n].holds # Part
  /\ up => mount # Data
Extracting ==
  /\ (\A n \in Numbers : ~Extracts(n)) => Whole(dirs[Data])
  /\ \A n \in Numbers : Extracts(n) => ExtractsAside(n)

RunsInv == PackInv /\ PartsPacked /\ Extracting

\* The restores that are left once one step of restore n is taken.
LEMMA NoOtherExtracts ==
  ASSUME ExclusiveInv, Agent, NEW n \in Numbers, jobs[n].op = "restore"
  PROVE  \A m \in Numbers \ {n} : ~Extracts(m) /\ ~Extracts(m)'
<1>1. \A m \in Numbers \ {n} : jobs[m].op # "restore"
  BY DEF ExclusiveInv, OneRestore, Restores
<1>2. \A m \in Numbers : jobs'[m].op \in {jobs[m].op, "none"}
  BY AgentGrows DEF ExclusiveInv, NewInv, Grows
<1> QED
  BY <1>1, <1>2 DEF Extracts, JobAt

LEMMA CreatesRun ==
  ASSUME RunsInv, NEW n \in Numbers, CreateWorks(n)
  PROVE  PartsPacked' /\ Extracting'
<1>0. /\ TypeOK /\ jobs \in [Numbers -> Job] /\ jobs[n] \in Job
      /\ archives \in [Numbers -> Contents] /\ ExclusiveInv /\ Packs(n)
  BY DEF RunsInv, PackInv, ExclusiveInv, NewInv, TypeOK
<1>1. /\ jobs[n].op = "create" /\ UNCHANGED <<dirs, up, mount>>
      /\ \A m \in Numbers \ {n} :
           jobs'[m] = jobs[m] /\ (archives'[m] = archives[m] \/ archives'[m] = Nothing)
  BY <1>0, CreateWorksAlone
<1>2. jobs'[n].op \in {"create", "none"}
  BY <1>0, <1>1, AgentGrows DEF Agent, CreateWorks, Grows
<1>3. \A m \in Numbers : ~Extracts(m) /\ ~Extracts(m)'
  BY <1>0, <1>1, <1>2 DEF ExclusiveInv, Apart, Restores, Creates, Extracts, JobAt
<1>4. Extracting'
  BY <1>1, <1>3 DEF RunsInv, Extracting, Whole
<1>5. archives'[n] = Part => JobAt(n, "create", "pack")'
  <2>1. CASE CreateBegin(n)
    <3>1. CASE dirs[Data] = Nothing
      BY <1>0, <2>1, <3>1 DEF CreateBegin, RunsInv, PartsPacked, JobAt
    <3>2. CASE dirs[Data] # Nothing
      <4> DEFINE j == [jobs[n] EXCEPT !.at = "pack", !.holds = dirs[Data]]
      <4>1. j.at = "pack" /\ j.op = jobs[n].op
        BY <1>0 DEF Job
      <4>2. jobs'[n] = j
        BY <1>0, <2>1, <3>2 DEF CreateBegin
      <4> QED
        BY <1>1, <4>1, <4>2 DEF JobAt
    <3> QED
      BY <3>1, <3>2
  <2>2. CASE CreatePack(n)
    <3>1. archives'[n] \in {dirs[Data], Torn}
      BY <1>0, <2>2 DEF CreatePack, Packs
    <3> QED
      BY <1>3, <3>1 DEF RunsInv, Extracting, Whole, Part, Torn
  <2>3. CASE CreateFail(n)
    BY <1>0, <2>3 DEF CreateFail, Nothing, Part, Torn
  <2>4. CASE CreateMeta(n)
    BY <2>4 DEF CreateMeta, RunsInv, PartsPacked, JobAt
  <2>5. CASE CreatePrune(n)
    BY <1>0, <2>5 DEF CreatePrune, RunsInv, PartsPacked, JobAt, Nothing, Part, Torn
  <2> QED
    BY <2>1, <2>2, <2>3, <2>4, <2>5 DEF CreateWorks
<1>6. PartsPacked'
  <2> SUFFICES ASSUME NEW m \in Numbers, archives'[m] = Part
               PROVE  JobAt(m, "create", "pack")'
    BY DEF PartsPacked
  <2>1. CASE m = n
    BY <1>5, <2>1
  <2>2. CASE m # n
    BY <1>1, <2>2 DEF RunsInv, PartsPacked, JobAt, Nothing, Part, Torn
  <2> QED
    BY <2>1, <2>2
<1> QED
  BY <1>4, <1>6

LEMMA RestoresRun ==
  ASSUME "move" \notin Faults, "short" \notin Faults, RunsInv, NEW n \in Numbers, RestoreWorks(n)
  PROVE  PartsPacked' /\ Extracting'
<1>0. /\ TypeOK /\ jobs \in [Numbers -> Job] /\ jobs[n] \in Job /\ ExclusiveInv
      /\ archives \in [Numbers -> Contents] /\ dirs \in [Dirs -> Contents] /\ worlds \in Nat
      /\ n \in Dirs /\ Data \in Dirs /\ n # Data
  BY DEF RunsInv, PackInv, ExclusiveInv, NewInv, TypeOK, Dirs, Data, Numbers
<1>1. jobs[n].op = "restore" /\ UNCHANGED archives /\ Agent
  BY <1>0, RestoreWorksAlone DEF Agent, RestoreWorks
<1>2. \A m \in Numbers \ {n} : ~Extracts(m) /\ ~Extracts(m)'
  BY <1>0, <1>1, NoOtherExtracts
<1>3. \A m \in Numbers : archives[m] # Part
  BY <1>0, <1>1 DEF RunsInv, PartsPacked, JobAt, ExclusiveInv, Apart, Restores, Creates
<1>4. PartsPacked'
  BY <1>1, <1>3 DEF PartsPacked
<1>5. ASSUME ~Extracts(n)', ~Extracts(n), UNCHANGED dirs
      PROVE  Extracting'
  BY <1>2, <1>5 DEF RunsInv, Extracting, Whole
<1>6. ASSUME ~Extracts(n)', Whole(dirs'[Data])
      PROVE  Extracting'
  BY <1>2, <1>6 DEF Extracting, Whole
<1>7. CASE RestoreBegin(n) \/ RestoreBoot(n)
  <2>1. NoJob.at # "extract"
    BY DEF NoJob
  <2>2. ~Extracts(n)
    BY <1>7 DEF RestoreBegin, RestoreBoot, Extracts, JobAt
  <2>3. jobs'[n].at # "extract" /\ UNCHANGED dirs
    BY <1>0, <1>7, <2>1 DEF RestoreBegin, RestoreBoot, End, Go, Job
  <2> QED
    BY <1>4, <1>5, <2>2, <2>3 DEF Extracts, JobAt
<1>8. CASE RestoreMove(n)
  <2> DEFINE content == archives[jobs[n].backup]
             j == [Spoil(n)[n] EXCEPT !.at = "extract", !.holds = content, !.clean = Alone(n)]
  <2>1. Spoil(n)[n] \in Job /\ jobs' = [Spoil(n) EXCEPT ![n] = j] /\ Spoil(n) \in [Numbers -> Job]
    BY <1>0, <1>8, SpoilTyped DEF RestoreMove
  <2>2. j.holds = content /\ j.clean = Alone(n) /\ jobs'[n] = j
    BY <2>1 DEF Job
  <2>3. content # Part
    BY <1>0, <1>3 DEF Job
  <2>4. Alone(n)
    BY <1>2 DEF Alone, Extracts
  <2>5. Whole(dirs[Data])
    <3>1. ~Extracts(n)
      BY <1>8 DEF RestoreMove, Extracts, JobAt
    <3> QED
      BY <1>2, <3>1 DEF RunsInv, Extracting
  <2>6. dirs'[n] = dirs[Data]
    BY <1>0, <1>8 DEF RestoreMove
  <2>7. up' => mount' # Data
    BY <1>0, <1>8, <2>5 DEF RestoreMove, Whole, Nothing, Part, Torn
  <2>8. Extracts(n)'
    <3>1. j.op = "restore" /\ j.at = "extract"
      BY <1>0, <1>1, <2>1, SpoilTyped DEF Job
    <3> QED
      BY <2>2, <3>1 DEF Extracts, JobAt
  <2> HIDE DEF j, content
  <2> QED
    BY <1>2, <1>4, <2>2, <2>3, <2>4, <2>5, <2>6, <2>7, <2>8 DEF Extracting, ExtractsAside, Whole
<1>9. CASE RestoreExtract(n)
  <2>1. ExtractsAside(n)
    BY <1>9 DEF RestoreExtract, RunsInv, Extracting, Extracts
  <2>2. Whole(jobs[n].holds)
    BY <1>0, <1>9, <2>1 DEF RestoreExtract, ExtractsAside, Whole, Part, Torn, Nothing, Job, Contents
  <2>3. Whole(dirs'[Data])
    <3>1. dirs'[Data] = World(worlds + 1)
      BY <1>0, <1>9, <2>1, <2>2 DEF RestoreExtract, ExtractsAside
    <3> QED
      BY <1>0, <3>1 DEF Whole, World, Part, Torn
  <2>4. jobs'[n].at # "extract"
    BY <1>0, <1>9, SpoilTyped DEF RestoreExtract, Job
  <2> QED
    BY <1>4, <1>6, <2>3, <2>4 DEF Extracts, JobAt
<1>10. CASE RestoreFail(n)
  <2>1. ExtractsAside(n)
    BY <1>10 DEF RestoreFail, RunsInv, Extracting, Extracts
  <2>2. dirs[n] # Nothing
    BY <2>1 DEF ExtractsAside, Whole, Part, Torn, Nothing
  <2>3. dirs'[Data] = dirs[n]
    BY <1>0, <1>10, <2>2 DEF RestoreFail
  <2>4. jobs'[n].at # "extract"
    <3> DEFINE j == [Spoil(n)[n] EXCEPT !.at = "boot", !.ok = FALSE]
    <3>1. Spoil(n)[n] \in Job /\ Spoil(n) \in [Numbers -> Job]
      BY <1>0, SpoilTyped
    <3>2. j.at = "boot" /\ jobs' = [Spoil(n) EXCEPT ![n] = j]
      BY <1>10, <3>1 DEF RestoreFail, Job
    <3> QED
      BY <3>1, <3>2
  <2> QED
    BY <1>4, <1>6, <2>1, <2>3, <2>4 DEF Extracts, JobAt, ExtractsAside, Whole
<1> QED
  BY <1>7, <1>8, <1>9, <1>10 DEF RestoreWorks, RestoreMoveFail

LEMMA RunsKept ==
  ASSUME Overlap # "free", Faults \cap {"crash", "move", "short"} = {}, RunsInv, [Next]_vars
  PROVE  RunsInv'
<1>0. PackInv' /\ ExclusiveInv /\ NewInv /\ TypeOK
  BY PackKept DEF RunsInv, PackInv, ExclusiveInv, NewInv
<1> SUFFICES PartsPacked' /\ Extracting'
  BY <1>0 DEF RunsInv
<1>1. ASSUME UNCHANGED <<archives, dirs, jobs>>,
             UNCHANGED <<up, mount>> \/ \A n \in Numbers : ~Extracts(n)
      PROVE  PartsPacked' /\ Extracting'
  BY <1>1 DEF RunsInv, PartsPacked, Extracting, Extracts, ExtractsAside, JobAt, Whole
<1>2. ASSUME NEW n \in Numbers, Send(n)
      PROVE  PartsPacked' /\ Extracting'
  <2>1. /\ UNCHANGED <<archives, dirs, up, mount>>
        /\ \A m \in Numbers \ {n} : jobs'[m] = jobs[m]
        /\ jobs'[n] = jobs[n] \/ jobs'[n].at = "begin"
    BY <1>0, <1>2, SendMakes DEF hostVars
  <2>2. jobs[n].op = "none"
    BY <1>0, <1>2 DEF NewInv, NewBare, Send
  <2>3. \A m \in Numbers : (Extracts(m)' <=> Extracts(m)) /\ (Extracts(m) => jobs'[m] = jobs[m])
    BY <2>1, <2>2 DEF Extracts, JobAt
  <2>4. PartsPacked'
    BY <2>1, <2>2 DEF RunsInv, PartsPacked, JobAt
  <2> QED
    BY <2>1, <2>3, <2>4 DEF RunsInv, Extracting, ExtractsAside, Whole
<1>3. CASE Power
  <2>1. \A n \in Numbers : ~Extracts(n)
    BY <1>3 DEF Power, InProgress, Extracts, JobAt
  <2> QED
    BY <1>1, <1>3, <2>1 DEF Power
<1>4. CASE Agent
  BY <1>1, <1>3, <1>4, CreatesRun, RestoresRun, AgentSplits DEF AgentList, Crash, hostVars
<1>5. CASE Manager
  BY <1>0, <1>1, <1>2, <1>5, ManagerSteps, GoesSettles DEF Receive, hostVars
<1>6. CASE UNCHANGED vars
  BY <1>1, <1>6 DEF vars
<1> QED
  BY <1>4, <1>5, <1>6 DEF Next

LEMMA InitRuns == Init => RunsInv
<1> SUFFICES ASSUME Init PROVE RunsInv
  OBVIOUS
<1>1. \A n \in Numbers : ~Extracts(n)
  BY DEF Init, NoJob, Extracts, JobAt
<1>2. Whole(dirs[Data]) /\ \A n \in Numbers : archives[n] # Part
  BY DEF Init, Whole, World, Part, Torn, Nothing, Dirs, Data
<1> QED
  BY <1>1, <1>2, InitPack DEF RunsInv, PartsPacked, Extracting

\* With no start, create or other restore in its way, a restore never has the server run on
\* a half-extracted directory, whether Docker, the archive or the Worker fails under it
\* (RestoreFromBackup: stop, extract or roll back, then start).
THEOREM NothingRunsOnPart ==
  ASSUME Overlap # "free", Faults \cap {"crash", "move", "short"} = {}
  PROVE  Spec => []NeverRunsOnPart
<1>1. RunsInv /\ [Next]_vars => RunsInv'
  BY RunsKept
<1>2. RunsInv => NeverRunsOnPart
  BY DEF RunsInv, Extracting, ExtractsAside, NeverRunsOnPart, Whole, Part, Torn
<1> QED
  BY InitRuns, <1>1, <1>2, PTL DEF Spec


-----------------------------------------------------------------------------
(***************************************************************************)
(* Retention.  Among the backups that are too many, the newest has only    *)
(* such above it as stay, so it has Keep of them; whatever is older than   *)
(* it has them too.                                                        *)
(***************************************************************************)

LEMMA NumbersFinite == ASSUME NEW S \in SUBSET Numbers PROVE IsFiniteSet(S)
<1>1. IsFiniteSet(Numbers)
  BY BoundsAssumption, FS_Interval DEF Numbers
<1> QED
  BY <1>1, FS_Subset

\* Of a family of sets of backups one is minimal.
LEMMA MinimalSet ==
  ASSUME NEW F \in SUBSET SUBSET Numbers, F # {}
  PROVE  \E A \in F : \A B \in F : B \subseteq A => B = A
<1>1. F \subseteq FiniteSubsetsOf(Numbers)
  BY NumbersFinite DEF FiniteSubsetsOf
<1>2. PICK A \in F : \A B \in F : ~(<<B, A>> \in StrictSubsetOrdering(Numbers))
  <2>1. IsWellFoundedOn(StrictSubsetOrdering(Numbers), FiniteSubsetsOf(Numbers))
    BY FS_StrictSubsetOrderingWellFounded
  <2> HIDE DEF StrictSubsetOrdering, FiniteSubsetsOf, IsWellFoundedOn
  <2> QED
    BY <1>1, <2>1, WFMin
<1>3. \A B \in F : B \subseteq A => B = A
  BY <1>2 DEF StrictSubsetOrdering
<1> QED
  BY <1>3

\* Any backups have a newest and an oldest.
LEMMA Newest ==
  ASSUME createdAt \in [Numbers -> Nat], NEW S \in SUBSET Numbers, S # {}
  PROVE  \E i \in S : Newer(S, i) = {}
<1> DEFINE F == {Newer(S, i) : i \in S}
<1>1. F \in SUBSET SUBSET Numbers /\ F # {}
  BY DEF Newer
<1>2. PICK A \in F : \A B \in F : B \subseteq A => B = A
  BY <1>1, MinimalSet
<1>3. PICK i \in S : A = Newer(S, i)
  BY <1>2
<1>4. ASSUME NEW j \in Newer(S, i)
      PROVE  FALSE
  <2>1. Newer(S, j) \subseteq Newer(S, i) /\ j \notin Newer(S, j) /\ j \in S
    BY <1>4 DEF Newer
  <2> QED
    BY <1>2, <1>3, <1>4, <2>1
<1> QED
  BY <1>4

Older(S, i) == {j \in S : createdAt[j] < createdAt[i]}
LEMMA Oldest ==
  ASSUME createdAt \in [Numbers -> Nat], NEW S \in SUBSET Numbers, S # {}
  PROVE  \E i \in S : Older(S, i) = {}
<1> DEFINE F == {Older(S, i) : i \in S}
<1>1. F \in SUBSET SUBSET Numbers /\ F # {}
  BY DEF Older
<1>2. PICK A \in F : \A B \in F : B \subseteq A => B = A
  BY <1>1, MinimalSet
<1>3. PICK i \in S : A = Older(S, i)
  BY <1>2
<1>4. ASSUME NEW j \in Older(S, i)
      PROVE  FALSE
  <2>1. Older(S, j) \subseteq Older(S, i) /\ j \notin Older(S, j) /\ j \in S
    BY <1>4 DEF Older
  <2> QED
    BY <1>2, <1>3, <1>4, <2>1
<1> QED
  BY <1>4

\* Whoever goes has Keep newer ones among those that stay.
LEMMA SurplusSpares ==
  ASSUME TypeOK, NEW i \in Surplus
  PROVE  Cardinality(Newer(Listed \ Surplus, i)) >= Keep
<1> DEFINE N == Newer(Listed, i)
           T == N \cap Surplus
           S == Newer(Listed \ Surplus, i)
<1>0. /\ createdAt \in [Numbers -> Nat] /\ Keep \in Nat
      /\ Listed \in SUBSET Numbers /\ Surplus \in SUBSET Listed
      /\ N \in SUBSET Numbers /\ T \in SUBSET Numbers /\ S \in SUBSET Numbers
  BY BoundsAssumption DEF TypeOK, Listed, Surplus, Newer
<1>1. \A A \in SUBSET S : Cardinality(A) <= Cardinality(S)
  BY <1>0, NumbersFinite, FS_Subset
<1>2. Cardinality(S) \in Nat /\ \A A \in SUBSET S : Cardinality(A) \in Nat
  BY <1>0, NumbersFinite, CountTyped
<1>3. \E A \in SUBSET S : Cardinality(A) >= Keep
  <2>1. CASE T = {}
    <3>1. N \subseteq S
      BY <1>0, <2>1 DEF Newer
    <3>2. Cardinality(N) >= Keep
      BY DEF Surplus
    <3> QED
      BY <3>1, <3>2
  <2>2. CASE T # {}
    <3> PICK j \in T : Newer(T, j) = {}
      BY <1>0, <2>2, Newest
    <3>1. Cardinality(Newer(Listed, j)) >= Keep
      BY DEF Surplus
    <3>2. Newer(Listed, j) \subseteq S
      <4> SUFFICES ASSUME NEW k \in Newer(Listed, j) PROVE k \in S
        OBVIOUS
      <4>1. k \in Listed /\ createdAt[k] > createdAt[j] /\ createdAt[j] > createdAt[i]
            /\ i \in Numbers /\ j \in Numbers /\ k \in Numbers
        BY <1>0 DEF Newer
      <4>2. createdAt[k] > createdAt[i]
        BY <1>0, <4>1
      <4>3. k \notin T
        BY <4>1 DEF Newer
      <4> QED
        BY <4>1, <4>2, <4>3 DEF Newer
    <3> QED
      BY <3>1, <3>2
  <2> QED
    BY <2>1, <2>2
<1> QED
  BY <1>0, <1>1, <1>2, <1>3

\* Only enforceRetention unlists a backup.
LEMMA ListedShrinks ==
  ASSUME NewInv, [Next]_vars, NEW i \in Numbers, i \in Listed \ Listed'
  PROVE  \E n \in Numbers : CreatePrune(n)
<1>0. TypeOK /\ NewBare
  BY DEF NewInv
<1>1. ~UNCHANGED <<archives, createdAt>>
  BY DEF Listed
<1>2. Agent
  <2>1. CASE Manager
    BY <1>0, <1>1, <2>1, ManagerSteps, GoesSettles, SendMakes DEF Receive, hostVars
  <2> QED
    BY <1>1, <2>1 DEF Next, vars
<1>3. PICK n \in Numbers : CreateWorks(n)
  BY <1>0, <1>1, <1>2, AgentSplits, RestoreWorksAlone DEF AgentList, Crash, Power, hostVars
<1>4. createdAt[i] # 0 /\ archives[i] # Nothing
  BY DEF Listed
<1>5. ~Early(i)
  BY <1>0, <1>4 DEF NewBare
<1>6. createdAt'[i] = createdAt[i]
  BY <1>0, <1>2, <1>5, AgentGrows DEF Grows, Early, JobAt
<1>7. archives'[i] # archives[i]
  BY <1>4, <1>6 DEF Listed
<1>8. CASE i = n
  BY <1>3, <1>5, <1>8
  DEF CreateWorks, CreateBegin, CreatePack, CreateFail, CreateMeta, JobAt, Early
<1>9. CASE i # n
  BY <1>0, <1>3, <1>7, <1>9
  DEF CreateWorks, CreateBegin, CreatePack, CreateFail, CreateMeta, TypeOK
<1> QED
  BY <1>8, <1>9

\* What is listed after enforceRetention.
LEMMA PruneLists ==
  ASSUME TypeOK, NEW n \in Numbers, CreatePrune(n)
  PROVE  Listed' = Listed \ Surplus /\ UNCHANGED createdAt
BY DEF CreatePrune, TypeOK, Listed, Surplus

\* A backup disappears from disk only if Keep newer ones remain, however many creates end at
\* once, whatever overlaps and whatever fails (enforceRetention).
THEOREM RetentionIsKept == Spec => RetentionSpares
<1>1. NewInv /\ [Next]_vars => NewInv'
  BY NewKept
<1>2. NewInv /\ [Next]_vars =>
        \A i \in Listed \ Listed' : Cardinality(Newer(Listed', i)) >= Keep
  <2> SUFFICES ASSUME NewInv, [Next]_vars, NEW i \in Listed \ Listed'
               PROVE  Cardinality(Newer(Listed', i)) >= Keep
    OBVIOUS
  <2>0. TypeOK /\ i \in Numbers
    BY DEF NewInv, Listed
  <2>1. PICK n \in Numbers : CreatePrune(n)
    BY <2>0, ListedShrinks
  <2>2. Listed' = Listed \ Surplus
    BY <2>0, <2>1, PruneLists
  <2>3. i \in Surplus
    BY <2>2
  <2> QED
    BY <2>0, <2>2, <2>3, SurplusSpares
<1> QED
  BY InitNew, <1>1, <1>2, PTL DEF Spec, RetentionSpares


\* The times in the metadata differ: each is one more than all that were there.
Stamped == {i \in Numbers : createdAt[i] # 0}
Times ==
  /\ \A i \in Numbers : createdAt[i] <= Cardinality(Stamped)
  /\ \A i, j \in Stamped : createdAt[i] = createdAt[j] => i = j

Pruning == {n \in Numbers : JobAt(n, "create", "prune")}

ShelfInv == NewInv /\ Times /\ ShelfBounded

\* enforceRetention leaves Keep at most.
LEMMA FewStay ==
  ASSUME TypeOK, Times
  PROVE  Cardinality(Listed \ Surplus) <= Keep
<1> DEFINE S == Listed \ Surplus
<1>0. /\ createdAt \in [Numbers -> Nat] /\ Keep \in Nat /\ S \in SUBSET Numbers
      /\ Listed \in SUBSET Stamped
  BY BoundsAssumption DEF TypeOK, Listed, Stamped
<1>1. CASE S = {}
  BY <1>0, <1>1, FS_EmptySet
<1>2. CASE S # {}
  <2> PICK i \in S : Older(S, i) = {}
    BY <1>0, <1>2, Oldest
  <2>1. S \ {i} \subseteq Newer(Listed, i)
    <3> SUFFICES ASSUME NEW j \in S \ {i} PROVE createdAt[j] > createdAt[i]
      BY DEF Newer
    <3>1. ~(createdAt[j] < createdAt[i])
      BY DEF Older
    <3>2. createdAt[j] # createdAt[i]
      BY <1>0 DEF Times
    <3> QED
      BY <1>0, <3>1, <3>2
  <2>2. Newer(Listed, i) \in SUBSET Numbers /\ ~(Cardinality(Newer(Listed, i)) >= Keep)
    BY <1>0 DEF Newer, Surplus, Listed
  <2>3. /\ Cardinality(Newer(Listed, i)) \in Nat /\ Cardinality(S \ {i}) \in Nat
        /\ Cardinality(S \ {i}) <= Cardinality(Newer(Listed, i))
    BY <1>0, <2>1, <2>2, CountTyped, NumbersFinite, FS_Subset
  <2>4. Cardinality(S \ {i}) = Cardinality(S) - 1 /\ Cardinality(S) \in Nat
    BY <1>0, CountTyped, NumbersFinite, FS_RemoveElement
  <2> QED
    BY <1>0, <2>2, <2>3, <2>4
<1> QED
  BY <1>1, <1>2

\* A step other than these leaves the creates that have yet to prune.
LEMMA PruningKept ==
  ASSUME NewInv, [Next]_vars, "crash" \notin Faults,
         \A n \in Numbers : ~CreateMeta(n) /\ ~CreatePrune(n)
  PROVE  Pruning' = Pruning
<1>0. TypeOK /\ NewBare /\ jobs \in [Numbers -> Job] /\ \A n \in Numbers : jobs[n] \in Job
  BY DEF NewInv, TypeOK
<1> SUFFICES ASSUME NEW m \in Numbers
             PROVE  JobAt(m, "create", "prune")' <=> JobAt(m, "create", "prune")
  BY DEF Pruning
<1>1. CASE UNCHANGED jobs
  BY <1>1 DEF JobAt
<1>2. ASSUME NEW n \in Numbers, Send(n)
      PROVE  JobAt(m, "create", "prune")' <=> JobAt(m, "create", "prune")
  <2>1. jobs'[m] = jobs[m] \/ (m = n /\ jobs'[m].at = "begin")
    BY <1>0, <1>2, SendMakes
  <2>2. jobs[n].op = "none"
    BY <1>0, <1>2 DEF NewBare, Send
  <2> QED
    BY <2>1, <2>2 DEF JobAt
<1>3. ASSUME NEW n \in Numbers, CreateWorks(n)
      PROVE  JobAt(m, "create", "prune")' <=> JobAt(m, "create", "prune")
  <2>1. CASE m # n
    BY <1>0, <1>3, <2>1, CreateWorksAlone DEF JobAt
  <2>2. CASE m = n
    <3>1. NoJob.at # "prune"
      BY DEF NoJob
    <3>2. CASE CreateBegin(n)
      <4>1. CASE dirs[Data] = Nothing
        BY <1>0, <2>2, <3>1, <3>2, <4>1 DEF CreateBegin, End, JobAt
      <4>2. CASE dirs[Data] # Nothing
        <5> DEFINE j == [jobs[n] EXCEPT !.at = "pack", !.holds = dirs[Data]]
        <5>0. jobs' = [jobs EXCEPT ![n] = j]
          BY <1>0, <3>2, <4>2 DEF CreateBegin
        <5>1. j.at = "pack" /\ jobs'[n] = j
          BY <1>0, <5>0 DEF Job
        <5> QED
          BY <2>2, <3>2, <5>1 DEF CreateBegin, JobAt
      <4> QED
        BY <4>1, <4>2
    <3>3. CASE CreatePack(n)
      BY <1>0, <2>2, <3>3 DEF CreatePack, Go, JobAt, Job
    <3>4. CASE CreateFail(n)
      BY <1>0, <2>2, <3>1, <3>4 DEF CreateFail, End, JobAt
    <3> QED
      BY <1>3, <3>2, <3>3, <3>4 DEF CreateWorks
  <2> QED
    BY <2>1, <2>2
<1>4. ASSUME NEW n \in Numbers, RestoreWorks(n)
      PROVE  JobAt(m, "create", "prune")' <=> JobAt(m, "create", "prune")
  <2>1. jobs[n].op = "restore" /\ jobs'[n].op # "create"
    BY <1>0, <1>4, RestoreWorksAlone, AgentGrows DEF Agent, RestoreWorks, Grows
  <2> QED
    BY <1>0, <1>4, <2>1, RestoreWorksAlone DEF JobAt
<1>5. CASE Agent
  BY <1>1, <1>3, <1>4, <1>5, AgentSplits DEF AgentList, Crash, Power
<1>6. CASE Manager
  BY <1>0, <1>1, <1>2, <1>6, ManagerSteps, GoesSettles DEF Receive
<1> QED
  BY <1>1, <1>5, <1>6 DEF Next, vars

LEMMA TimesKept ==
  ASSUME NewInv, Times, [Next]_vars
  PROVE  Times'
<1>0. /\ TypeOK /\ NewBare /\ createdAt \in [Numbers -> Nat]
      /\ Stamped \in SUBSET Numbers /\ Cardinality(Stamped) \in Nat /\ IsFiniteSet(Stamped)
  BY CountTyped, NumbersFinite DEF NewInv, TypeOK, Stamped
<1>1. CASE UNCHANGED createdAt
  BY <1>1 DEF Times, Stamped
<1>2. CASE createdAt' # createdAt
  <2>1. PICK n \in Numbers : CreateMeta(n)
    <3>1. CASE Agent
      BY <1>2, <3>1 DEF Agent, AgentList, CreateBegin, CreatePack, CreateFail, CreatePrune,
         RestoreBegin, RestoreMove, RestoreMoveFail, RestoreExtract, RestoreFail, RestoreBoot,
         Crash, Power, hostVars
    <3>2. CASE Manager
      BY <1>0, <1>2, <3>2, ManagerSteps, GoesSettles, SendMakes DEF Receive, hostVars
    <3> QED
      BY <1>2, <3>1, <3>2 DEF Next, vars
  <2> PICK c \in Nat : c = Cardinality(Stamped)
    BY <1>0
  <2>2. createdAt' = [createdAt EXCEPT ![n] = 1 + c]
    BY <1>2, <2>1 DEF CreateMeta, Stamped
  <2>3. createdAt[n] = 0
    BY <1>0, <2>1 DEF NewBare, Early, CreateMeta, JobAt
  <2>4. Stamped' = Stamped \cup {n} /\ n \notin Stamped
    <3>1. createdAt \in [Numbers -> Nat]
      BY <1>0
    <3>2. \A i \in Numbers : createdAt'[i] # 0 <=> (i = n \/ createdAt[i] # 0)
      BY <2>2, <3>1
    <3> QED
      BY <2>3, <3>2 DEF Stamped
  <2>5. Cardinality(Stamped') = c + 1
    BY <1>0, <2>4, FS_AddElement
  <2>6. \A i \in Numbers : createdAt'[i] <= c + 1
    BY <1>0, <2>2 DEF Times
  <2>7. \A i, j \in Stamped' : createdAt'[i] = createdAt'[j] => i = j
    BY <1>0, <2>2, <2>4 DEF Times
  <2> QED
    BY <2>5, <2>6, <2>7 DEF Times
<1> QED
  BY <1>1, <1>2

LEMMA ShelfKept ==
  ASSUME "crash" \notin Faults, ShelfInv, [Next]_vars
  PROVE  ShelfInv'
<1>0. NewInv /\ NewInv' /\ TypeOK /\ Times /\ Times' /\ jobs \in [Numbers -> Job]
  BY NewKept, TimesKept DEF ShelfInv, NewInv, TypeOK
<1>1. /\ Keep \in Nat /\ Cardinality(Listed) \in Nat /\ Cardinality(Pruning) \in Nat
      /\ Cardinality(Listed') \in Nat /\ Cardinality(Pruning') \in Nat
      /\ IsFiniteSet(Listed) /\ IsFiniteSet(Pruning)
      /\ Cardinality(Listed) <= Keep + Cardinality(Pruning)
  <2>1. /\ Listed \in SUBSET Numbers /\ Pruning \in SUBSET Numbers
        /\ Listed' \in SUBSET Numbers /\ Pruning' \in SUBSET Numbers
    BY DEF Listed, Pruning
  <2> QED
    BY <2>1, BoundsAssumption, CountTyped, NumbersFinite DEF ShelfInv, ShelfBounded, Pruning
<1> SUFFICES Cardinality(Listed') <= Keep + Cardinality(Pruning')
  BY <1>0 DEF ShelfInv, ShelfBounded, Pruning
<1>2. ASSUME NEW n \in Numbers, CreateMeta(n)
      PROVE  Cardinality(Listed') <= Keep + Cardinality(Pruning')
  <2>1. Pruning' = Pruning \cup {n} /\ n \notin Pruning
    BY <1>0, <1>2 DEF CreateMeta, Go, Pruning, JobAt, Job
  <2>2. Cardinality(Pruning') = Cardinality(Pruning) + 1
    BY <1>1, <2>1, FS_AddElement
  <2>3. Listed' \in SUBSET (Listed \cup {n})
    BY <1>0, <1>2 DEF CreateMeta, Listed, TypeOK
  <2>4. /\ IsFiniteSet(Listed \cup {n})
        /\ Cardinality(Listed \cup {n}) \in {Cardinality(Listed), Cardinality(Listed) + 1}
    BY <1>1, FS_AddElement
  <2>5. Cardinality(Listed') <= Cardinality(Listed \cup {n})
    BY <2>3, <2>4, FS_Subset
  <2> QED
    BY <1>1, <2>2, <2>4, <2>5
<1>3. ASSUME NEW n \in Numbers, CreatePrune(n)
      PROVE  Cardinality(Listed') <= Keep + Cardinality(Pruning')
  <2>1. Cardinality(Listed') <= Keep
    BY <1>0, <1>3, PruneLists, FewStay
  <2> QED
    BY <1>1, <2>1
<1>4. ASSUME \A n \in Numbers : ~CreateMeta(n) /\ ~CreatePrune(n)
      PROVE  Cardinality(Listed') <= Keep + Cardinality(Pruning')
  <2>1. Pruning' = Pruning
    BY <1>0, <1>4, PruningKept
  <2>2. Listed' \in SUBSET Listed
    BY <1>0, <1>4, ListedGrows DEF Listed
  <2>3. Cardinality(Listed') <= Cardinality(Listed)
    BY <1>1, <2>2, FS_Subset
  <2> QED
    BY <1>1, <2>1, <2>3
<1> QED
  BY <1>2, <1>3, <1>4

LEMMA InitShelf == Init => ShelfInv
<1> SUFFICES ASSUME Init PROVE ShelfInv
  OBVIOUS
<1>1. \A i \in Numbers : createdAt[i] = 0
  BY DEF Init
<1>2. Stamped = {} /\ Listed = {}
  BY <1>1 DEF Stamped, Listed
<1>3. Cardinality({}) = 0 /\ Keep \in Nat /\ Cardinality(Pruning) \in Nat
  BY FS_EmptySet, BoundsAssumption, CountTyped DEF Pruning
<1>4. Times
  BY <1>1, <1>2, <1>3 DEF Times
<1>5. ShelfBounded
  BY <1>2, <1>3 DEF ShelfBounded, Pruning
<1> QED
  BY <1>4, <1>5, InitNew DEF ShelfInv

\* Until the agent restarts there are never more backups than Keep and the creates that
\* have yet to prune, however many are made at once.
THEOREM ShelfIsBounded ==
  ASSUME "crash" \notin Faults
  PROVE  Spec => []ShelfBounded
<1>1. ShelfInv /\ [Next]_vars => ShelfInv'
  BY ShelfKept
<1>2. ShelfInv => ShelfBounded
  BY DEF ShelfInv
<1> QED
  BY InitShelf, <1>1, <1>2, PTL DEF Spec

\* Both: requests that overlap and fail at the Worker, while their goroutines go on, neither
\* have the server run on a half-extracted directory nor let the backups pile up.
THEOREM BackupsHoldOut ==
  ASSUME Overlap # "free", Faults \cap {"crash", "move", "short"} = {}
  PROVE  Spec => []BackupsHold
<1>1. "crash" \notin Faults
  OBVIOUS
<1>2. NeverRunsOnPart /\ ShelfBounded => BackupsHold
  BY DEF BackupsHold
<1>3. Spec => []NeverRunsOnPart
  BY NothingRunsOnPart
<1>4. Spec => []ShelfBounded
  BY <1>1, ShelfIsBounded
<1> QED
  BY <1>2, <1>3, <1>4, PTL

=============================================================================
