-------------------------- MODULE DataMoves_proofs --------------------------
(***************************************************************************)
(* What holds of DataMoves for any set of paths, any number of overlapping *)
(* requests and every fault: some directory holds the newest world,        *)
(* however a move begins, ends, fails or is cut short by a crash; and, as  *)
(* far as the histories of a behaviour excuse nothing, no server is made   *)
(* anew beside its world, a server said to run stands on it, and no part   *)
(* of a copy is in the way.  Last, how many containers can be made at all. *)
(***************************************************************************)
EXTENDS DataMoves, FiniteSetTheorems, TLAPS

\* A request in progress and a question, with numbers as large as they get.
Asked == [at : Stages \cup {"done"}, old : Paths \cup {"none"}, to : Paths, id : Nat,
          answer : Answers, path : Paths \cup {"none"}, made : Nat]
AnyQuestion == [op : Stages, request : Requests, from : Paths \cup {"none"}, to : Paths, id : Nat]

\* What the argument needs of the types.
Typed ==
  /\ row \in [path : Paths \cup {"default"}, container : Nat, status : {"running", "restarting", "failed"}]
  /\ agentPath \in Paths /\ pending \in Paths \cup {"none"}
  /\ applying \in [Requests -> {NotApplied} \cup Asked]
  /\ queue \in Seq(AnyQuestion)
  /\ moving \in {Still} \cup [request : Requests, from : Paths, to : Paths]
  /\ dataAt \in [Paths -> {"none", "part", "fresh", "old", "world"}]
  /\ container \in {NoContainer} \cup [id : Nat, path : Paths, runs : BOOLEAN]
  /\ made \in Nat

\* A move is asked for with a path to move from.
Named ==
  /\ \A r \in Requests :
       /\ applying[r].at \in {"ask", "move", "checkOld"} => applying[r].old \in Paths
       /\ applying[r].at = "ask" /\ applying[r].answer = "ok" => applying[r].path \in Paths
  /\ \A n \in 1 .. Len(queue) : queue[n].op = "move" => queue[n].from \in Paths

\* While the agent moves data, the target is not the source and holds a part of a copy;
\* nothing but the move touches it meanwhile, for the agent does one thing at a time.
MovingWell ==
  moving # Still => moving.from # moving.to /\ dataAt[moving.to] = "part"

Somewhere == \E p \in Paths : dataAt[p] = "world"

Inv == Typed /\ Named /\ MovingWell /\ Somewhere

-----------------------------------------------------------------------------
\* Questions and answers

LEMMA Sorts ==
  /\ NotApplied \notin Asked /\ NoContainer \notin [id : Nat, path : Paths, runs : BOOLEAN]
  /\ Still \notin [request : Requests, from : Paths, to : Paths]
BY DEF NotApplied, Asked, NoContainer, Still

LEMMA PathsTyped ==
  ASSUME Typed
  PROVE  Effective \in Paths /\ \A p \in Paths \cup {"default"} : PathOf(p) \in Paths
BY DEF Typed, Effective, PathOf

\* A question is asked with the types it needs.
LEMMA AskWell ==
  ASSUME Typed, Named, NEW r \in Requests, NEW req \in Asked, NEW op \in Stages, AskAs(r, req, op),
         op \in {"ask", "move", "checkOld"} => req.old \in Paths
  PROVE  /\ applying' \in [Requests -> {NotApplied} \cup Asked] /\ queue' \in Seq(AnyQuestion)
         /\ Named'
<1> DEFINE one == [req EXCEPT !.at = op]
           two == [one EXCEPT !.answer = "waiting"]
           three == [two EXCEPT !.path = "none"]
           four == [three EXCEPT !.made = 0]
           q == [op |-> op, request |-> r, from |-> req.old, id |-> req.id,
                 to |-> IF op = "checkOld" THEN req.old ELSE req.to]
<1>1. one \in Asked /\ one.at = op /\ one.old = req.old
  BY DEF Asked
<1> HIDE DEF one
<1>2. two \in Asked /\ two.at = op /\ two.old = req.old /\ two.answer = "waiting"
  BY <1>1 DEF Asked, Answers
<1> HIDE DEF two
<1>3. three \in Asked /\ three.at = op /\ three.old = req.old /\ three.answer = "waiting"
  BY <1>2 DEF Asked
<1> HIDE DEF three
<1>4. four \in Asked /\ four.at = op /\ four.old = req.old /\ four.answer = "waiting"
  BY <1>3 DEF Asked
<1> HIDE DEF four
<1>5. applying' = [applying EXCEPT ![r] = four] /\ queue' = Append(queue, q)
  BY DEF AskAs, one, two, three, four
<1>6. q \in AnyQuestion /\ q.op = op /\ q.from = req.old
  BY DEF AnyQuestion, Asked
<1> HIDE DEF q
<1>7. queue' \in Seq(AnyQuestion) /\ Len(queue') = Len(queue) + 1
      /\ \A n \in 1 .. Len(queue') : queue'[n] = IF n = Len(queue) + 1 THEN q ELSE queue[n]
  BY <1>5, <1>6 DEF Typed
<1>8. applying' \in [Requests -> {NotApplied} \cup Asked] /\ applying'[r] = four
      /\ \A s \in Requests : s # r => applying'[s] = applying[s]
  BY <1>4, <1>5 DEF Typed
<1>9. \A n \in 1 .. Len(queue') : queue'[n].op = "move" => queue'[n].from \in Paths
  <2> SUFFICES ASSUME NEW n \in 1 .. Len(queue'), queue'[n].op = "move"
               PROVE  queue'[n].from \in Paths
    OBVIOUS
  <2>1. CASE n = Len(queue) + 1
    BY <2>1, <1>6, <1>7
  <2>2. CASE n # Len(queue) + 1
    <3>1. n \in 1 .. Len(queue) /\ queue'[n] = queue[n]
      BY <2>2, <1>7 DEF Typed
    <3> QED
      BY <3>1 DEF Named
  <2> QED
    BY <2>1, <2>2
<1> QED
  BY <1>4, <1>7, <1>8, <1>9 DEF Named

\* An answer comes to a request that waits for it, or to nobody.
LEMMA ReplyWell ==
  ASSUME Typed, Named, NEW q, NEW answer \in Answers, NEW path \in Paths \cup {"none"}, NEW id \in Nat,
         Reply(q, answer, path, id), q.request \in Requests, q.op \in Stages,
         q.op = "ask" /\ answer = "ok" => path \in Paths
  PROVE  /\ applying' \in [Requests -> {NotApplied} \cup Asked]
         /\ \A r \in Requests :
              /\ applying'[r].at \in {"ask", "move", "checkOld"} => applying'[r].old \in Paths
              /\ applying'[r].at = "ask" /\ applying'[r].answer = "ok" => applying'[r].path \in Paths
<1> DEFINE r == q.request
           one == [applying[r] EXCEPT !.answer = answer]
           two == [one EXCEPT !.path = path]
           three == [two EXCEPT !.made = id]
<1>1. CASE applying[r].at = q.op /\ applying[r].answer = "waiting" /\ applying[r] \in Asked
  <2>1. one \in Asked /\ one.at = q.op /\ one.old = applying[r].old /\ one.answer = answer
    BY <1>1 DEF Asked
  <2> HIDE DEF one
  <2>2. two \in Asked /\ two.at = q.op /\ two.old = applying[r].old /\ two.answer = answer /\ two.path = path
    BY <2>1 DEF Asked
  <2> HIDE DEF two
  <2>3. three \in Asked /\ three.at = q.op /\ three.old = applying[r].old /\ three.answer = answer
        /\ three.path = path
    BY <2>2 DEF Asked
  <2> HIDE DEF three
  <2>4. applying' = [applying EXCEPT ![r] = three]
    BY <1>1 DEF Reply, one, two, three
  <2>5. applying' \in [Requests -> {NotApplied} \cup Asked] /\ applying'[r] = three
        /\ \A s \in Requests : s # r => applying'[s] = applying[s]
    BY <2>3, <2>4 DEF Typed
  <2> HIDE DEF r
  <2> QED
    BY <1>1, <2>3, <2>5 DEF Named, r
<1>2. CASE ~(applying[r].at = q.op /\ applying[r].answer = "waiting")
  BY <1>2 DEF Reply, Named, Typed
<1>3. CASE applying[r] \notin Asked
  <2>1. applying[r] = NotApplied
    BY <1>3 DEF Typed
  <2>2. applying[r].at # q.op
    BY <2>1 DEF NotApplied, Stages
  <2> QED
    BY <2>2, <1>2
<1> QED
  BY <1>1, <1>2, <1>3

\* The agent takes the next question.
LEMMA TakeWell ==
  ASSUME Typed, Named, NEW op, Takes(op), queue' = Tail(queue)
  PROVE  /\ queue' \in Seq(AnyQuestion) /\ Head(queue) \in AnyQuestion /\ Head(queue).op = op
         /\ \A n \in 1 .. Len(queue') : queue'[n].op = "move" => queue'[n].from \in Paths
         /\ op = "move" => Head(queue).from \in Paths
<1>1. queue \in Seq(AnyQuestion) /\ queue # <<>> /\ Head(queue).op = op
  BY DEF Typed, Takes
<1>2. Len(queue) >= 1 /\ Head(queue) = queue[1] /\ queue' \in Seq(AnyQuestion)
      /\ Len(queue') = Len(queue) - 1
      /\ \A n \in 1 .. Len(queue') : queue'[n] = queue[n + 1]
  BY <1>1
<1>3. Head(queue) \in AnyQuestion
  BY <1>1, <1>2
<1>4. ASSUME NEW n \in 1 .. Len(queue'), queue'[n].op = "move"
      PROVE  queue'[n].from \in Paths
  <2>1. n + 1 \in 1 .. Len(queue)
    BY <1>1, <1>2
  <2> QED
    BY <2>1, <1>2, <1>4 DEF Named
<1> QED
  BY <1>1, <1>2, <1>3, <1>4 DEF Named

-----------------------------------------------------------------------------
\* The steps

\* A save leaves the newest world where it is, and no move's target is touched by it.
LEMMA SaveWell ==
  ASSUME Inv, Exists, Saved
  PROVE  /\ dataAt' \in [Paths -> {"none", "part", "fresh", "old", "world"}] /\ Somewhere'
         /\ \A p \in Paths : dataAt[p] = "part" => dataAt'[p] = "part"
         /\ \A p \in Paths : dataAt[p] # "none" => dataAt'[p] # "none"
<1>1. container.path \in Paths
  BY DEF Inv, Typed, Exists
<1> QED
  BY <1>1 DEF Inv, Typed, Saved, Somewhere

\* The steps of a handler leave the host alone, and ask in the types.
LEMMA HandlerWell ==
  ASSUME Inv, NEW r \in Requests, RequestStep(r)
  PROVE  Inv'
<1> USE DEF Inv
<1>1. UNCHANGED <<moving, dataAt, container, made>>
  BY DEF RequestStep, Apply, Move, MoveFailed, Rebuild, Recover, CheckOld, Create, NotRebuilt,
         FinishApply, Timeout, moveHostVars
<1> SUFFICES Typed' /\ Named'
  BY <1>1 DEF MovingWell, Somewhere
<1>2. /\ applying' \in [Requests -> {NotApplied} \cup Asked] /\ queue' \in Seq(AnyQuestion) /\ Named'
      /\ row' \in [path : Paths \cup {"default"}, container : Nat, status : {"running", "restarting", "failed"}]
      /\ UNCHANGED agentPath /\ pending' \in Paths \cup {"none"}
      => Typed' /\ Named'
  BY <1>1 DEF Typed
<1> HIDE DEF Inv
<1>3. Typed /\ Named
  BY DEF Inv
<1>4. CASE Apply(r)
  <2> DEFINE req == [at |-> "done", old |-> pending, to |-> Effective, id |-> row.container,
                     answer |-> "no", path |-> "none", made |-> 0]
             op == IF pending \notin {"none", Effective} THEN "ask" ELSE "rebuild"
  <2>1. req \in Asked /\ op \in Stages
    BY <1>3, PathsTyped DEF Typed, Asked, Stages, Answers
  <2>2. AskAs(r, req, op) /\ (op \in {"ask", "move", "checkOld"} => req.old \in Paths)
    BY <1>3, <1>4 DEF Apply, Typed
  <2> HIDE DEF req, op
  <2>3. applying' \in [Requests -> {NotApplied} \cup Asked] /\ queue' \in Seq(AnyQuestion) /\ Named'
    BY <2>1, <2>2, <1>3, AskWell
  <2> QED
    BY <1>2, <1>3, <1>4, <2>3 DEF Apply, Typed
<1>5. ASSUME applying[r].at \in Stages
      PROVE  applying[r] \in Asked
  BY <1>3, <1>5 DEF Typed, NotApplied, Stages
<1>6. CASE Move(r)
  <2> DEFINE req == IF applying[r].answer = "ok" THEN [applying[r] EXCEPT !.old = applying[r].path]
                    ELSE applying[r]
  <2>1. applying[r] \in Asked /\ applying[r].at = "ask" /\ applying[r].old \in Paths
        /\ (applying[r].answer = "ok" => applying[r].path \in Paths)
    BY <1>3, <1>5, <1>6 DEF Move, Stands, Named, Stages
  <2>2. req \in Asked /\ req.old \in Paths
    BY <2>1 DEF Asked
  <2>3. AskAs(r, req, "move")
    BY <1>6 DEF Move
  <2> HIDE DEF req
  <2>4. applying' \in [Requests -> {NotApplied} \cup Asked] /\ queue' \in Seq(AnyQuestion) /\ Named'
    BY <2>2, <2>3, <1>3, AskWell DEF Stages
  <2> QED
    BY <1>2, <1>3, <1>6, <2>4 DEF Move, Typed, rowVars
<1>7. CASE Rebuild(r) \/ Recover(r)
  <2>1. applying[r] \in Asked
    BY <1>5, <1>7 DEF Rebuild, Recover, Stands, Stages
  <2>2. PICK op \in {"rebuild", "check"} : AskAs(r, applying[r], op)
    BY <1>7 DEF Rebuild, Recover
  <2>3. applying' \in [Requests -> {NotApplied} \cup Asked] /\ queue' \in Seq(AnyQuestion) /\ Named'
    BY <2>1, <2>2, <1>3, AskWell DEF Stages
  <2> QED
    BY <1>2, <1>3, <1>7, <2>3 DEF Rebuild, Recover, Typed, rowVars
<1>8. CASE CheckOld(r)
  <2>1. applying[r] \in Asked /\ applying[r].old \in Paths
    BY <1>5, <1>8 DEF CheckOld, Stands, Stages, Asked
  <2>2. applying' \in [Requests -> {NotApplied} \cup Asked] /\ queue' \in Seq(AnyQuestion) /\ Named'
    BY <2>1, <1>8, <1>3, AskWell DEF CheckOld, Stages
  <2> QED
    BY <1>2, <1>3, <1>8, <2>2 DEF CheckOld, Typed, rowVars
<1>9. CASE Create(r)
  <2>1. applying[r] \in Asked
    BY <1>5, <1>9 DEF Create, Stands, Stages
  <2>2. CASE AskAs(r, applying[r], "create") /\ UNCHANGED row
    <3>1. applying' \in [Requests -> {NotApplied} \cup Asked] /\ queue' \in Seq(AnyQuestion) /\ Named'
      BY <2>1, <2>2, <1>3, AskWell DEF Stages
    <3> QED
      BY <1>2, <1>3, <1>9, <2>2, <3>1 DEF Create, Typed
  <2>3. CASE /\ Stands(r, "checkOld", {"ok"})
             /\ AskAs(r, [applying[r] EXCEPT !.to = applying[r].old], "create")
             /\ row' = [row EXCEPT !.path = applying[r].old]
    <3>1. applying[r].old \in Paths
      BY <1>3, <2>3 DEF Stands, Named
    <3>2. [applying[r] EXCEPT !.to = applying[r].old] \in Asked
      BY <2>1, <3>1 DEF Asked
    <3>3. applying' \in [Requests -> {NotApplied} \cup Asked] /\ queue' \in Seq(AnyQuestion) /\ Named'
      BY <2>3, <3>2, <1>3, AskWell DEF Stages
    <3> QED
      BY <1>2, <1>3, <1>9, <2>3, <3>1, <3>3 DEF Create, Typed
  <2> QED
    BY <1>9, <2>2, <2>3 DEF Create
<1>10. ASSUME applying[r].at \in Stages, NEW done \in {NotApplied} \cup Asked,
              done.at = "done" \/ (done.at = applying[r].at /\ done.old = applying[r].old /\ done.answer = "no"),
              applying' = [applying EXCEPT ![r] = done], UNCHANGED queue
       PROVE  applying' \in [Requests -> {NotApplied} \cup Asked] /\ queue' \in Seq(AnyQuestion) /\ Named'
  BY <1>3, <1>10 DEF Typed, Named
<1>11. CASE MoveFailed(r) \/ NotRebuilt(r)
  <2>1. applying[r] \in Asked /\ applying[r].at \in Stages
    BY <1>5, <1>11 DEF MoveFailed, NotRebuilt, Stands, Stages
  <2> DEFINE one == [applying[r] EXCEPT !.at = "done"]
             two == [one EXCEPT !.answer = "no"]
  <2>2. one \in Asked /\ one.at = "done"
    BY <2>1 DEF Asked
  <2> HIDE DEF one
  <2>3. two \in Asked /\ two.at = "done"
    BY <2>2 DEF Asked, Answers
  <2> HIDE DEF two
  <2>4. applying' = [applying EXCEPT ![r] = two] /\ UNCHANGED queue
        /\ row' = [row EXCEPT !.status = "failed"] /\ UNCHANGED <<agentPath, pending>>
    BY <1>11 DEF MoveFailed, NotRebuilt, Fail, one, two
  <2>5. applying' \in [Requests -> {NotApplied} \cup Asked] /\ queue' \in Seq(AnyQuestion) /\ Named'
    BY <2>1, <2>3, <2>4, <1>10
  <2> QED
    BY <1>2, <1>3, <2>4, <2>5 DEF Typed
<1>12. CASE FinishApply(r)
  <2>1. applying[r] \in Asked /\ applying[r].at \in Stages
    BY <1>5, <1>12 DEF FinishApply, Stands, Stages
  <2> DEFINE done == [applying[r] EXCEPT !.at = "done"]
  <2>2. done \in Asked /\ done.at = "done"
    BY <2>1 DEF Asked
  <2>3. applying' = [applying EXCEPT ![r] = done] /\ UNCHANGED queue
    BY <1>12 DEF FinishApply
  <2> HIDE DEF done
  <2>4. applying' \in [Requests -> {NotApplied} \cup Asked] /\ queue' \in Seq(AnyQuestion) /\ Named'
    BY <2>1, <2>2, <2>3, <1>10
  <2>5. row' \in [path : Paths \cup {"default"}, container : Nat, status : {"running", "restarting", "failed"}]
    <3> DEFINE next == [row EXCEPT !.container = applying[r].made]
    <3>1. next \in [path : Paths \cup {"default"}, container : Nat, status : {"running", "restarting", "failed"}]
      BY <2>1, <1>3 DEF Typed, Asked
    <3>2. row' = [next EXCEPT !.status = "running"]
      BY <1>12 DEF FinishApply
    <3> HIDE DEF next
    <3> QED
      BY <3>1, <3>2
  <2> QED
    BY <1>2, <1>3, <1>12, <2>4, <2>5 DEF FinishApply, Typed
<1>13. CASE Timeout(r)
  <2>1. applying[r] \in Asked /\ applying[r].at \in Stages
    BY <1>5, <1>13 DEF Timeout
  <2> DEFINE done == [applying[r] EXCEPT !.answer = "no"]
  <2>2. done \in Asked /\ done.at = applying[r].at /\ done.old = applying[r].old /\ done.answer = "no"
    BY <2>1 DEF Asked, Answers
  <2>3. applying' = [applying EXCEPT ![r] = done] /\ UNCHANGED queue
    BY <1>13 DEF Timeout
  <2> HIDE DEF done
  <2>4. applying' \in [Requests -> {NotApplied} \cup Asked] /\ queue' \in Seq(AnyQuestion) /\ Named'
    BY <2>1, <2>2, <2>3, <1>10
  <2> QED
    BY <1>2, <1>3, <1>13, <2>4 DEF Timeout, Typed, rowVars
<1> QED
  BY <1>4, <1>6, <1>7, <1>8, <1>9, <1>11, <1>12, <1>13 DEF RequestStep

\* The agent takes a question and answers it.
LEMMA AnswerWell ==
  ASSUME Inv, NEW op \in Stages, Takes(op), queue' = Tail(queue),
         NEW answer \in Answers, NEW path \in Paths \cup {"none"}, NEW id \in Nat,
         Reply(Head(queue), answer, path, id), op = "ask" /\ answer = "ok" => path \in Paths
  PROVE  applying' \in [Requests -> {NotApplied} \cup Asked] /\ queue' \in Seq(AnyQuestion) /\ Named'
<1>1. /\ queue' \in Seq(AnyQuestion) /\ Head(queue) \in AnyQuestion /\ Head(queue).op = op
      /\ \A n \in 1 .. Len(queue') : queue'[n].op = "move" => queue'[n].from \in Paths
  BY TakeWell DEF Inv
<1> DEFINE q == Head(queue)
<1>2. q.request \in Requests /\ q.op = op
  BY <1>1 DEF AnyQuestion
<1> HIDE DEF q
<1>3. Reply(q, answer, path, id)
  BY DEF q
<1> QED
  BY <1>1, <1>2, <1>3, ReplyWell DEF Inv, Named

\* What a directory that changes, but none with the newest world and no move's target, leaves.
LEMMA KeepsWorld ==
  ASSUME Inv, moving' = moving,
         \A p \in Paths : (dataAt[p] = "world" => dataAt'[p] = "world") /\ (dataAt[p] = "part" => dataAt'[p] = "part")
  PROVE  MovingWell' /\ Somewhere'
BY DEF Inv, MovingWell, Somewhere, Typed, Still

LEMMA MoveEndsWell ==
  ASSUME Inv, MoveEnds \/ MoveFails \/ AgentDies
  PROVE  Inv'
<1> DEFINE from == moving.from
           to == moving.to
<1>1. moving \in [request : Requests, from : Paths, to : Paths] /\ moving # Still
  BY DEF Leavings, Litters, Inv, Typed, MoveEnds, MoveFails, AgentDies
<1>2. from \in Paths /\ to \in Paths /\ from # to /\ dataAt[to] = "part" /\ moving.request \in Requests
  BY <1>1 DEF Inv, MovingWell
<1>3. PICK p \in Paths : dataAt[p] = "world"
  BY DEF Inv, Somewhere
<1>4. p # to
  BY <1>2, <1>3
<1>5. moving' = Still /\ UNCHANGED <<row, agentPath, pending, container, made>>
  BY DEF Leavings, Litters, MoveEnds, MoveFails, AgentDies, EndMove, rowVars
<1>6. applying' \in [Requests -> {NotApplied} \cup Asked] /\ queue' \in Seq(AnyQuestion) /\ Named'
  <2>1. CASE AgentDies
    BY <2>1 DEF AgentDies, Inv, Typed, Named
  <2>2. ASSUME NEW answer \in {"ok", "no"}, EndMove(answer)
        PROVE  applying' \in [Requests -> {NotApplied} \cup Asked] /\ queue' \in Seq(AnyQuestion) /\ Named'
    <3> DEFINE q == [op |-> "move", request |-> moving.request]
    <3>1. q.op = "move" /\ q.request \in Requests /\ q.op \in Stages /\ answer \in Answers
      BY <1>2 DEF Stages, Answers
    <3>2. Reply(q, answer, "none", 0) /\ UNCHANGED queue
      BY <2>2 DEF EndMove
    <3> HIDE DEF q
    <3> QED
      BY <3>1, <3>2, ReplyWell DEF Inv, Named, Typed
  <2> QED
    BY <2>1, <2>2 DEF Leavings, Litters, MoveEnds, MoveFails
<1>7. dataAt' \in [Paths -> {"none", "part", "fresh", "old", "world"}] /\ Somewhere'
  <2>1. CASE MoveEnds
    <3> PICK left \in {"none", "part"} : dataAt' = [dataAt EXCEPT ![to] = dataAt[from], ![from] = left]
      BY <2>1 DEF Leavings, Litters, MoveEnds
    <3>1. dataAt' \in [Paths -> {"none", "part", "fresh", "old", "world"}]
      BY <1>2 DEF Inv, Typed
    <3>2. dataAt'[to] = dataAt[from] /\ \A x \in Paths : x \notin {from, to} => dataAt'[x] = dataAt[x]
      BY <1>2 DEF Inv, Typed
    <3> HIDE DEF from, to
    <3> QED
      BY <1>2, <1>3, <1>4, <3>1, <3>2 DEF Somewhere
  <2>2. CASE MoveFails
    BY <2>2, <1>2, <1>3, <1>4 DEF Leavings, Litters, MoveFails, Inv, Typed, Somewhere
  <2>3. CASE AgentDies
    <3> PICK copied \in {"part", dataAt[from]}, left \in {"none", "part", dataAt[from]} :
          /\ left # dataAt[from] => copied = dataAt[from]
          /\ dataAt' = [dataAt EXCEPT ![to] = copied, ![from] = left]
      BY <2>3 DEF AgentDies
    <3>1. dataAt' \in [Paths -> {"none", "part", "fresh", "old", "world"}]
      BY <1>2 DEF Inv, Typed
    <3>2. dataAt'[to] = copied /\ dataAt'[from] = left
          /\ \A x \in Paths : x \notin {from, to} => dataAt'[x] = dataAt[x]
      BY <1>2 DEF Inv, Typed
    <3> HIDE DEF from, to
    <3> QED
      BY <1>2, <1>3, <1>4, <3>1, <3>2 DEF Somewhere
  <2> QED
    BY <2>1, <2>2, <2>3
<1> QED
  BY <1>5, <1>6, <1>7 DEF Inv, Typed, MovingWell

LEMMA AgentWell ==
  ASSUME Inv, AgentStep
  PROVE  Inv'
<1> DEFINE q == Head(queue)
<1>1. CASE HandleGetDataPath \/ HandleCheckData
  <2>1. applying' \in [Requests -> {NotApplied} \cup Asked] /\ queue' \in Seq(AnyQuestion) /\ Named'
    <3>1. CASE HandleGetDataPath
      <4>1. Exists => container.path \in Paths
        BY DEF Inv, Typed, Exists
      <4> QED
        BY <3>1, <4>1, AnswerWell DEF HandleGetDataPath, Stages, Answers
    <3>2. CASE HandleCheckData
      BY <3>2, AnswerWell DEF HandleCheckData, Stages, Answers
    <3> QED
      BY <1>1, <3>1, <3>2
  <2> QED
    BY <1>1, <2>1
    DEF HandleGetDataPath, HandleCheckData, Inv, Typed, MovingWell, Somewhere, rowVars, moveHostVars
<1>2. CASE MoveBegins
  <2>1. Takes("move") /\ queue' = Tail(queue) /\ UNCHANGED <<row, agentPath, pending, container, made>>
    BY <1>2 DEF MoveBegins, rowVars
  <2>2. /\ queue' \in Seq(AnyQuestion) /\ q \in AnyQuestion /\ q.op = "move" /\ q.from \in Paths
        /\ \A n \in 1 .. Len(queue') : queue'[n].op = "move" => queue'[n].from \in Paths
    BY <2>1, TakeWell DEF Inv
  <2>3. q.request \in Requests /\ q.to \in Paths
    BY <2>2 DEF AnyQuestion
  <2>4. CASE /\ CanMove(q.from, q.to) /\ UNCHANGED applying
             /\ moving' = [request |-> q.request, from |-> q.from, to |-> q.to]
             /\ dataAt' = [dataAt EXCEPT ![q.to] = "part"]
    <3>1. q.from # q.to /\ dataAt[q.to] = "none"
      BY <2>4 DEF CanMove
    <3>2. dataAt' \in [Paths -> {"none", "part", "fresh", "old", "world"}] /\ Somewhere'
      BY <2>3, <2>4, <3>1 DEF Inv, Typed, Somewhere
    <3>3. MovingWell'
      BY <2>3, <2>4, <3>1 DEF Inv, Typed, MovingWell
    <3>4. moving' \in [request : Requests, from : Paths, to : Paths]
      BY <2>2, <2>3, <2>4
    <3>5. Named'
      BY <2>2, <2>4 DEF Inv, Named
    <3> QED
      BY <2>1, <2>2, <2>4, <3>2, <3>3, <3>4, <3>5 DEF Inv, Typed
  <2>5. CASE Reply(q, "no", "none", 0) /\ UNCHANGED <<moving, dataAt>>
    <3>1. applying' \in [Requests -> {NotApplied} \cup Asked] /\ queue' \in Seq(AnyQuestion) /\ Named'
      BY <2>1, <2>5, AnswerWell DEF Stages, Answers
    <3> QED
      BY <2>1, <2>5, <3>1 DEF Inv, Typed, MovingWell, Somewhere
  <2> QED
    BY <1>2, <2>4, <2>5 DEF MoveBegins
<1>3. CASE MoveEnds \/ MoveFails \/ AgentDies
  BY <1>3, MoveEndsWell
<1>4. CASE HandleRebuild
  <2>1. Takes("rebuild") /\ queue' = Tail(queue) /\ UNCHANGED <<row, agentPath, pending, moving>>
    BY <1>4 DEF HandleRebuild, rowVars
  <2>2. q \in AnyQuestion /\ q.to \in Paths
    BY <2>1, TakeWell DEF Inv, AnyQuestion
  <2>3. made + 1 \in Nat /\ made \in Nat
    BY DEF Inv, Typed
  <2>4. applying' \in [Requests -> {NotApplied} \cup Asked] /\ queue' \in Seq(AnyQuestion) /\ Named'
    <3>1. \E answer \in {"ok", "no", "missing"}, id \in {0, made + 1} : Reply(q, answer, "none", id)
      BY <1>4 DEF HandleRebuild
    <3> QED
      BY <2>1, <2>3, <3>1, AnswerWell DEF Stages, Answers
  <2>5. UNCHANGED <<dataAt, raced>> \/ (Exists /\ Saved)
    BY <1>4 DEF HandleRebuild, moveHostVars
  <2>6. dataAt' \in [Paths -> {"none", "part", "fresh", "old", "world"}] /\ Somewhere' /\ MovingWell'
    <3>1. CASE UNCHANGED <<dataAt, raced>>
      BY <2>1, <3>1 DEF Inv, Typed, Somewhere, MovingWell
    <3>2. CASE Exists /\ Saved
      BY <2>1, <3>2, SaveWell DEF Inv, Typed, MovingWell, Still
    <3> QED
      BY <2>5, <3>1, <3>2
  <2>7. container' \in {NoContainer} \cup [id : Nat, path : Paths, runs : BOOLEAN] /\ made' \in Nat
    <3>1. \/ UNCHANGED <<container, made>>
          \/ Exists /\ container' = [container EXCEPT !.runs = FALSE] /\ UNCHANGED made
          \/ container' = NoContainer /\ UNCHANGED made
          \/ container' = New(q.to) /\ made' = made + 1
      BY <1>4 DEF HandleRebuild, moveHostVars
    <3>2. New(q.to) \in [id : Nat, path : Paths, runs : BOOLEAN]
      BY <2>2, <2>3 DEF New
    <3> QED
      BY <3>1, <3>2, <2>3 DEF Inv, Typed, Exists
  <2> QED
    BY <2>1, <2>4, <2>6, <2>7 DEF Inv, Typed
<1>5. CASE HandleCreate
  <2>1. Takes("create") /\ queue' = Tail(queue) /\ UNCHANGED <<row, agentPath, pending, moving>>
    BY <1>5 DEF HandleCreate, rowVars
  <2>2. q \in AnyQuestion /\ q.to \in Paths
    BY <2>1, TakeWell DEF Inv, AnyQuestion
  <2>3. made + 1 \in Nat /\ made \in Nat
    BY DEF Inv, Typed
  <2>4. applying' \in [Requests -> {NotApplied} \cup Asked] /\ queue' \in Seq(AnyQuestion) /\ Named'
    <3>1. \E answer \in {"ok", "no"}, id \in {0, made + 1} : Reply(q, answer, "none", id)
      BY <1>5 DEF HandleCreate
    <3> QED
      BY <2>1, <2>3, <3>1, AnswerWell DEF Stages, Answers
  <2>5. dataAt' = dataAt \/ dataAt' = [dataAt EXCEPT ![q.to] = IF dataAt[q.to] = "none" THEN "fresh" ELSE dataAt[q.to]]
    BY <1>5 DEF HandleCreate
  <2>6. dataAt' \in [Paths -> {"none", "part", "fresh", "old", "world"}] /\ Somewhere' /\ MovingWell'
    BY <2>1, <2>2, <2>5, KeepsWorld DEF Inv, Typed
  <2>7. container' \in {NoContainer} \cup [id : Nat, path : Paths, runs : BOOLEAN] /\ made' \in Nat
    <3>1. UNCHANGED <<container, made>> \/ (container' = New(q.to) /\ made' = made + 1)
      BY <1>5 DEF HandleCreate
    <3>2. New(q.to) \in [id : Nat, path : Paths, runs : BOOLEAN]
      BY <2>2, <2>3 DEF New
    <3> QED
      BY <3>1, <3>2, <2>3 DEF Inv, Typed
  <2> QED
    BY <2>1, <2>4, <2>6, <2>7 DEF Inv, Typed
<1> QED
  BY <1>1, <1>2, <1>3, <1>4, <1>5 DEF AgentStep

LEMMA StepWell ==
  ASSUME Inv, [MovesNext]_movesVars
  PROVE  Inv'
<1>1. CASE Save
  <2>1. UNCHANGED <<rowVars, applying, queue, moving, container, made>> /\ Exists /\ Saved
    BY <1>1 DEF Save
  <2> QED
    BY <2>1, SaveWell DEF Inv, Typed, Named, MovingWell, rowVars, Still
<1>2. CASE Toggle
  BY <1>2 DEF Toggle, Exists, Inv, Typed, Named, MovingWell, Somewhere, rowVars
<1>3. CASE Forget \/ (\E p \in Paths : SetAgentPath(p))
  BY <1>3 DEF Forget, SetAgentPath, Inv, Typed, Named, MovingWell, Somewhere, moveHostVars
<1>4. ASSUME NEW p \in Paths \cup {"default"}, PatchConfig(p)
      PROVE  Inv'
  <2>1. Effective \in Paths
    BY PathsTyped DEF Inv
  <2>2. row' \in [path : Paths \cup {"default"}, container : Nat, status : {"running", "restarting", "failed"}]
        /\ pending' \in Paths \cup {"none"}
    BY <1>4, <2>1 DEF PatchConfig, Inv, Typed
  <2>3. UNCHANGED <<agentPath, applying, queue, moving, moveHostVars>>
    BY <1>4 DEF PatchConfig
  <2> QED
    BY <2>2, <2>3 DEF Inv, Typed, Named, MovingWell, Somewhere, moveHostVars
<1>5. CASE AgentStep
  BY <1>5, AgentWell
<1>6. ASSUME NEW r \in Requests, RequestStep(r)
      PROVE  Inv'
  BY <1>6, HandlerWell
<1>7. CASE UNCHANGED movesVars
  BY <1>7 DEF movesVars, Inv, Typed, Named, MovingWell, Somewhere, rowVars, moveHostVars
<1> QED
  BY <1>1, <1>2, <1>3, <1>4, <1>5, <1>6, <1>7 DEF MovesNext

LEMMA InitWell ==
  ASSUME MovesInit
  PROVE  Inv
<1>1. Typed
  BY MovesAssumption DEF MovesInit, Typed
<1>2. Named
  BY DEF MovesInit, Named, NotApplied
<1>3. MovingWell /\ Somewhere
  BY MovesAssumption DEF MovesInit, MovingWell, Somewhere
<1> QED
  BY <1>1, <1>2, <1>3 DEF Inv

\* However a move ends and whoever else moves or rebuilds meanwhile, the newest world that the
\* game did not save into data being moved is in some directory.
THEOREM WorldIsKept == MovesSpec => []WorldKept
<1>1. MovesInit => Inv
  BY InitWell
<1>2. Inv /\ [MovesNext]_movesVars => Inv'
  BY StepWell
<1>3. Inv => WorldKept
  BY DEF Inv, Somewhere, WorldKept
<1> QED
  BY <1>1, <1>2, <1>3, PTL DEF MovesSpec

-----------------------------------------------------------------------------
\* No new world

\* Requests have been made one after the other, answered in time, with a path that the data
\* are to be moved from if there is one.
OnTime == marks \cap {"late", "forgot", "overlap"} = {}
Active(r) == applying[r].at \in Stages
Empty(p) == dataAt[p] = "none"

OneActive == \A r, s \in Requests : Active(r) /\ Active(s) => r = s

\* What is on its way to the agent, or done by it, is what the request that waits has asked.
Outstanding ==
  /\ queue # <<>> =>
       /\ Len(queue) = 1 /\ moving = Still
       /\ applying[queue[1].request].at = queue[1].op
       /\ applying[queue[1].request].answer = "waiting"
       /\ applying[queue[1].request].to = queue[1].to
  /\ moving # Still =>
       /\ queue = <<>>
       /\ applying[moving.request].at = "move" /\ applying[moving.request].answer = "waiting"
       /\ applying[moving.request].to = moving.to
       /\ ~Empty(moving.from)

\* A request that does not move data any more goes on with a directory that has them, so the
\* recovery need not look at the old path.
Supplied(r) ==
  /\ applying[r].at # "checkOld"
  /\ applying[r].at \in {"ask", "move"} => pending \notin {"none", Effective}
  /\ applying[r].at \in {"rebuild", "check", "create"} => ~Empty(applying[r].to)
  /\ applying[r].at = "move" /\ applying[r].answer = "ok" => ~Empty(applying[r].to)
  /\ applying[r].at = "check" => applying[r].answer \in {"waiting", "ok"}
  /\ pending = "none" => applying[r].to = Effective

Sound ==
  /\ OneActive /\ Outstanding
  /\ \A r \in Requests : Active(r) => Supplied(r)
  /\ pending \in {"none", Effective} => ~Empty(Effective)
  /\ \A p \in Paths : dataAt[p] # "fresh"

LEMMA OnTimeBefore ==
  ASSUME [MovesNext]_movesVars, OnTime'
  PROVE  OnTime
<1>1. marks \subseteq marks' \cup {"unapplied"}
  BY DEF MovesNext, movesVars, Save, Toggle, Forget, AgentStep, HandleGetDataPath, HandleCheckData, MoveBegins,
         Leavings, Litters, MoveEnds, MoveFails, AgentDies, HandleRebuild, HandleCreate, PatchConfig, SetAgentPath, RequestStep, Apply,
         Move, MoveFailed, Rebuild, Recover, CheckOld, Create, NotRebuilt, FinishApply, Timeout, Fail
<1> QED
  BY <1>1 DEF OnTime

\* The paths change, and with them what is to be moved, but no directory.
LEMMA PathsSound ==
  ASSUME Inv, Sound, OnTime',
         Forget \/ (\E p \in Paths : SetAgentPath(p)) \/ (\E p \in Paths \cup {"default"} : PatchConfig(p))
  PROVE  Sound'
<1>1. UNCHANGED <<applying, queue, moving, dataAt>>
  BY DEF Forget, SetAgentPath, PatchConfig, moveHostVars
<1>2. OneActive' /\ Outstanding'
  BY <1>1 DEF Sound, OneActive, Active, Outstanding, Empty
<1>3. Effective \in Paths
  BY PathsTyped DEF Inv
<1>4. pending' \in {"none", Effective'} => pending \in {"none", Effective} /\ Effective' = Effective
  <2>1. ~Forget
    BY DEF Forget, OnTime
  <2>2. ASSUME NEW p \in Paths, SetAgentPath(p)
        PROVE  UNCHANGED pending /\ Effective' = Effective
    BY <2>2 DEF SetAgentPath, OnTime, Effective, PathOf
  <2>3. ASSUME NEW p \in Paths \cup {"default"}, PatchConfig(p), pending' \in {"none", Effective'}
        PROVE  pending = "none" /\ Effective' = Effective
    <3>1. row' = [row EXCEPT !.path = p] /\ UNCHANGED agentPath
          /\ pending' = (IF row.path # p THEN Effective ELSE "none")
          /\ marks' = marks \cup {"unapplied"} \cup Forgot(pending', PathOf(p))
      BY <2>3 DEF PatchConfig
    <3>2. row'.path = p /\ Effective' = PathOf(p)
      BY <3>1 DEF Inv, Typed, Effective, PathOf
    <3>3. pending = "none"
      BY <2>3, <3>1, <3>2 DEF Forgot, OnTime
    <3>4. row.path = p => Effective' = Effective
      BY <3>2 DEF Effective
    <3>5. row.path # p => Effective' = Effective
      BY <1>3, <2>3, <3>1, MovesAssumption
    <3> QED
      BY <3>3, <3>4, <3>5
  <2> QED
    BY <2>1, <2>2, <2>3
<1>5. pending' = "none" => pending = "none"
  BY DEF Forget, SetAgentPath, PatchConfig, Forgot, OnTime
<1> QED
  BY <1>1, <1>2, <1>4, <1>5 DEF Sound, Active, Supplied, Empty

\* A handler asks, having been answered.
LEMMA AskSound ==
  ASSUME Inv, Sound, NEW r \in Requests, NEW req \in Asked, NEW op \in Stages \ {"checkOld"},
         AskAs(r, req, op), UNCHANGED <<pending, moving, dataAt>>, Effective' = Effective,
         Active(r) => applying[r].answer # "waiting",
         \A s \in Requests : Active(s) => s = r,
         op \in {"ask", "move"} => pending \notin {"none", Effective},
         op \in {"rebuild", "check", "create"} => ~Empty(req.to),
         pending = "none" => req.to = Effective
  PROVE  Sound'
<1> DEFINE q == [op |-> op, request |-> r, from |-> req.old, id |-> req.id, to |-> req.to]
<1>1. applying'[r].at = op /\ applying'[r].answer = "waiting" /\ applying'[r].to = req.to
      /\ \A s \in Requests : s # r => applying'[s] = applying[s]
  BY DEF AskAs, Inv, Typed, Asked
<1>2. queue = <<>> /\ moving = Still
  <2>1. queue # <<>> => queue[1] \in AnyQuestion
    BY DEF Inv, Typed
  <2>2. queue # <<>> => queue[1].request \in Requests /\ queue[1].op \in Stages
    BY <2>1 DEF AnyQuestion
  <2>3. moving # Still => moving.request \in Requests
    BY DEF Inv, Typed
  <2> QED
    BY <2>2, <2>3 DEF Sound, Outstanding, Active, Stages
<1>3. queue' = <<q>>
  BY <1>2 DEF AskAs
<1>4. OneActive' /\ (\A s \in Requests : Active(s)' => s = r)
  BY <1>1 DEF Active, OneActive
<1>5. Outstanding'
  BY <1>1, <1>2, <1>3 DEF Outstanding
<1>6. Supplied(r)'
  BY <1>1 DEF Supplied, Empty
<1> QED
  BY <1>4, <1>5, <1>6 DEF Sound, Empty

\* A request that ends leaves nothing on its way.
LEMMA EndSound ==
  ASSUME Inv, Sound, NEW r \in Requests, Active(r), applying[r].answer # "waiting",
         applying'[r].at = "done", \A s \in Requests : s # r => applying'[s] = applying[s],
         UNCHANGED <<queue, moving, dataAt>>,
         pending' \in {"none", Effective'} => ~Empty(Effective')
  PROVE  Sound'
<1>1. \A s \in Requests : ~Active(s)'
  BY DEF Sound, OneActive, Active, Stages
<1>2. queue = <<>> /\ moving = Still
  <2>1. queue # <<>> => queue[1] \in AnyQuestion
    BY DEF Inv, Typed
  <2>2. queue # <<>> => queue[1].request \in Requests /\ queue[1].op \in Stages
    BY <2>1 DEF AnyQuestion
  <2>3. moving # Still => moving.request \in Requests
    BY DEF Inv, Typed
  <2> QED
    BY <2>2, <2>3 DEF Sound, Outstanding, Active, Stages, OneActive
<1>3. Outstanding'
  BY <1>2 DEF Outstanding
<1> QED
  BY <1>1, <1>3 DEF Sound, OneActive, Empty

LEMMA HandlerSound ==
  ASSUME Inv, Sound, OnTime', NEW r \in Requests, RequestStep(r)
  PROVE  Sound'
<1>1. UNCHANGED <<moving, dataAt>>
  BY DEF RequestStep, Apply, Move, MoveFailed, Rebuild, Recover, CheckOld, Create, NotRebuilt,
         FinishApply, Timeout, moveHostVars
<1>2. Active(r) => applying[r] \in Asked /\ Supplied(r) /\ \A s \in Requests : Active(s) => s = r
  BY DEF Active, Inv, Typed, NotApplied, Stages, Sound, OneActive
<1>3. CASE Apply(r)
  <2> DEFINE req == [at |-> "done", old |-> pending, to |-> Effective, id |-> row.container,
                     answer |-> "no", path |-> "none", made |-> 0]
             op == IF pending \notin {"none", Effective} THEN "ask" ELSE "rebuild"
  <2>1. req \in Asked /\ op \in Stages \ {"checkOld"} /\ req.to = Effective
    BY PathsTyped DEF Inv, Typed, Asked, Stages, Answers
  <2>2. AskAs(r, req, op) /\ UNCHANGED <<agentPath, pending>> /\ row' = [row EXCEPT !.status = "restarting"]
    BY <1>3 DEF Apply
  <2>3. \A s \in Requests : ~Active(s)
    BY <1>3 DEF Apply, Active, OnTime
  <2>4. op = "ask" => pending \notin {"none", Effective}
    OBVIOUS
  <2>5. op = "rebuild" => ~Empty(req.to)
    BY <2>1 DEF Sound
  <2>6. op \in {"ask", "rebuild"}
    OBVIOUS
  <2>7. Effective' = Effective
    BY <2>2 DEF Effective, PathOf, Inv, Typed
  <2> HIDE DEF req, op
  <2> QED
    BY <1>1, <2>1, <2>2, <2>3, <2>4, <2>5, <2>6, <2>7, AskSound
<1>4. CASE Move(r)
  <2> DEFINE req == IF applying[r].answer = "ok" THEN [applying[r] EXCEPT !.old = applying[r].path]
                    ELSE applying[r]
  <2>1. Active(r) /\ applying[r].at = "ask" /\ applying[r].answer # "waiting"
    BY <1>4 DEF Move, Stands, Active, Stages
  <2>2. req \in Asked /\ req.to = applying[r].to
    BY <1>2, <2>1 DEF Asked, Inv, Named
  <2>3. AskAs(r, req, "move") /\ UNCHANGED rowVars
    BY <1>4 DEF Move
  <2> HIDE DEF req
  <2> QED
    BY <1>1, <1>2, <2>1, <2>2, <2>3, AskSound DEF Supplied, Stages, rowVars, Effective, PathOf
<1>5. CASE Rebuild(r)
  <2>1. Active(r) /\ applying[r].at = "move" /\ applying[r].answer = "ok"
    BY <1>5 DEF Rebuild, Stands, Active, Stages
  <2>2. AskAs(r, applying[r], "rebuild") /\ UNCHANGED rowVars
    BY <1>5 DEF Rebuild
  <2> QED
    BY <1>1, <1>2, <2>1, <2>2, AskSound DEF Supplied, Stages, rowVars, Effective, PathOf
<1>6. CASE Recover(r)
  <2>1. Active(r) /\ applying[r].at = "rebuild" /\ applying[r].answer # "waiting"
    BY <1>6 DEF Recover, Stands, Active, Stages
  <2>2. AskAs(r, applying[r], "check") /\ UNCHANGED rowVars
    BY <1>6 DEF Recover
  <2> QED
    BY <1>1, <1>2, <2>1, <2>2, AskSound DEF Supplied, Stages, rowVars, Effective, PathOf
<1>7. CASE CheckOld(r)
  BY <1>2, <1>7 DEF CheckOld, Stands, Active, Stages, Supplied
<1>8. CASE Create(r)
  <2>1. Active(r) /\ applying[r].at = "check" /\ applying[r].answer # "waiting"
        /\ AskAs(r, applying[r], "create") /\ UNCHANGED <<row, agentPath, pending>>
    BY <1>2, <1>8 DEF Create, Stands, Active, Stages, Supplied
  <2> QED
    BY <1>1, <1>2, <2>1, AskSound DEF Supplied, Stages, Effective, PathOf
<1>9. CASE MoveFailed(r) \/ NotRebuilt(r)
  <2>1. Active(r) /\ applying[r].answer # "waiting" /\ Fail(r) /\ UNCHANGED <<agentPath, pending>>
    BY <1>9 DEF MoveFailed, NotRebuilt, Stands, Active, Stages
  <2>2. applying'[r].at = "done" /\ \A s \in Requests : s # r => applying'[s] = applying[s]
    BY <1>2, <2>1 DEF Fail, Inv, Typed, Asked
  <2>3. Effective' = Effective /\ UNCHANGED queue
    BY <2>1 DEF Fail, Effective, PathOf, Inv, Typed
  <2>4. pending' \in {"none", Effective'} => ~Empty(Effective')
    BY <2>1, <2>3 DEF Sound
  <2> QED
    BY <1>1, <2>1, <2>2, <2>3, <2>4, EndSound
<1>10. CASE FinishApply(r)
  <2>1. Active(r) /\ applying[r].at \in {"rebuild", "create"} /\ applying[r].answer # "waiting"
    BY <1>10 DEF FinishApply, Stands, Active, Stages
  <2>2. applying'[r].at = "done" /\ \A s \in Requests : s # r => applying'[s] = applying[s]
    BY <1>2, <2>1, <1>10 DEF FinishApply, Inv, Typed, Asked
  <2>3. Effective' = Effective /\ UNCHANGED queue
    BY <1>10 DEF FinishApply, Effective, PathOf, Inv, Typed
  <2>4. applying[r].to = Effective
    BY <1>2, <2>1, <1>10 DEF FinishApply, Forgot, OnTime, Supplied
  <2>5. ~Empty(Effective')
    BY <1>2, <2>1, <2>3, <2>4 DEF Supplied
  <2> QED
    BY <1>1, <2>1, <2>2, <2>3, <2>5, EndSound
<1>11. CASE Timeout(r)
  BY <1>11 DEF Timeout, OnTime
<1> QED
  BY <1>3, <1>4, <1>5, <1>6, <1>7, <1>8, <1>9, <1>10, <1>11 DEF RequestStep

\* The question the agent takes is the one the only request waits for.
LEMMA TakenSound ==
  ASSUME Inv, Sound, NEW op, Takes(op), queue' = Tail(queue)
  PROVE  LET q == Head(queue) IN
         /\ queue' = <<>> /\ moving = Still /\ q \in AnyQuestion /\ q.op = op
         /\ q.request \in Requests /\ Active(q.request) /\ applying[q.request] \in Asked
         /\ Supplied(q.request)
         /\ applying[q.request].at = op /\ applying[q.request].answer = "waiting"
         /\ applying[q.request].to = q.to
         /\ \A s \in Requests : Active(s) => s = q.request
<1>1. queue \in Seq(AnyQuestion) /\ queue # <<>> /\ Head(queue) = queue[1] /\ queue[1].op = op
  BY DEF Inv, Typed, Takes
<1>2. queue[1] \in AnyQuestion /\ queue' = <<>>
  BY <1>1 DEF Sound, Outstanding
<1>3. queue[1].request \in Requests /\ queue[1].op \in Stages
  BY <1>2 DEF AnyQuestion
<1>4. applying[queue[1].request] \in Asked
  BY <1>1, <1>3 DEF Sound, Outstanding, Inv, Typed, NotApplied, Stages
<1> QED
  BY <1>1, <1>2, <1>3, <1>4 DEF Sound, Outstanding, Active, OneActive

\* An answer other than that there are no data, and no removal of any.
LEMMA AnswerSound ==
  ASSUME Inv, Sound, NEW op \in Stages, Takes(op), queue' = Tail(queue),
         NEW answer \in Answers \ {"waiting"}, NEW path, NEW id,
         Reply(Head(queue), answer, path, id), UNCHANGED <<row, agentPath, pending, moving>>,
         op = "check" => answer = "ok", op = "move" => answer # "ok",
         \A p \in Paths : Empty(p)' => Empty(p), \A p \in Paths : dataAt'[p] # "fresh"
  PROVE  Sound'
<1> DEFINE q == Head(queue)
<1>1. /\ queue' = <<>> /\ moving = Still /\ q.op = op
      /\ q.request \in Requests /\ Active(q.request) /\ applying[q.request] \in Asked
      /\ Supplied(q.request)
      /\ applying[q.request].at = op /\ applying[q.request].answer = "waiting"
      /\ \A s \in Requests : Active(s) => s = q.request
  BY TakenSound
<1>2. PICK r \in Requests : r = q.request
  BY <1>1
<1>9. applying' = [applying EXCEPT ![r].answer = answer, ![r].path = path, ![r].made = id]
  BY <1>1, <1>2 DEF Reply
<1> HIDE DEF q
<1>3. /\ applying'[r].at = op /\ applying'[r].answer = answer
      /\ applying'[r].to = applying[r].to
      /\ \A s \in Requests : s # r => applying'[s] = applying[s]
  BY <1>1, <1>2, <1>9 DEF Inv, Typed, Asked
<1>4. Effective' = Effective /\ Effective \in Paths
  BY PathsTyped DEF Effective, PathOf, Inv
<1>5. \A s \in Requests : Active(s)' => s = r
  BY <1>1, <1>2, <1>3 DEF Active
<1>6. applying[r].to \in Paths
  BY <1>1, <1>2 DEF Asked
<1>7. Supplied(r)'
  BY <1>1, <1>2, <1>3, <1>4, <1>6 DEF Supplied
<1>8. Outstanding' /\ OneActive'
  BY <1>1, <1>5 DEF Outstanding, OneActive
<1> QED
  BY <1>4, <1>5, <1>7, <1>8 DEF Sound

LEMMA SavedSound ==
  ASSUME Inv, Sound, Saved
  PROVE  (\A p \in Paths : Empty(p)' => Empty(p)) /\ \A p \in Paths : dataAt'[p] # "fresh"
BY DEF Saved, Inv, Typed, Sound, Empty

LEMMA AgentSound ==
  ASSUME Inv, Sound, OnTime', AgentStep
  PROVE  Sound'
<1> DEFINE q == Head(queue)
<1>1. CASE HandleGetDataPath
  <2>1. \E answer \in {"ok", "no"} : \E path : Reply(q, answer, path, 0)
    BY <1>1 DEF HandleGetDataPath
  <2> QED
    BY <1>1, <2>1, AnswerSound DEF HandleGetDataPath, Stages, Answers, rowVars, moveHostVars, Sound, Empty
<1>2. CASE HandleCheckData
  <2>1. Takes("check")
    <3>1. CASE Takes("checkOld")
      BY <1>2, <3>1, TakenSound DEF HandleCheckData, Supplied
    <3> QED
      BY <1>2, <3>1 DEF HandleCheckData
  <2>2. ~Empty(q.to)
    BY <1>2, <2>1, TakenSound DEF HandleCheckData, Supplied
  <2>3. Reply(q, "ok", "none", 0)
    BY <1>2, <2>2 DEF HandleCheckData, Empty
  <2> QED
    BY <1>2, <2>1, <2>3, AnswerSound DEF HandleCheckData, Stages, Answers, rowVars, moveHostVars, Sound, Empty
<1>3. CASE MoveBegins
  <2>1. Takes("move") /\ queue' = Tail(queue) /\ UNCHANGED <<row, agentPath, pending>>
    BY <1>3 DEF MoveBegins, rowVars
  <2>2. CASE /\ CanMove(q.from, q.to) /\ UNCHANGED applying
             /\ moving' = [request |-> q.request, from |-> q.from, to |-> q.to]
             /\ dataAt' = [dataAt EXCEPT ![q.to] = "part"]
    <3>1. /\ queue' = <<>> /\ q.request \in Requests /\ Active(q.request)
          /\ applying[q.request].at = "move" /\ applying[q.request].answer = "waiting"
          /\ applying[q.request].to = q.to
      BY <2>1, TakenSound
    <3>2. q.from \in Paths /\ q.to \in Paths
      BY <2>1, TakeWell, TakenSound DEF Inv, AnyQuestion
    <3>10. PICK from \in Paths : from = q.from
      BY <3>2
    <3>3. ~Empty(from) /\ from # q.to
      BY <2>2, <3>10 DEF CanMove, Empty
    <3>4. (\A p \in Paths : Empty(p)' => Empty(p)) /\ \A p \in Paths : dataAt'[p] # "fresh"
      BY <2>2, <3>2 DEF Inv, Typed, Empty, Sound
    <3>5. ~Empty(from)'
      BY <3>3, <3>4
    <3>11. moving'.from = from /\ moving'.to = q.to /\ moving'.request = q.request
      BY <2>2, <3>10
    <3>6. Outstanding'
      BY <2>2, <3>1, <3>5, <3>11 DEF Outstanding
    <3>7. Effective' = Effective /\ Effective \in Paths
      BY <2>1, PathsTyped DEF Effective, PathOf, Inv
    <3>8. \A s \in Requests : Active(s) => applying[s].to \in Paths
      BY DEF Active, Inv, Typed, Asked, NotApplied, Stages
    <3>9. \A s \in Requests : Active(s)' => Supplied(s)'
      BY <2>1, <2>2, <3>4, <3>7, <3>8 DEF Sound, Active, Supplied
    <3> QED
      BY <2>1, <2>2, <3>4, <3>6, <3>7, <3>9 DEF Sound, OneActive, Active
  <2>3. CASE Reply(q, "no", "none", 0) /\ UNCHANGED <<moving, dataAt>>
    BY <2>1, <2>3, AnswerSound DEF Stages, Answers, Sound, Empty
  <2> QED
    BY <1>3, <2>2, <2>3 DEF MoveBegins
<1>4. CASE MoveEnds \/ MoveFails
  <2>1. moving \in [request : Requests, from : Paths, to : Paths] /\ moving # Still
    BY <1>4 DEF Leavings, Litters, Inv, Typed, MoveEnds, MoveFails
  <2>14. PICK r \in Requests, to \in Paths : r = moving.request /\ to = moving.to
    BY <2>1
  <2>2. /\ r \in Requests /\ moving.from \in Paths /\ moving.to \in Paths /\ moving.from # moving.to
        /\ queue = <<>> /\ ~Empty(moving.from)
        /\ applying[r].at = "move" /\ applying[r].answer = "waiting" /\ applying[r].to = moving.to
    BY <2>1, <2>14 DEF Inv, MovingWell, Sound, Outstanding
  <2>3. Active(r) /\ applying[r] \in Asked
    BY <2>2 DEF Active, Stages, Inv, Typed, NotApplied
  <2>4. PICK answer \in {"ok", "no"} :
          /\ EndMove(answer)
          /\ answer = "ok" => MoveEnds
    BY <1>4 DEF Leavings, Litters, MoveEnds, MoveFails
  <2>5. applying' = [applying EXCEPT ![r].answer = answer, ![r].path = "none", ![r].made = 0]
        /\ moving' = Still /\ UNCHANGED <<row, agentPath, pending, queue>>
    BY <2>2, <2>4, <2>14 DEF EndMove, Reply, rowVars
  <2>6. /\ applying'[r].at = "move" /\ applying'[r].answer = answer /\ applying'[r].to = to
        /\ \A s \in Requests : s # r => applying'[s] = applying[s]
    BY <2>2, <2>3, <2>5, <2>14 DEF Inv, Typed, Asked
  <2>7. Effective' = Effective
    BY <2>5 DEF Effective, PathOf
  <2>8. \A s \in Requests : Active(s)' => s = r
    BY <2>2, <2>3, <2>6 DEF Active, Sound, OneActive
  <2>9. pending \notin {"none", Effective}
    BY <2>2, <2>3 DEF Sound, Supplied
  <2>10. answer = "ok" => ~Empty(to)'
    <3>1. ASSUME MoveEnds
          PROVE  dataAt'[to] = dataAt[moving.from]
      BY <2>2, <2>14, <3>1 DEF Leavings, Litters, MoveEnds, Inv, Typed
    <3> QED
      BY <2>2, <2>4, <3>1 DEF Empty
  <2>11. \A p \in Paths : dataAt'[p] # "fresh"
    BY <1>4, <2>2 DEF Leavings, Litters, MoveEnds, MoveFails, Inv, Typed, Sound
  <2>12. Supplied(r)'
    BY <2>5, <2>6, <2>7, <2>9, <2>10 DEF Supplied
  <2>13. Outstanding' /\ OneActive'
    BY <2>2, <2>5, <2>8 DEF Outstanding, OneActive
  <2> QED
    BY <2>5, <2>7, <2>8, <2>9, <2>11, <2>12, <2>13 DEF Sound
<1>5. CASE AgentDies
  BY <1>5 DEF AgentDies, OnTime
<1>6. CASE HandleRebuild
  <2>1. PICK answer \in {"ok", "no", "missing"}, id \in {0, made + 1} : Reply(q, answer, "none", id)
    BY <1>6 DEF HandleRebuild
  <2>2. UNCHANGED dataAt \/ Saved
    BY <1>6 DEF HandleRebuild, moveHostVars
  <2>3. (\A p \in Paths : Empty(p)' => Empty(p)) /\ \A p \in Paths : dataAt'[p] # "fresh"
    BY <2>2, SavedSound DEF Sound, Empty
  <2> QED
    BY <1>6, <2>1, <2>3, AnswerSound DEF HandleRebuild, Stages, Answers, rowVars
<1>7. CASE HandleCreate
  <2>1. PICK answer \in {"ok", "no"}, id \in {0, made + 1} : Reply(q, answer, "none", id)
    BY <1>7 DEF HandleCreate
  <2>2. q.to \in Paths /\ ~Empty(q.to)
    BY <1>7, TakenSound DEF HandleCreate, AnyQuestion, Supplied
  <2>3. UNCHANGED dataAt
    BY <1>7, <2>2 DEF HandleCreate, Empty, Inv, Typed
  <2> QED
    BY <1>7, <2>1, <2>3, AnswerSound DEF HandleCreate, Stages, Answers, rowVars, Sound, Empty
<1> QED
  BY <1>1, <1>2, <1>3, <1>4, <1>5, <1>6, <1>7 DEF AgentStep

LEMMA StepSound ==
  ASSUME Inv, OnTime => Sound, [MovesNext]_movesVars
  PROVE  OnTime' => Sound'
<1> SUFFICES ASSUME OnTime'
             PROVE  Sound'
  OBVIOUS
<1>1. Sound
  BY OnTimeBefore
<1>2. CASE Save \/ Toggle \/ UNCHANGED movesVars
  <2>1. UNCHANGED <<row, agentPath, pending, applying, queue, moving>>
    BY <1>2 DEF Save, Toggle, movesVars, rowVars
  <2>2. (\A p \in Paths : Empty(p)' => Empty(p)) /\ \A p \in Paths : dataAt'[p] # "fresh"
    BY <1>1, <1>2, SavedSound DEF Save, Toggle, movesVars, moveHostVars, Sound, Empty
  <2>3. Effective' = Effective /\ Effective \in Paths
    BY <2>1, PathsTyped DEF Effective, PathOf, Inv
  <2>4. \A s \in Requests : Active(s) => applying[s].to \in Paths
    BY DEF Active, Inv, Typed, Asked, NotApplied, Stages
  <2>5. moving # Still => moving.from \in Paths
    BY DEF Inv, Typed
  <2>6. Outstanding' /\ OneActive'
    BY <1>1, <2>1, <2>2, <2>5 DEF Sound, Outstanding, OneActive, Active
  <2>7. \A s \in Requests : Active(s)' => Supplied(s)'
    BY <1>1, <2>1, <2>2, <2>3, <2>4 DEF Sound, Active, Supplied
  <2> QED
    BY <1>1, <2>1, <2>2, <2>3, <2>6, <2>7 DEF Sound
<1>3. CASE Forget \/ (\E p \in Paths : SetAgentPath(p)) \/ (\E p \in Paths \cup {"default"} : PatchConfig(p))
  BY <1>1, <1>3, PathsSound
<1>4. CASE AgentStep
  BY <1>1, <1>4, AgentSound
<1>5. ASSUME NEW r \in Requests, RequestStep(r)
      PROVE  Sound'
  BY <1>1, <1>5, HandlerSound
<1> QED
  BY <1>2, <1>3, <1>4, <1>5 DEF MovesNext

\* No container is made for a new world while the server's own is there, for any paths, any
\* requests made one after the other, and any failure the agent tells of.
THEOREM NeverMadeAnew == MovesSpec => NeverAnew
<1> DEFINE Step == container'.id > container.id /\ marks \cap {"late", "forgot", "overlap"} = {} =>
                     dataAt'[container'.path] # "fresh"
<1>1. MovesInit => (OnTime => Sound)
  <2> SUFFICES ASSUME MovesInit PROVE Sound
    OBVIOUS
  <2>1. Effective = Default /\ Default \in Paths /\ queue = <<>> /\ moving = Still /\ pending = "none"
        /\ dataAt = [p \in Paths |-> IF p = Default THEN "world" ELSE "none"]
    BY MovesAssumption DEF MovesInit, Effective, PathOf
  <2>2. \A r \in Requests : ~Active(r)
    BY DEF MovesInit, Active, NotApplied, Stages
  <2> QED
    BY <2>1, <2>2 DEF Sound, OneActive, Outstanding, Empty
<1>2. Inv /\ (OnTime => Sound) /\ [MovesNext]_movesVars => (OnTime' => Sound')
  BY StepSound
<1>3. Inv /\ Inv' /\ (OnTime => Sound) /\ (OnTime' => Sound') /\ [MovesNext]_movesVars => [Step]_movesVars
  <2> SUFFICES ASSUME Inv, Inv', OnTime' => Sound', MovesNext, container'.id > container.id, OnTime
               PROVE  dataAt'[container'.path] # "fresh"
    BY DEF OnTime
  <2>1. container.id \in Nat
    BY DEF Inv, Typed, NoContainer
  <2>2. ~(UNCHANGED container)
    BY <2>1
  <2>3. HandleRebuild \/ HandleCreate \/ Toggle
    BY <2>2 DEF MovesNext, Save, Forget, AgentStep, HandleGetDataPath, HandleCheckData, MoveBegins,
         Leavings, Litters, MoveEnds, MoveFails, AgentDies, EndMove, PatchConfig, SetAgentPath, RequestStep, Apply,
         Move, MoveFailed, Rebuild, Recover, CheckOld, Create, NotRebuilt, FinishApply, Timeout, moveHostVars
  <2>4. OnTime'
    BY <2>3 DEF HandleRebuild, HandleCreate, Toggle, OnTime
  <2>5. container' # NoContainer
    BY <2>1 DEF NoContainer
  <2>6. container'.path \in Paths
    BY <2>5 DEF Inv, Typed
  <2> QED
    BY <2>4, <2>6 DEF Sound
<1>4. MovesSpec => []Inv
  BY InitWell, StepWell, PTL DEF MovesSpec
<1> QED
  BY <1>1, <1>2, <1>3, <1>4, PTL DEF MovesSpec, NeverAnew

-----------------------------------------------------------------------------
\* Where the data are

Littered == "litter" \in marks

\* A part of a copy is that of the move there is.
PartsMoving == \A p \in Paths : dataAt[p] = "part" => moving # Still /\ moving.to = p

\* There is one directory with data, but for the two of a move; a container that has been made
\* for a request is there until the request ends, and it is the row's from then on.
Settled ==
  /\ \A p, q \in Paths : ~Empty(p) /\ ~Empty(q) /\ p # q =>
       moving # Still /\ p \in {moving.from, moving.to} /\ q \in {moving.from, moving.to}
  /\ "unapplied" \notin marks => pending = "none"
  /\ \A r \in Requests : Active(r) => row.status = "restarting"
  /\ \A r \in Requests : applying[r].at \in {"rebuild", "create"} /\ applying[r].answer = "ok" =>
       Exists /\ container.id = applying[r].made /\ container.path = applying[r].to
  /\ row.status = "running" =>
       /\ Exists /\ container.id = row.container
       /\ "unapplied" \notin marks => container.path = Effective

LEMMA LitteredBefore ==
  ASSUME [MovesNext]_movesVars, ~Littered'
  PROVE  ~Littered
<1>1. marks \subseteq marks' \cup {"unapplied"}
  BY DEF MovesNext, movesVars, Save, Toggle, Forget, AgentStep, HandleGetDataPath, HandleCheckData, MoveBegins,
         Leavings, Litters, MoveEnds, MoveFails, AgentDies, HandleRebuild, HandleCreate, PatchConfig, SetAgentPath, RequestStep, Apply,
         Move, MoveFailed, Rebuild, Recover, CheckOld, Create, NotRebuilt, FinishApply, Timeout, Fail
<1> QED
  BY <1>1 DEF Littered

LEMMA PartsKept ==
  ASSUME Inv, PartsMoving, [MovesNext]_movesVars, ~Littered'
  PROVE  PartsMoving'
<1> DEFINE q == Head(queue)
<1>1. CASE UNCHANGED <<moving, dataAt>>
  BY <1>1 DEF PartsMoving
<1>2. CASE Save \/ HandleRebuild
  <2>1. UNCHANGED moving /\ (UNCHANGED dataAt \/ Saved)
    BY <1>2 DEF Save, HandleRebuild, moveHostVars
  <2> QED
    BY <2>1 DEF Saved, PartsMoving, Inv, Typed
<1>3. CASE MoveBegins
  <2>1. Takes("move") /\ queue' = Tail(queue)
    BY <1>3 DEF MoveBegins
  <2>2. moving = Still /\ q \in AnyQuestion
    BY <2>1, TakeWell DEF Takes, Inv
  <2>3. q.to \in Paths
    BY <2>2 DEF AnyQuestion
  <2>4. CASE UNCHANGED <<moving, dataAt>>
    BY <2>4, <1>1
  <2>5. CASE /\ moving' = [request |-> q.request, from |-> q.from, to |-> q.to]
             /\ dataAt' = [dataAt EXCEPT ![q.to] = "part"]
    <3>1. moving' # Still
      BY <2>5, <2>3, MovesAssumption DEF Still
    <3>2. \A p \in Paths : dataAt'[p] = "part" => p = q.to
      BY <2>2, <2>3, <2>5 DEF PartsMoving, Inv, Typed
    <3> QED
      BY <2>5, <3>1, <3>2 DEF PartsMoving
  <2> QED
    BY <1>3, <2>4, <2>5 DEF MoveBegins
<1>4. CASE MoveEnds \/ MoveFails
  <2>1. moving \in [request : Requests, from : Paths, to : Paths] /\ moving # Still /\ moving.from # moving.to
    BY <1>4 DEF Leavings, Litters, Inv, Typed, MovingWell, MoveEnds, MoveFails
  <2>2. dataAt[moving.from] # "part"
    BY <2>1 DEF PartsMoving
  <2>3. \A p \in Paths : dataAt'[p] # "part"
    <3>1. CASE MoveEnds
      <4>1. dataAt' = [dataAt EXCEPT ![moving.to] = dataAt[moving.from], ![moving.from] = "none"]
        BY <3>1 DEF Leavings, Litters, MoveEnds, Littered
      <4> QED
        BY <2>1, <2>2, <4>1 DEF Inv, Typed, PartsMoving
    <3>2. CASE MoveFails
      <4>1. PICK left \in Leavings : dataAt' = [dataAt EXCEPT ![moving.to] = left] /\ Litters(left)
        BY <3>2 DEF MoveFails
      <4>2. left = "none"
        BY <4>1 DEF Leavings, Litters, Littered
      <4> QED
        BY <2>1, <4>1, <4>2 DEF Inv, Typed, PartsMoving
    <3> QED
      BY <1>4, <3>1, <3>2
  <2> QED
    BY <2>3 DEF PartsMoving
<1>5. CASE AgentDies
  BY <1>5 DEF AgentDies, Littered
<1>6. CASE HandleCreate
  <2>1. Takes("create") /\ queue' = Tail(queue) /\ UNCHANGED moving
        /\ (UNCHANGED dataAt \/ dataAt' = [dataAt EXCEPT ![q.to] = IF @ = "none" THEN "fresh" ELSE @])
    BY <1>6 DEF HandleCreate
  <2>2. q.to \in Paths
    BY <2>1, TakeWell DEF AnyQuestion, Inv
  <2> QED
    BY <2>1, <2>2 DEF PartsMoving, Inv, Typed
<1>7. \/ UNCHANGED <<moving, dataAt>> \/ Save \/ MoveBegins \/ MoveEnds \/ MoveFails \/ AgentDies
      \/ HandleRebuild \/ HandleCreate
  BY DEF MovesNext, movesVars, Toggle, Forget, AgentStep, HandleGetDataPath, HandleCheckData, PatchConfig,
         SetAgentPath, RequestStep, Apply, Move, MoveFailed, Rebuild, Recover, CheckOld, Create, NotRebuilt,
         FinishApply, Timeout, moveHostVars
<1> QED
  BY <1>1, <1>2, <1>3, <1>4, <1>5, <1>6, <1>7

\* A step that leaves the data, the container, the row's status and its container alone.
LEMMA QuietSettled ==
  ASSUME Settled, UNCHANGED <<moving, dataAt, container>>,
         row'.status = row.status, row'.container = row.container,
         \A r \in Requests : Active(r)' => Active(r),
         \A r \in Requests : applying'[r].at \in {"rebuild", "create"} /\ applying'[r].answer = "ok" =>
           applying'[r] = applying[r],
         "unapplied" \notin marks' => "unapplied" \notin marks /\ pending' = pending /\ Effective' = Effective
  PROVE  Settled'
<1>1. \A p, q \in Paths : ~Empty(p)' /\ ~Empty(q)' /\ p # q =>
        moving' # Still /\ p \in {moving'.from, moving'.to} /\ q \in {moving'.from, moving'.to}
  BY DEF Settled, Empty
<1>2. \A r \in Requests : Active(r)' => row'.status = "restarting"
  BY DEF Settled
<1>3. \A r \in Requests : applying'[r].at \in {"rebuild", "create"} /\ applying'[r].answer = "ok" =>
        Exists' /\ container'.id = applying'[r].made /\ container'.path = applying'[r].to
  BY DEF Settled, Exists
<1> QED
  BY <1>1, <1>2, <1>3 DEF Settled, Exists

LEMMA PathsSettled ==
  ASSUME Inv, Settled, OnTime',
         Forget \/ (\E p \in Paths : SetAgentPath(p)) \/ (\E p \in Paths \cup {"default"} : PatchConfig(p))
  PROVE  Settled'
<1>1. UNCHANGED <<applying, moving, dataAt, container>>
  BY DEF Forget, SetAgentPath, PatchConfig, moveHostVars
<1>2. row'.status = row.status /\ row'.container = row.container
  BY DEF Forget, SetAgentPath, PatchConfig, Inv, Typed
<1>3. "unapplied" \notin marks' => "unapplied" \notin marks /\ pending' = pending /\ Effective' = Effective
  BY DEF Forget, SetAgentPath, PatchConfig, OnTime, Effective, PathOf
<1> QED
  BY <1>1, <1>2, <1>3, QuietSettled DEF Active

LEMMA HandlerSettled ==
  ASSUME Inv, Sound, Settled, OnTime', NEW r \in Requests, RequestStep(r)
  PROVE  Settled'
<1>1. UNCHANGED <<moving, dataAt, container>>
  BY DEF RequestStep, Apply, Move, MoveFailed, Rebuild, Recover, CheckOld, Create, NotRebuilt,
         FinishApply, Timeout, moveHostVars
<1>2. Active(r) => applying[r] \in Asked /\ Supplied(r) /\ \A s \in Requests : Active(s) => s = r
  BY DEF Active, Inv, Typed, NotApplied, Stages, Sound, OneActive
<1>3. CASE Apply(r)
  <2> DEFINE req == [at |-> "done", old |-> pending, to |-> Effective, id |-> row.container,
                     answer |-> "no", path |-> "none", made |-> 0]
             op == IF pending \notin {"none", Effective} THEN "ask" ELSE "rebuild"
  <2>1. req \in Asked /\ op \in Stages
    BY PathsTyped DEF Inv, Typed, Asked, Stages, Answers
  <2>2. AskAs(r, req, op)
    BY <1>3 DEF Apply
  <2> HIDE DEF req, op
  <2>3. applying'[r].answer = "waiting" /\ \A s \in Requests : s # r => applying'[s] = applying[s]
    BY <2>1, <2>2 DEF AskAs, Inv, Typed, Asked
  <2>4. row'.status = "restarting" /\ UNCHANGED <<marks, pending>>
    BY <1>3 DEF Apply, Inv, Typed, OnTime
  <2>5. \A p, q \in Paths : ~Empty(p)' /\ ~Empty(q)' /\ p # q =>
          moving' # Still /\ p \in {moving'.from, moving'.to} /\ q \in {moving'.from, moving'.to}
    BY <1>1 DEF Settled, Empty
  <2>6. \A s \in Requests : applying'[s].at \in {"rebuild", "create"} /\ applying'[s].answer = "ok" =>
          Exists' /\ container'.id = applying'[s].made /\ container'.path = applying'[s].to
    BY <1>1, <2>3 DEF Settled, Exists
  <2> QED
    BY <2>4, <2>5, <2>6 DEF Settled
<1>4. ASSUME NEW req \in Asked, NEW op \in Stages, AskAs(r, req, op), Active(r), UNCHANGED <<row, agentPath, pending, marks>>
      PROVE  Settled'
  <2>1. applying'[r].answer = "waiting" /\ \A s \in Requests : s # r => applying'[s] = applying[s]
    BY <1>4 DEF AskAs, Inv, Typed, Asked
  <2>2. (\A s \in Requests : Active(s)' => Active(s)) /\ Effective' = Effective
    BY <1>4, <2>1 DEF Active, Effective, PathOf
  <2> QED
    BY <1>1, <1>4, <2>1, <2>2, QuietSettled
<1>5. CASE Move(r) \/ Rebuild(r) \/ Recover(r)
  <2>1. Active(r) /\ UNCHANGED <<row, agentPath, pending, marks>>
    BY <1>5 DEF Move, Rebuild, Recover, Stands, Active, Stages, rowVars
  <2>2. applying[r].at = "ask" /\ applying[r].answer = "ok" =>
          [applying[r] EXCEPT !.old = applying[r].path] \in Asked
    BY <1>2, <2>1 DEF Inv, Named, Asked
  <2>3. \E req \in Asked, op \in Stages : AskAs(r, req, op)
    BY <1>2, <1>5, <2>1, <2>2 DEF Move, Rebuild, Recover, Stands, Stages
  <2> QED
    BY <1>4, <2>1, <2>3
<1>6. CASE CheckOld(r)
  BY <1>2, <1>6 DEF CheckOld, Stands, Active, Stages, Supplied
<1>7. CASE Create(r)
  <2>1. Active(r) /\ AskAs(r, applying[r], "create") /\ UNCHANGED <<row, agentPath, pending, marks>>
    BY <1>2, <1>7 DEF Create, Stands, Active, Stages, Supplied
  <2> QED
    BY <1>2, <1>4, <2>1 DEF Stages
<1>8. CASE MoveFailed(r) \/ NotRebuilt(r)
  <2>1. Active(r) /\ Fail(r) /\ UNCHANGED <<agentPath, pending, marks>>
    BY <1>8 DEF MoveFailed, NotRebuilt, Stands, Active, Stages, Fail
  <2>2. applying'[r].at = "done" /\ \A s \in Requests : s # r => applying'[s] = applying[s]
    BY <1>2, <2>1 DEF Fail, Inv, Typed, Asked
  <2>3. row'.status = "failed"
    BY <2>1 DEF Fail, Inv, Typed
  <2>4. \A s \in Requests : ~Active(s)'
    BY <1>2, <2>1, <2>2 DEF Active, Stages
  <2>5. \A p, q \in Paths : ~Empty(p)' /\ ~Empty(q)' /\ p # q =>
          moving' # Still /\ p \in {moving'.from, moving'.to} /\ q \in {moving'.from, moving'.to}
    BY <1>1 DEF Settled, Empty
  <2>6. \A s \in Requests : applying'[s].at \notin {"rebuild", "create"}
    BY <2>4 DEF Active, Stages
  <2> QED
    BY <2>1, <2>3, <2>4, <2>5, <2>6 DEF Settled
<1>9. CASE FinishApply(r)
  <2>1. Active(r) /\ applying[r].at \in {"rebuild", "create"} /\ applying[r].answer = "ok"
    BY <1>9 DEF FinishApply, Stands, Active, Stages
  <2>2. applying'[r].at = "done" /\ \A s \in Requests : s # r => applying'[s] = applying[s]
    BY <1>2, <2>1, <1>9 DEF FinishApply, Inv, Typed, Asked
  <2>3. Effective' = Effective /\ row'.container = applying[r].made /\ pending' = "none"
    BY <1>9 DEF FinishApply, Effective, PathOf, Inv, Typed
  <2>4. applying[r].to = Effective
    BY <1>2, <2>1, <1>9 DEF FinishApply, Forgot, OnTime, Supplied
  <2>5. Exists /\ container.id = applying[r].made /\ container.path = applying[r].to
    BY <2>1 DEF Settled
  <2>6. \A s \in Requests : ~Active(s)'
    BY <1>2, <2>1, <2>2 DEF Active, Stages
  <2>7. \A p, q \in Paths : ~Empty(p)' /\ ~Empty(q)' /\ p # q =>
          moving' # Still /\ p \in {moving'.from, moving'.to} /\ q \in {moving'.from, moving'.to}
    BY <1>1 DEF Settled, Empty
  <2>8. \A s \in Requests : applying'[s].at \notin {"rebuild", "create"}
    BY <2>6 DEF Active, Stages
  <2> QED
    BY <1>1, <2>3, <2>4, <2>5, <2>6, <2>7, <2>8 DEF Settled, Exists
<1>10. CASE Timeout(r)
  BY <1>10 DEF Timeout, OnTime
<1> QED
  BY <1>3, <1>5, <1>6, <1>7, <1>8, <1>9, <1>10 DEF RequestStep

\* The data end where the move was to bring them, or where they were.
LEMMA MovesSettled ==
  ASSUME Inv, Sound, Settled, ~Littered', MoveEnds \/ MoveFails
  PROVE  Settled'
<1>1. moving \in [request : Requests, from : Paths, to : Paths] /\ moving # Still
  BY DEF Leavings, Litters, Inv, Typed, MoveEnds, MoveFails
<1>2. /\ moving.request \in Requests /\ moving.from \in Paths /\ moving.to \in Paths /\ moving.from # moving.to
      /\ ~Empty(moving.from) /\ ~Empty(moving.to) /\ applying[moving.request].at = "move"
  BY <1>1 DEF Inv, MovingWell, Sound, Outstanding, Empty
<1>3. PICK answer \in {"ok", "no"} : EndMove(answer)
  BY DEF Leavings, Litters, MoveEnds, MoveFails
<1>4. UNCHANGED <<row, agentPath, pending, container>>
  BY <1>3 DEF EndMove, rowVars
<1>5. \A s \in Requests : applying'[s].at = applying[s].at
                          /\ (applying[s].at # "move" => applying'[s] = applying[s])
  <2>1. applying[moving.request] \in Asked
    BY <1>2 DEF Inv, Typed, NotApplied
  <2> QED
    BY <1>2, <1>3, <2>1 DEF EndMove, Reply, Inv, Typed, Asked
<1>6. \E x \in Paths : \A p \in Paths : ~Empty(p)' => p = x
  <2>1. \A p \in Paths : ~Empty(p) => p \in {moving.from, moving.to}
    BY <1>2 DEF Settled
  <2>2. CASE MoveEnds
    <3>1. dataAt' = [dataAt EXCEPT ![moving.to] = dataAt[moving.from], ![moving.from] = "none"]
      BY <2>2 DEF Leavings, Litters, MoveEnds, Littered
    <3> QED
      BY <1>2, <2>1, <3>1 DEF Inv, Typed, Empty
  <2>3. CASE MoveFails
    <3>1. PICK left \in Leavings : dataAt' = [dataAt EXCEPT ![moving.to] = left] /\ Litters(left)
      BY <2>3 DEF MoveFails
    <3>2. left = "none"
      BY <3>1 DEF Leavings, Litters, Littered
    <3> QED
      BY <1>2, <2>1, <3>1, <3>2 DEF Inv, Typed, Empty
  <2> QED
    BY <2>2, <2>3
<1>7. UNCHANGED marks
  BY DEF Leavings, Litters, MoveEnds, MoveFails, Littered
<1>8. \A s \in Requests : Active(s)' <=> Active(s)
  BY <1>5 DEF Active
<1>9. Effective' = Effective
  BY <1>4 DEF Effective, PathOf
<1>10. \A s \in Requests : applying'[s].at \in {"rebuild", "create"} /\ applying'[s].answer = "ok" =>
         Exists' /\ container'.id = applying'[s].made /\ container'.path = applying'[s].to
  BY <1>4, <1>5 DEF Settled, Exists
<1> QED
  BY <1>4, <1>6, <1>7, <1>8, <1>9, <1>10 DEF Settled, Exists

LEMMA AgentSettled ==
  ASSUME Inv, Sound, Settled, OnTime', ~Littered', AgentStep
  PROVE  Settled'
<1> DEFINE q == Head(queue)
<1>1. CASE MoveEnds \/ MoveFails
  BY <1>1, MovesSettled
<1>2. CASE AgentDies
  BY <1>2 DEF AgentDies, OnTime
<1>3. CASE /\ MoveBegins /\ UNCHANGED applying /\ CanMove(q.from, q.to)
           /\ moving' = [request |-> q.request, from |-> q.from, to |-> q.to]
           /\ dataAt' = [dataAt EXCEPT ![q.to] = "part"]
  <2>1. Takes("move") /\ queue' = Tail(queue) /\ UNCHANGED <<row, agentPath, pending, container, marks>>
    BY <1>3 DEF MoveBegins, rowVars
  <2>2. moving = Still /\ q.request \in Requests /\ Active(q.request) /\ applying[q.request].answer = "waiting"
        /\ applying[q.request].at = "move" /\ applying[q.request] \in Asked
    BY <2>1, TakenSound
  <2>3. q.from \in Paths /\ q.to \in Paths
    BY <2>1, TakeWell DEF Inv, AnyQuestion
  <2>4. PICK from \in Paths, to \in Paths : from = q.from /\ to = q.to
    BY <2>3
  <2>7. moving'.from = from /\ moving'.to = to /\ ~Empty(from) /\ moving' # Still
    BY <1>3, <2>4, MovesAssumption DEF CanMove, Empty, Still
  <2>8. \A p \in Paths : ~Empty(p)' => p \in {from, to}
    BY <1>3, <2>2, <2>4, <2>7 DEF Settled, Inv, Typed, Empty
  <2>9. Effective' = Effective
    BY <2>1 DEF Effective, PathOf
  <2>10. \A s \in Requests : Active(s)' => row'.status = "restarting"
    BY <1>3, <2>1 DEF Settled, Active
  <2>11. \A s \in Requests : applying'[s].at \in {"rebuild", "create"} /\ applying'[s].answer = "ok" =>
           Exists' /\ container'.id = applying'[s].made /\ container'.path = applying'[s].to
    BY <1>3, <2>1 DEF Settled, Exists
  <2> QED
    BY <2>1, <2>7, <2>8, <2>9, <2>10, <2>11 DEF Settled, Exists
<1>4. ASSUME NEW op \in Stages, Takes(op), queue' = Tail(queue), NEW answer \in Answers \ {"waiting"},
             NEW path \in Paths \cup {"none"}, NEW id \in Nat, Reply(q, answer, path, id),
             UNCHANGED <<row, agentPath, pending, moving, marks>>,
             \A p \in Paths : Empty(p) => Empty(p)',
             op \in {"rebuild", "create"} \/ UNCHANGED container,
             op \in {"rebuild", "create"} /\ answer = "ok" => container' = [id |-> id, path |-> q.to, runs |-> TRUE]
      PROVE  Settled'
  <2>1. PICK r \in Requests : r = q.request
    BY <1>4, TakenSound
  <2>2. /\ Active(r) /\ applying[r] \in Asked /\ applying[r].at = op /\ applying[r].answer = "waiting"
        /\ applying[r].to = q.to /\ \A s \in Requests : Active(s) => s = r
    BY <1>4, <2>1, TakenSound
  <2>3. applying' = [applying EXCEPT ![r].answer = answer, ![r].path = path, ![r].made = id]
    BY <1>4, <2>1, <2>2, TakenSound DEF Reply
  <2>4. /\ applying'[r].at = op /\ applying'[r].answer = answer /\ applying'[r].made = id
        /\ applying'[r].to = applying[r].to
        /\ \A s \in Requests : s # r => applying'[s] = applying[s]
    BY <2>2, <2>3 DEF Inv, Typed, Asked
  <2>5. \A s \in Requests : Active(s)' => s = r
    BY <2>2, <2>4 DEF Active
  <2>6. row'.status = "restarting"
    BY <1>4, <2>2 DEF Settled
  <2>7. \A x, y \in Paths : ~Empty(x)' /\ ~Empty(y)' /\ x # y =>
          moving' # Still /\ x \in {moving'.from, moving'.to} /\ y \in {moving'.from, moving'.to}
    BY <1>4 DEF Settled
  <2>8. \A s \in Requests : applying'[s].at \in {"rebuild", "create"} /\ applying'[s].answer = "ok" =>
          Exists' /\ container'.id = applying'[s].made /\ container'.path = applying'[s].to
    <3> SUFFICES ASSUME NEW s \in Requests, applying'[s].at \in {"rebuild", "create"}, applying'[s].answer = "ok"
                 PROVE  Exists' /\ container'.id = applying'[s].made /\ container'.path = applying'[s].to
      OBVIOUS
    <3>1. s = r
      BY <2>5 DEF Active, Stages
    <3>2. container' = [id |-> id, path |-> q.to, runs |-> TRUE]
      BY <1>4, <2>4, <3>1
    <3>3. container' # NoContainer
      BY <3>2 DEF NoContainer
    <3> QED
      BY <2>2, <2>4, <3>1, <3>2, <3>3 DEF Exists
  <2> QED
    BY <1>4, <2>6, <2>7, <2>8 DEF Settled
<1>5. CASE HandleGetDataPath \/ HandleCheckData
  <2>1. PICK op \in {"ask", "check", "checkOld"} : Takes(op)
    BY <1>5 DEF HandleGetDataPath, HandleCheckData
  <2>2. Exists => container.path \in Paths
    BY DEF Inv, Typed, Exists
  <2>3. \E answer \in {"ok", "no", "missing"} : \E path \in Paths \cup {"none"} : Reply(q, answer, path, 0)
    BY <1>5, <2>2 DEF HandleGetDataPath, HandleCheckData
  <2> QED
    BY <1>4, <1>5, <2>1, <2>3
    DEF HandleGetDataPath, HandleCheckData, Stages, Answers, rowVars, moveHostVars, Empty
<1>6. CASE MoveBegins /\ Reply(q, "no", "none", 0) /\ UNCHANGED <<moving, dataAt>>
  BY <1>4, <1>6 DEF MoveBegins, Stages, Answers, rowVars, Empty
<1>7. CASE HandleRebuild
  <2>1. made + 1 \in Nat
    BY DEF Inv, Typed
  <2>2. \E answer \in {"ok", "no", "missing"}, id \in {0, made + 1} :
          /\ Reply(q, answer, "none", id)
          /\ answer = "ok" => container' = [id |-> id, path |-> q.to, runs |-> TRUE]
    BY <1>7 DEF HandleRebuild, New
  <2>3. UNCHANGED dataAt \/ Saved
    BY <1>7 DEF HandleRebuild, moveHostVars
  <2>4. \A p \in Paths : Empty(p) => Empty(p)'
    BY <2>3 DEF Saved, Empty, Inv, Typed
  <2> QED
    BY <1>4, <1>7, <2>1, <2>2, <2>4 DEF HandleRebuild, Stages, Answers, rowVars
<1>8. CASE HandleCreate
  <2>1. made + 1 \in Nat
    BY DEF Inv, Typed
  <2>2. \E answer \in {"ok", "no"}, id \in {0, made + 1} :
          /\ Reply(q, answer, "none", id)
          /\ answer = "ok" => container' = [id |-> id, path |-> q.to, runs |-> TRUE]
    BY <1>8 DEF HandleCreate, New
  <2>3. q.to \in Paths /\ ~Empty(q.to)
    BY <1>8, TakenSound DEF HandleCreate, AnyQuestion, Supplied
  <2>4. UNCHANGED dataAt
    BY <1>8, <2>3 DEF HandleCreate, Empty, Inv, Typed
  <2> QED
    BY <1>4, <1>8, <2>1, <2>2, <2>4 DEF HandleCreate, Stages, Answers, rowVars, Empty
<1> QED
  BY <1>1, <1>2, <1>3, <1>5, <1>6, <1>7, <1>8 DEF AgentStep, MoveBegins

LEMMA StepSettled ==
  ASSUME Inv, OnTime => Sound, OnTime /\ ~Littered => Settled, [MovesNext]_movesVars, OnTime', ~Littered'
  PROVE  Settled'
<1>1. Sound /\ Settled
  BY OnTimeBefore, LitteredBefore
<1>2. CASE Save \/ Toggle \/ UNCHANGED movesVars
  <2>1. UNCHANGED <<row, agentPath, pending, applying, queue, moving, marks>>
    BY <1>2 DEF Save, Toggle, movesVars, rowVars
  <2>2. \A p \in Paths : Empty(p) => Empty(p)'
    BY <1>2 DEF Save, Saved, Toggle, movesVars, moveHostVars, Inv, Typed, Empty
  <2>3. container'.id = container.id /\ container'.path = container.path /\ (Exists' <=> Exists)
    BY <1>2 DEF Save, Toggle, movesVars, moveHostVars, Inv, Typed, Exists, NoContainer
  <2>4. Effective' = Effective /\ \A s \in Requests : Active(s)' <=> Active(s)
    BY <2>1 DEF Effective, PathOf, Active
  <2>5. \A p, q \in Paths : ~Empty(p)' /\ ~Empty(q)' /\ p # q =>
          moving' # Still /\ p \in {moving'.from, moving'.to} /\ q \in {moving'.from, moving'.to}
    BY <1>1, <2>1, <2>2 DEF Settled
  <2> QED
    BY <1>1, <2>1, <2>3, <2>4, <2>5 DEF Settled
<1>3. CASE Forget \/ (\E p \in Paths : SetAgentPath(p)) \/ (\E p \in Paths \cup {"default"} : PatchConfig(p))
  BY <1>1, <1>3, PathsSettled
<1>4. CASE AgentStep
  BY <1>1, <1>4, AgentSettled
<1>5. ASSUME NEW r \in Requests, RequestStep(r)
      PROVE  Settled'
  BY <1>1, <1>5, HandlerSettled
<1> QED
  BY <1>2, <1>3, <1>4, <1>5 DEF MovesNext

\* What moving a server's data promises of them: the newest world is kept, a server that is said
\* to run stands on it, and no part of a copy is in the way of the next move.
THEOREM MovesHoldOut == MovesSpec => []MovesHold
<1>1. MovesInit => (OnTime => Sound) /\ (OnTime /\ ~Littered => Settled) /\ PartsMoving
  <2> SUFFICES ASSUME MovesInit PROVE Sound /\ Settled /\ PartsMoving
    OBVIOUS
  <2>1. /\ Effective = Default /\ Default \in Paths /\ queue = <<>> /\ moving = Still /\ pending = "none"
        /\ dataAt = [p \in Paths |-> IF p = Default THEN "world" ELSE "none"]
        /\ row = [path |-> "default", container |-> 1, status |-> "running"]
    BY MovesAssumption DEF MovesInit, Effective, PathOf
  <2>2. \A r \in Requests : ~Active(r) /\ applying[r].at \notin {"rebuild", "create"}
    BY DEF MovesInit, Active, NotApplied, Stages
  <2>3. Exists /\ container.id = row.container /\ container.path = Effective
    BY <2>1 DEF MovesInit, Exists, NoContainer
  <2> QED
    BY <2>1, <2>2, <2>3 DEF Sound, OneActive, Outstanding, Empty, Settled, PartsMoving
<1>2. Inv /\ (OnTime => Sound) /\ (OnTime /\ ~Littered => Settled) /\ [MovesNext]_movesVars
      => (OnTime' => Sound') /\ (OnTime' /\ ~Littered' => Settled')
  BY StepSound, StepSettled
<1>3. Inv /\ (~Littered => PartsMoving) /\ [MovesNext]_movesVars => (~Littered' => PartsMoving')
  BY PartsKept, LitteredBefore
<1>4. Inv /\ (OnTime => Sound) /\ (OnTime /\ ~Littered => Settled) /\ (~Littered => PartsMoving) => MovesHold
  <2> SUFFICES ASSUME Inv, OnTime => Sound, OnTime /\ ~Littered => Settled, ~Littered => PartsMoving
               PROVE  Placed /\ NoLitter /\ WorldKept
    BY DEF MovesHold
  <2>1. WorldKept
    BY DEF WorldKept, Inv, Somewhere
  <2>2. NoLitter
    BY DEF NoLitter, Quiet, Littered, PartsMoving
  <2>3. Placed
    <3> SUFFICES ASSUME Quiet, row.status = "running",
                        marks \cap {"late", "unapplied", "forgot", "overlap", "litter"} = {}
                 PROVE  /\ container.id = row.container /\ container.path = Effective
                        /\ ~raced => dataAt[Effective] = "world"
      BY DEF Placed
    <3>1. Sound /\ Settled /\ "unapplied" \notin marks
      BY DEF OnTime, Littered
    <3>2. ~Empty(Effective) /\ Effective \in Paths
      BY <3>1, PathsTyped DEF Sound, Settled, Inv
    <3>3. PICK p \in Paths : dataAt[p] = "world"
      BY DEF Inv, Somewhere
    <3>4. p = Effective
      BY <3>1, <3>2, <3>3 DEF Settled, Empty, Quiet
    <3> QED
      BY <3>1, <3>3, <3>4 DEF Settled
  <2> QED
    BY <2>1, <2>2, <2>3
<1>5. MovesSpec => []Inv
  BY InitWell, StepWell, PTL DEF MovesSpec
<1> QED
  BY <1>1, <1>2, <1>3, <1>4, <1>5, PTL DEF MovesSpec

-----------------------------------------------------------------------------
(* The numbers.  A request makes one container at most: it asks the agent  *)
(* to rebuild, and to create only when it has been told, while it waited,  *)
(* that there was nothing to rebuild.  So the containers made are one more *)
(* than the requests that can make no other, of which there are never      *)
(* fewer than before.                                                      *)

Makes(q) == q.op \in {"rebuild", "create"}
AsksToMake(r) == \E n \in 1 .. Len(queue) : Makes(queue[n]) /\ queue[n].request = r

\* The handler has asked for no container, or for one that could not be rebuilt.
Ready(r) ==
  \/ applying[r].at \in {"idle", "ask", "move", "check", "checkOld"}
  \/ applying[r].at = "rebuild" /\ applying[r].answer = "missing"

\* The request may yet make a container.
Able(r) == Ready(r) \/ AsksToMake(r)
Spent == {r \in Requests : ~Able(r)}

\* One question at most of a request is one to make a container, and none has answered it.
AskedOnce ==
  \A n \in 1 .. Len(queue) : Makes(queue[n]) =>
    /\ \A m \in 1 .. Len(queue) : Makes(queue[m]) /\ queue[m].request = queue[n].request => m = n
    /\ applying[queue[n].request].at \in {"rebuild", "create", "done"}
    /\ applying[queue[n].request].answer \in {"waiting", "no"}

\* The ids known to a handler and to its questions are those of containers that have been made.
RequestKnows(req) ==
  /\ req.id \in 1 .. made /\ req.made \in 0 .. made
  /\ req.at \in {"rebuild", "create"} /\ req.answer = "ok" => req.made \in 1 .. made
IdsKnown ==
  /\ \A r \in Requests : applying[r] # NotApplied => RequestKnows(applying[r])
  /\ \A n \in 1 .. Len(queue) : queue[n].id \in 1 .. made
HostKnown ==
  /\ made \in Nat \ {0} /\ row.container \in 1 .. made
  /\ Exists => container.id \in 1 .. made
Histories ==
  /\ patches \in 0 .. MaxPatches /\ raced \in BOOLEAN
  /\ marks \subseteq {"late", "litter", "unapplied", "forgot", "overlap"}

Counted == made <= 1 + Cardinality(Spent)

Numbered == AskedOnce /\ IdsKnown /\ HostKnown /\ Histories /\ Counted

\* What a step does to the handlers and their questions: no request gets able again.
Orderly == AskedOnce' /\ IdsKnown' /\ \A r \in Requests : Able(r)' => Able(r)

LEMMA QuestionsTyped ==
  ASSUME Typed, NEW n \in 1 .. Len(queue)
  PROVE  queue[n] \in AnyQuestion /\ queue[n].request \in Requests
<1>1. queue[n] \in AnyQuestion
  BY DEF Typed
<1> QED
  BY <1>1 DEF AnyQuestion

LEMMA ReadyAsksNone ==
  ASSUME AskedOnce, NEW r \in Requests, Ready(r)
  PROVE  ~AsksToMake(r)
BY DEF AskedOnce, AsksToMake, Ready

\* A question goes to the end of the queue, and its asker waits.
LEMMA AskAdds ==
  ASSUME Typed, NEW r \in Requests, NEW req \in Asked, NEW op \in Stages, AskAs(r, req, op),
         op = "checkOld" => req.old \in Paths
  PROVE  /\ queue' \in Seq(AnyQuestion) /\ Len(queue') = Len(queue) + 1
         /\ \A n \in 1 .. Len(queue) : queue'[n] = queue[n]
         /\ queue'[Len(queue')].op = op /\ queue'[Len(queue')].request = r
         /\ queue'[Len(queue')].id = req.id
         /\ applying'[r].at = op /\ applying'[r].answer = "waiting" /\ applying'[r].made = 0
         /\ applying'[r].id = req.id /\ applying'[r] \in Asked
         /\ \A s \in Requests \ {r} : applying'[s] = applying[s]
<1> DEFINE one == [req EXCEPT !.at = op]
           two == [one EXCEPT !.answer = "waiting"]
           three == [two EXCEPT !.path = "none"]
           four == [three EXCEPT !.made = 0]
           q == [op |-> op, request |-> r, from |-> req.old, id |-> req.id,
                 to |-> IF op = "checkOld" THEN req.old ELSE req.to]
<1>1. one \in Asked /\ one.at = op /\ one.id = req.id
  BY DEF Asked
<1> HIDE DEF one
<1>2. two \in Asked /\ two.at = op /\ two.id = req.id /\ two.answer = "waiting"
  BY <1>1 DEF Asked, Answers
<1> HIDE DEF two
<1>3. three \in Asked /\ three.at = op /\ three.id = req.id /\ three.answer = "waiting"
  BY <1>2 DEF Asked
<1> HIDE DEF three
<1>4. four \in Asked /\ four.at = op /\ four.id = req.id /\ four.answer = "waiting" /\ four.made = 0
  BY <1>3 DEF Asked
<1>5. applying' = [applying EXCEPT ![r] = four] /\ queue' = Append(queue, q)
  BY DEF AskAs, one, two, three, four
<1> HIDE DEF four
<1>6. q \in AnyQuestion /\ q.op = op /\ q.request = r /\ q.id = req.id
  BY DEF AnyQuestion, Asked
<1> HIDE DEF q
<1>7. queue' \in Seq(AnyQuestion) /\ Len(queue') = Len(queue) + 1 /\ queue'[Len(queue')] = q
      /\ \A n \in 1 .. Len(queue) : queue'[n] = queue[n]
  BY <1>5, <1>6 DEF Typed
<1> QED
  BY <1>4, <1>5, <1>6, <1>7 DEF Typed

LEMMA AskOrderly ==
  ASSUME Typed, AskedOnce, IdsKnown, made' = made,
         NEW r \in Requests, NEW req \in Asked, NEW op \in Stages, AskAs(r, req, op),
         op = "checkOld" => req.old \in Paths, Ready(r), req.id \in 1 .. made
  PROVE  Orderly
<1>1. /\ queue' \in Seq(AnyQuestion) /\ Len(queue') = Len(queue) + 1
      /\ \A n \in 1 .. Len(queue) : queue'[n] = queue[n]
      /\ queue'[Len(queue')].op = op /\ queue'[Len(queue')].request = r
      /\ queue'[Len(queue')].id = req.id
  BY AskAdds
<1>2. /\ applying'[r].at = op /\ applying'[r].answer = "waiting" /\ applying'[r].made = 0
      /\ applying'[r].id = req.id
      /\ \A s \in Requests \ {r} : applying'[s] = applying[s]
  BY AskAdds
<1>3. Len(queue) \in Nat /\ \A n \in 1 .. Len(queue') : n \in 1 .. Len(queue) \/ n = Len(queue')
  BY <1>1 DEF Typed
<1>4. ~AsksToMake(r)
  BY ReadyAsksNone
<1>5. \A n \in 1 .. Len(queue) : queue[n].request \in Requests
  BY QuestionsTyped
<1>6. AskedOnce'
  <2> SUFFICES ASSUME NEW n \in 1 .. Len(queue'), Makes(queue'[n])
               PROVE  /\ \A m \in 1 .. Len(queue') :
                           Makes(queue'[m]) /\ queue'[m].request = queue'[n].request => m = n
                      /\ applying'[queue'[n].request].at \in {"rebuild", "create", "done"}
                      /\ applying'[queue'[n].request].answer \in {"waiting", "no"}
    BY DEF AskedOnce, Makes
  <2>1. CASE n = Len(queue')
    BY <2>1, <1>1, <1>2, <1>3, <1>4 DEF AsksToMake, Makes
  <2>2. CASE n \in 1 .. Len(queue)
    <3>1. Makes(queue[n]) /\ queue[n].request # r /\ queue'[n] = queue[n]
      BY <2>2, <1>1, <1>4 DEF AsksToMake, Makes
    <3>2. \A m \in 1 .. Len(queue) : Makes(queue[m]) /\ queue[m].request = queue[n].request => m = n
      BY <2>2, <3>1 DEF AskedOnce
    <3>3. applying'[queue[n].request] = applying[queue[n].request]
      BY <2>2, <3>1, <1>2, <1>5
    <3> QED
      BY <2>2, <3>1, <3>2, <3>3, <1>1, <1>3 DEF AskedOnce
  <2> QED
    BY <1>3, <2>1, <2>2
<1>7. IdsKnown'
  <2>1. ASSUME NEW s \in Requests, applying'[s] # NotApplied
        PROVE  RequestKnows(applying[s])'
    <3>1. CASE s = r
      BY <3>1, <1>2 DEF RequestKnows, Typed
    <3>2. CASE s # r
      BY <3>2, <2>1, <1>2 DEF IdsKnown, RequestKnows
    <3> QED
      BY <3>1, <3>2
  <2>2. \A n \in 1 .. Len(queue') : queue'[n].id \in 1 .. made'
    BY <1>1, <1>3 DEF IdsKnown
  <2> QED
    BY <2>1, <2>2 DEF IdsKnown
<1>8. ASSUME NEW s \in Requests, Able(s)'
      PROVE  Able(s)
  <2>1. CASE s = r
    BY <2>1 DEF Able
  <2>2. CASE s # r
    <3>1. applying'[s] = applying[s]
      BY <2>2, <1>2
    <3>2. AsksToMake(s)' => AsksToMake(s)
      BY <2>2, <1>1, <1>3 DEF AsksToMake, Makes
    <3> QED
      BY <1>8, <3>1, <3>2 DEF Able, Ready
  <2> QED
    BY <2>1, <2>2
<1> QED
  BY <1>6, <1>7, <1>8 DEF Orderly

\* A handler gives up, ends or stops waiting.
LEMMA EndOrderly ==
  ASSUME Typed, AskedOnce, IdsKnown, UNCHANGED <<made, queue>>,
         NEW r \in Requests, applying[r] # NotApplied, \A s \in Requests \ {r} : applying'[s] = applying[s],
         applying'[r].id = applying[r].id, applying'[r].made = applying[r].made,
         \/ applying'[r].at = "done" /\ applying'[r].answer \in {applying[r].answer, "no"}
         \/ applying'[r].at = applying[r].at /\ applying'[r].answer = "no"
  PROVE  Orderly
<1>1. \A n \in 1 .. Len(queue) : queue[n].request \in Requests
  BY QuestionsTyped
<1>2. AskedOnce'
  BY <1>1 DEF AskedOnce, Makes
<1>3. RequestKnows(applying[r])
  BY DEF IdsKnown
<1>4. RequestKnows(applying[r])'
  BY <1>3 DEF RequestKnows
<1>5. ASSUME NEW s \in Requests, applying'[s] # NotApplied
      PROVE  RequestKnows(applying[s])'
  <2>1. CASE s # r
    BY <2>1, <1>5 DEF IdsKnown, RequestKnows
  <2> QED
    BY <2>1, <1>4
<1>6. IdsKnown'
  BY <1>5 DEF IdsKnown
<1>7. \A s \in Requests : Able(s)' => Able(s)
  BY DEF Able, Ready, AsksToMake, Makes
<1> QED
  BY <1>2, <1>6, <1>7 DEF Orderly

\* What an answer changes: of the request that waits for it, and no other.
LEMMA ReplyChanges ==
  ASSUME Typed, NEW q, NEW answer \in Answers, NEW path \in Paths \cup {"none"}, NEW id \in Nat,
         Reply(q, answer, path, id), q.request \in Requests, q.op \in Stages
  PROVE  \/ applying' = applying
         \/ /\ applying[q.request].at = q.op /\ applying'[q.request].at = q.op
            /\ applying[q.request] \in Asked /\ applying'[q.request].id = applying[q.request].id
            /\ applying'[q.request].answer = answer /\ applying'[q.request].made = id
            /\ \A s \in Requests \ {q.request} : applying'[s] = applying[s]
<1> DEFINE r == q.request
           one == [applying[r] EXCEPT !.answer = answer]
           two == [one EXCEPT !.path = path]
           three == [two EXCEPT !.made = id]
<1>1. CASE applying[r].at = q.op /\ applying[r].answer = "waiting" /\ applying[r] \in Asked
  <2>1. one \in Asked /\ one.at = q.op /\ one.id = applying[r].id /\ one.answer = answer
    BY <1>1 DEF Asked
  <2> HIDE DEF one
  <2>2. two \in Asked /\ two.at = q.op /\ two.id = applying[r].id /\ two.answer = answer
    BY <2>1 DEF Asked
  <2> HIDE DEF two
  <2>3. three \in Asked /\ three.at = q.op /\ three.id = applying[r].id /\ three.answer = answer
        /\ three.made = id
    BY <2>2 DEF Asked
  <2>4. applying' = [applying EXCEPT ![r] = three]
    BY <1>1 DEF Reply, one, two, three
  <2> HIDE DEF three
  <2>5. applying'[r] = three /\ \A s \in Requests \ {r} : applying'[s] = applying[s]
    BY <2>4 DEF Typed
  <2> QED
    BY <1>1, <2>3, <2>5
<1>2. CASE ~(applying[r].at = q.op /\ applying[r].answer = "waiting")
  BY <1>2 DEF Reply
<1>3. CASE applying[r] \notin Asked
  <2>1. applying[r] = NotApplied
    BY <1>3 DEF Typed
  <2> QED
    BY <2>1, <1>2 DEF NotApplied, Stages
<1> QED
  BY <1>1, <1>2, <1>3

\* The agent takes a question, and its answer finds whoever waits for it: a request whose
\* question to make a container has been answered has not another, and is able again only if
\* there was nothing to rebuild.
LEMMA AnswerOrderly ==
  ASSUME Typed, AskedOnce, IdsKnown, made' \in Nat, made <= made',
         NEW op \in Stages, Takes(op), queue' = Tail(queue),
         NEW answer \in Answers, NEW path \in Paths \cup {"none"}, NEW id \in 0 .. made',
         Reply(Head(queue), answer, path, id),
         op \in {"rebuild", "create"} /\ answer = "ok" => id \in 1 .. made'
  PROVE  /\ Orderly
         /\ op \in {"rebuild", "create"} =>
              \E r \in Requests : Able(r) /\ (answer # "missing" => ~Able(r)')
<1> PICK q : q = Head(queue)
  OBVIOUS
<1> PICK r : r = q.request
  OBVIOUS
<1>1. /\ queue \in Seq(AnyQuestion) /\ Len(queue) \in Nat /\ 1 \in 1 .. Len(queue) /\ q = queue[1] /\ q.op = op
      /\ Len(queue') = Len(queue) - 1
      /\ \A n \in 1 .. Len(queue') : queue'[n] = queue[n + 1] /\ n + 1 \in 1 .. Len(queue)
  BY DEF Typed, Takes
<1>2. r \in Requests /\ q.op \in Stages /\ made \in Nat
  BY <1>1, QuestionsTyped DEF Typed
<1>3. id \in Nat
  OBVIOUS
<1>4. Reply(q, answer, path, id)
  OBVIOUS
<1>5. \/ applying' = applying
      \/ /\ applying[r].at = op /\ applying'[r].at = op
         /\ applying[r] \in Asked /\ applying'[r].id = applying[r].id
         /\ applying'[r].answer = answer /\ applying'[r].made = id
         /\ \A s \in Requests \ {r} : applying'[s] = applying[s]
  BY <1>1, <1>2, <1>3, <1>4, ReplyChanges
<1>6. \A n \in 1 .. Len(queue) : queue[n].request \in Requests
  BY QuestionsTyped
\* None of the questions left to make a container is of the request that is answered.
<1>7. ASSUME NEW n \in 1 .. Len(queue'), Makes(queue'[n])
      PROVE  /\ queue'[n].request \in Requests
             /\ Makes(q) => queue'[n].request # r
             /\ applying'[queue'[n].request] = applying[queue'[n].request]
  <2>1. queue'[n] = queue[n + 1] /\ n + 1 \in 1 .. Len(queue) /\ n + 1 # 1 /\ Makes(queue[n + 1])
    BY <1>1, <1>7 DEF Makes
  <2>2. Makes(q) => queue[n + 1].request # r
    BY <1>1, <2>1 DEF AskedOnce
  <2>3. queue[n + 1].request = r => applying[r].at \in {"rebuild", "create", "done"}
    BY <2>1 DEF AskedOnce
  <2>4. queue[n + 1].request = r => applying' = applying
    BY <1>1, <1>2, <1>5, <2>2, <2>3 DEF Makes, Stages
  <2> QED
    BY <1>5, <1>6, <2>1, <2>2, <2>4
<1>8. AskedOnce'
  <2> SUFFICES ASSUME NEW n \in 1 .. Len(queue'), Makes(queue'[n])
               PROVE  /\ \A m \in 1 .. Len(queue') :
                           Makes(queue'[m]) /\ queue'[m].request = queue'[n].request => m = n
                      /\ applying'[queue'[n].request].at \in {"rebuild", "create", "done"}
                      /\ applying'[queue'[n].request].answer \in {"waiting", "no"}
    BY DEF AskedOnce, Makes
  <2>1. queue'[n] = queue[n + 1] /\ n + 1 \in 1 .. Len(queue) /\ Makes(queue[n + 1])
    BY <1>1 DEF Makes
  <2>2. ASSUME NEW m \in 1 .. Len(queue'), Makes(queue'[m]), queue'[m].request = queue'[n].request
        PROVE  m = n
    <3>1. queue'[m] = queue[m + 1] /\ m + 1 \in 1 .. Len(queue) /\ Makes(queue[m + 1])
      BY <1>1, <2>2 DEF Makes
    <3>2. m + 1 = n + 1
      BY <2>1, <2>2, <3>1 DEF AskedOnce
    <3> QED
      BY <3>2, <1>1
  <2>3. /\ applying[queue[n + 1].request].at \in {"rebuild", "create", "done"}
        /\ applying[queue[n + 1].request].answer \in {"waiting", "no"}
    BY <2>1 DEF AskedOnce
  <2>4. applying'[queue'[n].request] = applying[queue[n + 1].request]
    BY <2>1, <1>7
  <2> QED
    BY <2>2, <2>3, <2>4
<1>9. IdsKnown'
  <2>1. ASSUME NEW s \in Requests, applying'[s] # NotApplied
        PROVE  RequestKnows(applying[s])'
    <3>1. CASE applying'[s] = applying[s]
      <4>1. RequestKnows(applying[s])
        BY <2>1, <3>1 DEF IdsKnown
      <4> QED
        BY <3>1, <4>1, <1>2 DEF RequestKnows
    <3>2. CASE applying'[s] # applying[s]
      <4>1. /\ s = r /\ applying'[r].id = applying[r].id /\ applying'[r].answer = answer
            /\ applying'[r].made = id /\ applying'[r].at = op /\ applying[r] \in Asked
        BY <1>5, <3>2
      <4>2. RequestKnows(applying[r])
        BY <4>1, <1>2, Sorts DEF IdsKnown
      <4> QED
        BY <4>1, <4>2, <1>2 DEF RequestKnows
    <3> QED
      BY <3>1, <3>2
  <2>2. \A n \in 1 .. Len(queue') : queue'[n].id \in 1 .. made'
    <3> SUFFICES ASSUME NEW n \in 1 .. Len(queue') PROVE queue'[n].id \in 1 .. made'
      OBVIOUS
    <3>1. queue'[n] = queue[n + 1] /\ queue[n + 1].id \in 1 .. made
      BY <1>1 DEF IdsKnown
    <3> QED
      BY <3>1, <1>2
  <2> QED
    BY <2>1, <2>2 DEF IdsKnown
<1>10. \A s \in Requests : AsksToMake(s)' => AsksToMake(s) /\ applying'[s] = applying[s]
  <2> SUFFICES ASSUME NEW s \in Requests, NEW n \in 1 .. Len(queue'), Makes(queue'[n]), queue'[n].request = s
               PROVE  AsksToMake(s) /\ applying'[s] = applying[s]
    BY DEF AsksToMake, Makes
  <2>1. queue'[n] = queue[n + 1] /\ n + 1 \in 1 .. Len(queue)
    BY <1>1
  <2> QED
    BY <2>1, <1>7 DEF AsksToMake, Makes
<1>11. Makes(q) => AsksToMake(r)
  BY <1>1 DEF AsksToMake
<1>12. ASSUME NEW s \in Requests, Able(s)'
       PROVE  Able(s)
  <2>1. CASE applying'[s] = applying[s]
    BY <1>10, <1>12, <2>1 DEF Able, Ready
  <2>2. CASE applying'[s] # applying[s]
    <3>1. s = r /\ applying[r].at = op
      BY <1>5, <2>2
    <3> QED
      BY <3>1, <1>1, <1>11 DEF Able, Ready, Makes, Stages
  <2> QED
    BY <2>1, <2>2
<1>13. ASSUME op \in {"rebuild", "create"}, answer # "missing"
       PROVE  ~Able(r)'
  <2>1. Makes(q) /\ applying[r].at \in {"rebuild", "create", "done"} /\ applying[r].answer \in {"waiting", "no"}
    BY <1>1, <1>13 DEF AskedOnce, Makes
  <2>2. ~Ready(r)'
    BY <1>5, <1>13, <2>1 DEF Ready
  <2>3. ~AsksToMake(r)'
    <3> SUFFICES ASSUME NEW n \in 1 .. Len(queue'), Makes(queue'[n]), queue'[n].request = r
                 PROVE  FALSE
      BY DEF AsksToMake, Makes
    <3> QED
      BY <2>1, <1>7
  <2> QED
    BY <2>2, <2>3 DEF Able
<1> QED
  BY <1>1, <1>2, <1>8, <1>9, <1>11, <1>12, <1>13 DEF Orderly, Able, Makes

\* No more containers are made than there are requests that become unable to.
LEMMA CountKept ==
  ASSUME Counted, made \in Nat, \A r \in Requests : Able(r)' => Able(r),
         made' = made \/ (made' = made + 1 /\ \E r \in Requests : Able(r) /\ ~Able(r)')
  PROVE  Counted'
<1> PICK S : S = Spent
  OBVIOUS
<1> PICK T : T = Spent'
  OBVIOUS
<1>1. IsFiniteSet(T) /\ IsFiniteSet(S) /\ Cardinality(T) \in Nat /\ Cardinality(S) \in Nat
  BY MovesAssumption, FS_Subset, FS_CardinalityType DEF Spent
<1>2. S \subseteq T
  BY DEF Spent
<1>3. made <= 1 + Cardinality(S)
  BY DEF Counted
<1>4. CASE made' = made
  <2>1. Cardinality(S) <= Cardinality(T)
    BY <1>1, <1>2, FS_Subset
  <2> QED
    BY <1>1, <1>3, <1>4, <2>1 DEF Counted
<1>5. ASSUME made' = made + 1, NEW r \in Requests, Able(r), ~Able(r)'
      PROVE  Counted'
  <2>1. r \notin S /\ S \cup {r} \subseteq T
    BY <1>2, <1>5 DEF Spent
  <2>2. Cardinality(S \cup {r}) = Cardinality(S) + 1
    BY <1>1, <2>1, FS_AddElement
  <2>3. Cardinality(S \cup {r}) <= Cardinality(T)
    BY <1>1, <2>1, FS_Subset
  <2> QED
    BY <1>1, <1>3, <1>5, <2>2, <2>3 DEF Counted
<1> QED
  BY <1>4, <1>5

\* The steps of a handler: it asks only while no question of its own to make a container is
\* unanswered.
LEMMA HandlerNumbered ==
  ASSUME Inv, Numbered, NEW r \in Requests, RequestStep(r)
  PROVE  Numbered'
<1>1. Typed /\ Named /\ AskedOnce /\ IdsKnown /\ HostKnown /\ Histories /\ Counted
  BY DEF Inv, Numbered
<1>2. UNCHANGED <<moving, dataAt, container, made, raced, patches>> /\ made \in Nat
  BY <1>1 DEF RequestStep, Apply, Move, MoveFailed, Rebuild, Recover, CheckOld, Create, NotRebuilt,
         FinishApply, Timeout, moveHostVars, rowVars, Typed
<1>3. ASSUME NEW op \in Stages, NEW req \in Asked, AskAs(r, req, op), Ready(r), req.id \in 1 .. made,
             op = "checkOld" => req.old \in Paths
      PROVE  Orderly
  BY <1>1, <1>2, <1>3, AskOrderly
<1>4. ASSUME applying[r].at \in Stages
      PROVE  applying[r] \in Asked /\ applying[r] # NotApplied /\ RequestKnows(applying[r])
  <2>1. applying[r] \in Asked
    BY <1>1, <1>4 DEF Typed, NotApplied, Stages
  <2> QED
    BY <2>1, <1>1, Sorts DEF IdsKnown
<1>5. ASSUME Orderly, row'.container \in 1 .. made, marks' \subseteq {"late", "litter", "unapplied", "forgot", "overlap"}
      PROVE  Numbered'
  <2>1. HostKnown' /\ Histories'
    BY <1>1, <1>2, <1>5 DEF HostKnown, Histories, Exists
  <2>2. Counted'
    BY <1>1, <1>2, <1>5, CountKept DEF Orderly
  <2> QED
    BY <1>5, <2>1, <2>2 DEF Orderly, Numbered
<1>6. row.container \in 1 .. made /\ marks \subseteq {"late", "litter", "unapplied", "forgot", "overlap"}
  BY <1>1 DEF HostKnown, Histories
<1>7. CASE Apply(r)
  <2> DEFINE req == [at |-> "done", old |-> pending, to |-> Effective, id |-> row.container,
                     answer |-> "no", path |-> "none", made |-> 0]
             op == IF pending \notin {"none", Effective} THEN "ask" ELSE "rebuild"
  <2>1. req \in Asked /\ req.id = row.container /\ op \in Stages \ {"checkOld"}
    BY <1>1, PathsTyped DEF Typed, Asked, Stages, Answers
  <2>2. AskAs(r, req, op) /\ Ready(r)
    BY <1>7 DEF Apply, Ready, NotApplied
  <2> HIDE DEF req, op
  <2>3. Orderly
    BY <1>3, <1>6, <2>1, <2>2
  <2>4. row' = [row EXCEPT !.status = "restarting"]
    BY <1>7 DEF Apply
  <2>5. row'.container = row.container
    BY <2>4, <1>1 DEF Typed
  <2> QED
    BY <1>5, <1>6, <1>7, <2>3, <2>5 DEF Apply
<1>8. CASE Move(r)
  <2>1. applying[r] \in Asked /\ applying[r].at = "ask" /\ RequestKnows(applying[r])
        /\ (applying[r].answer = "ok" => applying[r].path \in Paths)
    BY <1>1, <1>4, <1>8 DEF Move, Stands, Named, Stages
  <2> DEFINE req == IF applying[r].answer = "ok" THEN [applying[r] EXCEPT !.old = applying[r].path]
                    ELSE applying[r]
  <2>2. req \in Asked /\ req.id = applying[r].id
    BY <2>1 DEF Asked
  <2>3. AskAs(r, req, "move") /\ Ready(r)
    BY <1>8, <2>1 DEF Move, Ready
  <2> HIDE DEF req
  <2>4. Orderly
    BY <1>3, <2>1, <2>2, <2>3 DEF RequestKnows, Stages
  <2> QED
    BY <1>5, <1>6, <1>8, <2>4 DEF Move, rowVars
<1>9. CASE Rebuild(r) \/ Recover(r) \/ CheckOld(r)
  <2>1. applying[r] \in Asked /\ RequestKnows(applying[r]) /\ Ready(r)
    BY <1>4, <1>9 DEF Rebuild, Recover, CheckOld, Stands, Stages, Ready
  <2>2. PICK op \in {"rebuild", "check", "checkOld"} :
          AskAs(r, applying[r], op) /\ (op = "checkOld" => applying[r].old # "none")
    BY <1>9 DEF Rebuild, Recover, CheckOld
  <2>3. op \in Stages /\ (op = "checkOld" => applying[r].old \in Paths)
    BY <2>1, <2>2 DEF Stages, Asked
  <2>4. Orderly
    BY <1>3, <2>1, <2>2, <2>3 DEF RequestKnows
  <2> QED
    BY <1>5, <1>6, <1>9, <2>4 DEF Rebuild, Recover, CheckOld, rowVars
<1>10. CASE Create(r)
  <2>1. applying[r] \in Asked /\ RequestKnows(applying[r]) /\ Ready(r)
    BY <1>4, <1>10 DEF Create, Stands, Stages, Ready
  <2>2. CASE AskAs(r, applying[r], "create") /\ UNCHANGED row
    <3>1. Orderly
      BY <1>3, <2>1, <2>2 DEF RequestKnows, Stages
    <3> QED
      BY <1>5, <1>6, <1>10, <2>2, <3>1 DEF Create
  <2>3. CASE /\ Stands(r, "checkOld", {"ok"})
             /\ AskAs(r, [applying[r] EXCEPT !.to = applying[r].old], "create")
             /\ row' = [row EXCEPT !.path = applying[r].old]
    <3>1. applying[r].old \in Paths
      BY <1>1, <2>3 DEF Stands, Named
    <3> DEFINE req == [applying[r] EXCEPT !.to = applying[r].old]
    <3>2. req \in Asked /\ req.id = applying[r].id
      BY <2>1, <3>1 DEF Asked
    <3>3. AskAs(r, req, "create")
      BY <2>3
    <3> HIDE DEF req
    <3>4. Orderly
      BY <1>3, <2>1, <3>2, <3>3 DEF RequestKnows, Stages
    <3>5. row'.container = row.container
      BY <2>3, <1>1 DEF Typed
    <3> QED
      BY <1>5, <1>6, <1>10, <3>4, <3>5 DEF Create
  <2> QED
    BY <1>10, <2>2, <2>3 DEF Create
<1>11. ASSUME applying[r].at \in Stages, UNCHANGED queue, NEW done, applying' = [applying EXCEPT ![r] = done],
              done.id = applying[r].id, done.made = applying[r].made,
              \/ done.at = "done" /\ done.answer \in {applying[r].answer, "no"}
              \/ done.at = applying[r].at /\ done.answer = "no"
       PROVE  Orderly
  <2>1. applying'[r] = done /\ \A s \in Requests \ {r} : applying'[s] = applying[s]
    BY <1>1, <1>11 DEF Typed
  <2> QED
    BY <1>1, <1>2, <1>4, <1>11, <2>1, EndOrderly
<1>12. CASE MoveFailed(r) \/ NotRebuilt(r)
  <2>1. applying[r] \in Asked /\ applying[r].at \in Stages
    BY <1>4, <1>12 DEF MoveFailed, NotRebuilt, Stands, Stages
  <2> DEFINE one == [applying[r] EXCEPT !.at = "done"]
             two == [one EXCEPT !.answer = "no"]
  <2>2. one \in Asked /\ one.at = "done" /\ one.id = applying[r].id /\ one.made = applying[r].made
    BY <2>1 DEF Asked
  <2> HIDE DEF one
  <2>3. two.at = "done" /\ two.id = applying[r].id /\ two.made = applying[r].made /\ two.answer = "no"
    BY <2>2 DEF Asked
  <2>4. applying' = [applying EXCEPT ![r] = two] /\ UNCHANGED <<queue, marks>>
        /\ row' = [row EXCEPT !.status = "failed"]
    BY <1>12 DEF MoveFailed, NotRebuilt, Fail, one, two
  <2> HIDE DEF two
  <2>5. Orderly
    BY <1>11, <2>1, <2>3, <2>4
  <2>6. row'.container = row.container
    BY <2>4, <1>1 DEF Typed
  <2> QED
    BY <1>5, <1>6, <2>4, <2>5, <2>6
<1>13. CASE FinishApply(r)
  <2>1. applying[r] \in Asked /\ applying[r].at \in Stages /\ RequestKnows(applying[r])
        /\ applying[r].at \in {"rebuild", "create"} /\ applying[r].answer = "ok"
    BY <1>4, <1>13 DEF FinishApply, Stands, Stages
  <2> DEFINE done == [applying[r] EXCEPT !.at = "done"]
  <2>2. done.at = "done" /\ done.id = applying[r].id /\ done.made = applying[r].made
        /\ done.answer = applying[r].answer
    BY <2>1 DEF Asked
  <2>3. applying' = [applying EXCEPT ![r] = done] /\ UNCHANGED queue
    BY <1>13 DEF FinishApply
  <2> HIDE DEF done
  <2>4. Orderly
    BY <1>11, <2>1, <2>2, <2>3
  <2>5. row'.container = applying[r].made
    BY <1>1, <1>13 DEF FinishApply, Typed
  <2>6. marks' \subseteq {"late", "litter", "unapplied", "forgot", "overlap"}
    BY <1>6, <1>13 DEF FinishApply, Forgot
  <2> QED
    BY <1>5, <2>1, <2>4, <2>5, <2>6 DEF RequestKnows
<1>14. CASE Timeout(r)
  <2>1. applying[r] \in Asked /\ applying[r].at \in Stages
    BY <1>4, <1>14 DEF Timeout
  <2> DEFINE done == [applying[r] EXCEPT !.answer = "no"]
  <2>2. done.at = applying[r].at /\ done.id = applying[r].id /\ done.made = applying[r].made
        /\ done.answer = "no"
    BY <2>1 DEF Asked
  <2>3. applying' = [applying EXCEPT ![r] = done] /\ UNCHANGED <<queue, row>> /\ marks' = marks \cup {"late"}
    BY <1>14 DEF Timeout, rowVars
  <2> HIDE DEF done
  <2>4. Orderly
    BY <1>11, <2>1, <2>2, <2>3
  <2> QED
    BY <1>5, <1>6, <2>3, <2>4
<1> QED
  BY <1>7, <1>8, <1>9, <1>10, <1>12, <1>13, <1>14 DEF RequestStep

\* The agent makes a container for a request that is able to make one, and then is not.
LEMMA AgentNumbered ==
  ASSUME Inv, Numbered, AgentStep
  PROVE  Numbered'
<1>1. Typed /\ AskedOnce /\ IdsKnown /\ HostKnown /\ Histories /\ Counted
  BY DEF Inv, Numbered
<1>2. UNCHANGED <<row, patches>> /\ made \in Nat
  BY <1>1 DEF Leavings, Litters, AgentStep, HandleGetDataPath, HandleCheckData, MoveBegins, MoveEnds, MoveFails, AgentDies, EndMove,
         HandleRebuild, HandleCreate, rowVars, Typed
<1>3. raced' \in BOOLEAN /\ marks' \subseteq {"late", "litter", "unapplied", "forgot", "overlap"}
  BY <1>1 DEF Leavings, Litters, AgentStep, HandleGetDataPath, HandleCheckData, MoveBegins, MoveEnds, MoveFails, AgentDies, EndMove,
         HandleRebuild, HandleCreate, Saved, moveHostVars, Histories
<1>4. ASSUME Orderly, container' = container \/ ~Exists' \/ (Exists /\ container'.id = container.id), UNCHANGED made
      PROVE  Numbered'
  <2>1. HostKnown' /\ Histories'
    BY <1>1, <1>2, <1>3, <1>4 DEF HostKnown, Histories, Exists
  <2>2. Counted'
    BY <1>1, <1>2, <1>4, CountKept DEF Orderly
  <2> QED
    BY <1>4, <2>1, <2>2 DEF Orderly, Numbered
<1>5. ASSUME NEW op \in Stages, Takes(op), queue' = Tail(queue), UNCHANGED made, NEW answer \in {"ok", "no", "missing"},
             NEW path \in Paths \cup {"none"}, Reply(Head(queue), answer, path, 0),
             op \in {"rebuild", "create"} => answer # "ok"
      PROVE  Orderly
  <2>1. made' \in Nat /\ made <= made' /\ 0 \in 0 .. made' /\ answer \in Answers
    BY <1>2, <1>5 DEF Answers
  <2> QED
    BY <1>1, <1>5, <2>1, AnswerOrderly
<1>6. ASSUME NEW op \in {"rebuild", "create"}, Takes(op), queue' = Tail(queue), made' = made + 1,
             Reply(Head(queue), "ok", "none", made + 1), NEW p, container' = New(p)
      PROVE  Numbered'
  <2>1. made' \in Nat /\ made <= made' /\ made + 1 \in 0 .. made' /\ made + 1 \in 1 .. made' /\ op \in Stages
        /\ "ok" \in Answers
    BY <1>2, <1>6 DEF Answers, Stages
  <2>2. Orderly /\ \E r \in Requests : Able(r) /\ ~Able(r)'
    BY <1>1, <1>6, <2>1, AnswerOrderly
  <2>3. Counted'
    BY <1>1, <1>2, <1>6, <2>2, CountKept DEF Orderly
  <2>4. HostKnown' /\ Histories'
    BY <1>1, <1>2, <1>3, <1>6 DEF HostKnown, Histories, Exists, New
  <2> QED
    BY <2>2, <2>3, <2>4 DEF Orderly, Numbered
<1>7. CASE HandleGetDataPath
  <2>1. Exists => container.path \in Paths
    BY <1>1 DEF Typed, Exists
  <2>2. Takes("ask") /\ queue' = Tail(queue) /\ UNCHANGED <<container, made>>
        /\ \/ Exists /\ Reply(Head(queue), "ok", container.path, 0)
           \/ Reply(Head(queue), "no", "none", 0)
    BY <1>7 DEF HandleGetDataPath, moveHostVars
  <2>3. CASE Reply(Head(queue), "no", "none", 0)
    BY <1>4, <1>5, <2>2, <2>3 DEF Stages
  <2>4. CASE Exists /\ Reply(Head(queue), "ok", container.path, 0)
    <3> PICK path \in Paths : path = container.path
      BY <2>1, <2>4
    <3>1. Reply(Head(queue), "ok", path, 0)
      BY <2>4
    <3> QED
      BY <1>4, <1>5, <2>2, <3>1 DEF Stages
  <2> QED
    BY <2>2, <2>3, <2>4
<1>8. CASE HandleCheckData
  <2>1. PICK op \in {"check", "checkOld"} : Takes(op)
    BY <1>8 DEF HandleCheckData
  <2>2. PICK answer \in {"ok", "missing"} : Reply(Head(queue), answer, "none", 0)
    BY <1>8 DEF HandleCheckData
  <2>3. queue' = Tail(queue) /\ UNCHANGED <<container, made>>
    BY <1>8 DEF HandleCheckData, moveHostVars
  <2>4. Orderly
    BY <1>5, <2>1, <2>2, <2>3 DEF Stages
  <2> QED
    BY <1>4, <2>3, <2>4
<1>9. CASE MoveBegins
  <2>1. Takes("move") /\ queue' = Tail(queue) /\ UNCHANGED <<container, made>>
        /\ (UNCHANGED applying \/ Reply(Head(queue), "no", "none", 0))
    BY <1>9 DEF MoveBegins
  <2>2. CASE Reply(Head(queue), "no", "none", 0)
    BY <1>4, <1>5, <2>1, <2>2 DEF Stages
  <2>3. CASE UNCHANGED applying
    <3>1. /\ Len(queue) \in Nat /\ Len(queue') = Len(queue) - 1
          /\ \A n \in 1 .. Len(queue') : queue'[n] = queue[n + 1] /\ n + 1 \in 1 .. Len(queue)
      BY <1>1, <2>1 DEF Typed, Takes
    <3>2. AskedOnce'
      <4> SUFFICES ASSUME NEW n \in 1 .. Len(queue'), Makes(queue'[n])
                   PROVE  /\ \A m \in 1 .. Len(queue') :
                               Makes(queue'[m]) /\ queue'[m].request = queue'[n].request => m = n
                          /\ applying'[queue'[n].request].at \in {"rebuild", "create", "done"}
                          /\ applying'[queue'[n].request].answer \in {"waiting", "no"}
        BY DEF AskedOnce, Makes
      <4>1. queue'[n] = queue[n + 1] /\ n + 1 \in 1 .. Len(queue) /\ Makes(queue[n + 1])
        BY <3>1 DEF Makes
      <4>2. ASSUME NEW m \in 1 .. Len(queue'), Makes(queue'[m]), queue'[m].request = queue'[n].request
            PROVE  m = n
        <5>1. queue'[m] = queue[m + 1] /\ m + 1 \in 1 .. Len(queue) /\ Makes(queue[m + 1])
          BY <3>1, <4>2 DEF Makes
        <5>2. m + 1 = n + 1
          BY <1>1, <4>1, <4>2, <5>1 DEF AskedOnce
        <5> QED
          BY <3>1, <5>2
      <4> QED
        BY <1>1, <2>3, <4>1, <4>2 DEF AskedOnce
    <3>3. IdsKnown'
      BY <1>1, <2>1, <2>3, <3>1 DEF IdsKnown, RequestKnows
    <3>4. \A s \in Requests : Able(s)' => Able(s)
      BY <2>3, <3>1 DEF Able, Ready, AsksToMake, Makes
    <3> QED
      BY <1>4, <2>1, <3>2, <3>3, <3>4 DEF Orderly
  <2> QED
    BY <2>1, <2>2, <2>3
<1>10. ASSUME NEW answer \in {"ok", "no"}, EndMove(answer), moving # Still
       PROVE  Numbered'
  <2> PICK q : q = [op |-> "move", request |-> moving.request]
    OBVIOUS
  <2>1. q.op = "move" /\ q.request \in Requests /\ "move" \in Stages
    BY <1>1, <1>10 DEF Typed, Stages
  <2>2. Reply(q, answer, "none", 0) /\ UNCHANGED <<queue, container, made>>
    BY <1>10 DEF EndMove
  <2>3. answer \in Answers /\ 0 \in Nat
    BY DEF Answers
  <2> PICK r \in Requests : r = q.request
    BY <2>1
  <2>4. \/ applying' = applying
        \/ /\ applying[r].at = "move" /\ applying'[r].at = "move"
           /\ applying[r] \in Asked /\ applying'[r].id = applying[r].id
           /\ applying'[r].answer = answer /\ applying'[r].made = 0
           /\ \A s \in Requests \ {r} : applying'[s] = applying[s]
    BY <1>1, <2>1, <2>2, <2>3, ReplyChanges
  <2>5. \A n \in 1 .. Len(queue) : queue[n].request \in Requests
    BY <1>1, QuestionsTyped
  <2>6. AskedOnce'
    BY <1>1, <2>2, <2>4, <2>5 DEF AskedOnce, Makes
  <2>7. ASSUME NEW s \in Requests, applying'[s] # NotApplied
        PROVE  RequestKnows(applying[s])'
    <3>1. CASE applying'[s] = applying[s]
      BY <1>1, <2>2, <2>7, <3>1 DEF IdsKnown, RequestKnows
    <3>2. CASE applying'[s] # applying[s]
      <4>1. s = r /\ applying'[r].id = applying[r].id /\ applying'[r].made = 0 /\ applying'[r].at = "move"
            /\ applying[r] \in Asked
        BY <2>4, <3>2
      <4>2. RequestKnows(applying[r])
        BY <1>1, <4>1, Sorts DEF IdsKnown
      <4> QED
        BY <1>2, <2>2, <4>1, <4>2 DEF RequestKnows
    <3> QED
      BY <3>1, <3>2
  <2>8. IdsKnown'
    BY <1>1, <2>2, <2>7 DEF IdsKnown
  <2>9. \A s \in Requests : Able(s)' => Able(s)
    BY <2>2, <2>4 DEF Able, Ready, AsksToMake, Makes
  <2> QED
    BY <1>4, <2>2, <2>6, <2>8, <2>9 DEF Orderly
<1>11. CASE AgentDies
  <2>1. UNCHANGED <<applying, container, made>> /\ Len(queue') = 0
    BY <1>11 DEF AgentDies
  <2>2. AskedOnce' /\ IdsKnown' /\ \A s \in Requests : Able(s)' => Able(s)
    BY <1>1, <2>1 DEF AskedOnce, IdsKnown, RequestKnows, Able, Ready, AsksToMake
  <2> QED
    BY <1>4, <2>1, <2>2 DEF Orderly
<1>12. CASE HandleRebuild
  <2>1. Takes("rebuild") /\ queue' = Tail(queue)
        /\ \/ /\ Reply(Head(queue), "missing", "none", 0) \/ Reply(Head(queue), "no", "none", 0)
              /\ UNCHANGED made
              /\ container' = container \/ container' = NoContainer
                 \/ (Exists /\ container' = [container EXCEPT !.runs = FALSE])
           \/ Reply(Head(queue), "ok", "none", made + 1) /\ container' = New(Head(queue).to) /\ made' = made + 1
    BY <1>12 DEF HandleRebuild, moveHostVars
  <2>2. CASE Reply(Head(queue), "ok", "none", made + 1) /\ container' = New(Head(queue).to) /\ made' = made + 1
    <3> PICK p : p = Head(queue).to
      OBVIOUS
    <3> QED
      BY <1>6, <2>1, <2>2
  <2>3. CASE /\ Reply(Head(queue), "missing", "none", 0) \/ Reply(Head(queue), "no", "none", 0)
             /\ UNCHANGED made
             /\ container' = container \/ container' = NoContainer
                \/ (Exists /\ container' = [container EXCEPT !.runs = FALSE])
    <3>1. Orderly
      BY <1>5, <2>1, <2>3 DEF Stages
    <3>2. container' = container \/ ~Exists' \/ (Exists /\ container'.id = container.id)
      BY <1>1, <2>3 DEF Typed, Exists
    <3> QED
      BY <1>4, <2>3, <3>1, <3>2
  <2> QED
    BY <2>1, <2>2, <2>3
<1>13. CASE HandleCreate
  <2>1. Takes("create") /\ queue' = Tail(queue)
        /\ \/ Reply(Head(queue), "no", "none", 0) /\ UNCHANGED <<container, made>>
           \/ Reply(Head(queue), "ok", "none", made + 1) /\ container' = New(Head(queue).to) /\ made' = made + 1
    BY <1>13 DEF HandleCreate
  <2>2. CASE Reply(Head(queue), "ok", "none", made + 1) /\ container' = New(Head(queue).to) /\ made' = made + 1
    <3> PICK p : p = Head(queue).to
      OBVIOUS
    <3> QED
      BY <1>6, <2>1, <2>2
  <2>3. CASE Reply(Head(queue), "no", "none", 0) /\ UNCHANGED <<container, made>>
    BY <1>4, <1>5, <2>1, <2>3 DEF Stages
  <2> QED
    BY <2>1, <2>2, <2>3
<1> QED
  BY <1>7, <1>8, <1>9, <1>10, <1>11, <1>12, <1>13 DEF Leavings, Litters, AgentStep, MoveEnds, MoveFails

LEMMA StepNumbered ==
  ASSUME Inv, Numbered, [MovesNext]_movesVars
  PROVE  Numbered'
<1>1. Typed /\ AskedOnce /\ IdsKnown /\ HostKnown /\ Histories /\ Counted
  BY DEF Inv, Numbered
<1>2. ASSUME UNCHANGED <<applying, queue, made>>, row'.container = row.container,
             container' = container \/ (Exists /\ container'.id = container.id), Histories'
      PROVE  Numbered'
  <2>1. AskedOnce' /\ IdsKnown' /\ HostKnown'
    BY <1>1, <1>2 DEF AskedOnce, Makes, IdsKnown, RequestKnows, HostKnown, Exists
  <2>2. Counted'
    BY <1>1, <1>2 DEF Counted, Spent, Able, Ready, AsksToMake, Makes
  <2> QED
    BY <1>2, <2>1, <2>2 DEF Numbered
<1>3. CASE Save
  <2>1. Histories'
    BY <1>1, <1>3 DEF Save, Saved, Histories, rowVars
  <2> QED
    BY <1>2, <1>3, <2>1 DEF Save, rowVars
<1>4. CASE Toggle
  <2>1. Exists /\ container' = [container EXCEPT !.runs = ~@]
    BY <1>4 DEF Toggle
  <2>2. container'.id = container.id
    BY <1>1, <2>1 DEF Typed, Exists
  <2> QED
    BY <1>1, <1>2, <1>4, <2>1, <2>2 DEF Toggle, Histories, rowVars
<1>5. CASE Forget
  BY <1>1, <1>2, <1>5 DEF Forget, Histories, moveHostVars
<1>6. ASSUME NEW p \in Paths, SetAgentPath(p)
      PROVE  Numbered'
  <2>1. Histories'
    BY <1>1, <1>6, MovesAssumption DEF SetAgentPath, Histories, moveHostVars
  <2> QED
    BY <1>2, <1>6, <2>1 DEF SetAgentPath, moveHostVars
<1>7. ASSUME NEW p \in Paths \cup {"default"}, PatchConfig(p)
      PROVE  Numbered'
  <2>1. Histories'
    BY <1>1, <1>7, MovesAssumption DEF PatchConfig, Forgot, Histories, moveHostVars
  <2>2. row' = [row EXCEPT !.path = p]
    BY <1>7 DEF PatchConfig
  <2>3. row'.container = row.container
    BY <1>1, <2>2 DEF Typed
  <2> QED
    BY <1>2, <1>7, <2>1, <2>3 DEF PatchConfig, moveHostVars
<1>8. CASE UNCHANGED movesVars
  BY <1>1, <1>2, <1>8 DEF movesVars, Histories, rowVars, moveHostVars
<1> QED
  BY <1>3, <1>4, <1>5, <1>6, <1>7, <1>8, AgentNumbered, HandlerNumbered DEF MovesNext

LEMMA InitNumbered ==
  ASSUME MovesInit
  PROVE  Numbered
<1>1. AskedOnce
  BY DEF MovesInit, AskedOnce
<1>2. IdsKnown
  BY DEF MovesInit, IdsKnown
<1>3. HostKnown
  <2>1. made = 1 /\ row.container = 1 /\ container.id = 1
    BY DEF MovesInit
  <2> QED
    BY <2>1 DEF HostKnown
<1>4. Histories
  <2>1. patches = 0 /\ marks = {} /\ MaxPatches \in Nat
    BY MovesAssumption DEF MovesInit
  <2>2. raced \in BOOLEAN
    BY DEF MovesInit
  <2> QED
    BY <2>1, <2>2 DEF Histories
<1>5. Counted
  <2>1. IsFiniteSet(Spent)
    BY MovesAssumption, FS_Subset DEF Spent
  <2>2. Cardinality(Spent) \in Nat
    BY <2>1, FS_CardinalityType
  <2> QED
    BY <2>2 DEF MovesInit, Counted
<1> QED
  BY <1>1, <1>2, <1>3, <1>4, <1>5 DEF Numbered

LEMMA NumbersFit ==
  ASSUME Inv, Numbered
  PROVE  MovesTypeOK
<1>1. Typed /\ IdsKnown /\ HostKnown /\ Histories /\ Counted
  BY DEF Inv, Numbered
<1>2. MaxMade \in Nat /\ made <= MaxMade /\ made \in 1 .. MaxMade
  <2>1. /\ IsFiniteSet(Spent) /\ Cardinality(Spent) <= Cardinality(Requests)
        /\ Cardinality(Spent) \in Nat /\ Cardinality(Requests) \in Nat
    BY MovesAssumption, FS_Subset, FS_CardinalityType DEF Spent
  <2> QED
    BY <1>1, <2>1 DEF Counted, HostKnown, MaxMade
<1> HIDE DEF MaxMade
<1>3. row \in [path : Paths \cup {"default"}, container : 1 .. MaxMade, status : {"running", "restarting", "failed"}]
  BY <1>1, <1>2 DEF Typed, HostKnown
<1>4. applying \in [Requests -> {NotApplied} \cup
        [at : Stages \cup {"done"}, old : Paths \cup {"none"}, to : Paths, id : 1 .. MaxMade,
         answer : Answers, path : Paths \cup {"none"}, made : 0 .. MaxMade]]
  <2> SUFFICES ASSUME NEW r \in Requests, applying[r] # NotApplied
               PROVE  applying[r] \in [at : Stages \cup {"done"}, old : Paths \cup {"none"}, to : Paths,
                                       id : 1 .. MaxMade, answer : Answers, path : Paths \cup {"none"},
                                       made : 0 .. MaxMade]
    BY <1>1 DEF Typed
  <2>1. applying[r] \in Asked /\ applying[r].id \in 1 .. MaxMade /\ applying[r].made \in 0 .. MaxMade
    BY <1>1, <1>2 DEF Typed, IdsKnown, RequestKnows
  <2> QED
    BY <2>1 DEF Asked
<1>5. queue \in Seq(Question)
  <2>1. ASSUME NEW n \in 1 .. Len(queue)
        PROVE  queue[n] \in Question
    <3>1. queue[n] \in AnyQuestion /\ queue[n].id \in 1 .. made
      BY <1>1, QuestionsTyped DEF IdsKnown
    <3>2. queue[n].id \in 0 .. MaxMade
      BY <1>2, <3>1
    <3> QED
      BY <3>1, <3>2 DEF AnyQuestion, Question
  <2> QED
    BY <1>1, <2>1 DEF Typed
<1>6. container \in {NoContainer} \cup [id : 1 .. MaxMade, path : Paths, runs : BOOLEAN]
  BY <1>1, <1>2 DEF Typed, HostKnown, Exists
<1> QED
  BY <1>1, <1>2, <1>3, <1>4, <1>5, <1>6 DEF Typed, Histories, MovesTypeOK

\* The types of the moves, the number of containers among them: however requests overlap, time
\* out and recover, each makes one container at most, so that no more are ever made than there
\* are requests besides the one that the server had, and every id a row, a handler or a question
\* has is that of a container that was made.
THEOREM MovesTyped == MovesSpec => []MovesTypeOK
<1>1. MovesInit => Inv /\ Numbered
  BY InitWell, InitNumbered
<1>2. Inv /\ Numbered /\ [MovesNext]_movesVars => Inv' /\ Numbered'
  BY StepWell, StepNumbered
<1>3. Inv /\ Numbered => MovesTypeOK
  BY NumbersFit
<1> QED
  BY <1>1, <1>2, <1>3, PTL DEF MovesSpec

=============================================================================
