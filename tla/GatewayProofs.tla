---------------------------- MODULE GatewayProofs ----------------------------
(***************************************************************************)
(* Theorems about Gateway, for every number of requests, whatever they     *)
(* ask, every size of the pool and every limit of a list.                  *)
(***************************************************************************)
EXTENDS Gateway, FiniteSetTheorems, TLAPS

Places == {"idle", "committed", "done"} \cup Waiting \cup Holding

(* Every step but a restart: it moves one request. *)
Moves(r) == Arrive(r) \/ RefuseHeader(r) \/ Serve(r) \/ PoolTimeout(r) \/ Lose(r)

(* Leave, Answers and Returns keep the types. *)
LEMMA LeaveTypes ==
    ASSUME TypeOK, NEW r \in Requests, NEW answer \in Status, Leave(r, answer)
    PROVE  TypeOK'
BY DEF TypeOK, Leave, GiveBack, Waiting, Holding

LEMMA AnswersTypes ==
    ASSUME TypeOK, NEW r \in Requests, Answers(r)
    PROVE  TypeOK'
BY DEF TypeOK, Answers, GiveBack, Waiting, Holding, Status

LEMMA ReturnsTypes ==
    ASSUME TypeOK, NEW r \in Requests, NEW some \in SUBSET Requests, Returns(r, some)
    PROVE  TypeOK'
BY DEF TypeOK, Returns, Waiting, Holding

LEMMA MoveTypes ==
    ASSUME TypeOK, NEW r \in Requests, Moves(r)
    PROVE  TypeOK'
<1> USE DEF Status
<1>1. CASE Arrive(r)
  BY <1>1 DEF TypeOK, Arrive, Waiting, Holding
<1>2. CASE RefuseHeader(r) \/ RefuseKey(r)
  BY <1>2, LeaveTypes DEF RefuseHeader, RefuseKey
<1>3. CASE PoolTimeout(r) \/ Lose(r)
  BY <1>3, LeaveTypes DEF PoolTimeout, Lose
<1>4. CASE RefuseRole(r) \/ RefuseTenant(r) \/ RefuseWork(r) \/ FailChat(r)
  BY <1>4, LeaveTypes DEF RefuseRole, RefuseTenant, RefuseWork, FailChat
<1>5. CASE RunNotFound(r) \/ RefuseReport(r) \/ NoSuchTenant(r)
  BY <1>5, LeaveTypes DEF RunNotFound, RefuseReport, NoSuchTenant
<1>6. CASE Authenticate(r) \/ ReadKey(r)
  BY <1>6 DEF TypeOK, Authenticate, ReadKey, TakeConnection, Waiting, Holding
<1>7. CASE StartWork(r)
  BY <1>7 DEF TypeOK, StartWork, Waiting, Holding
<1>8. CASE CommitWork(r)
  BY <1>8 DEF TypeOK, CommitWork, GiveBack, Waiting, Holding
<1>9. CASE Administer(r) \/ Rotate(r)
  BY <1>9 DEF TypeOK, Administer, Rotate, GiveBack, Waiting, Holding
<1>10. CASE ListRuns(r)
  BY <1>10, ReturnsTypes DEF ListRuns
<1>11. CASE GetRun(r)
  <2>1. call[r].run \in Requests
    BY DEF TypeOK, Call
  <2> QED
    BY <1>11, <2>1, ReturnsTypes DEF GetRun
<1>12. CASE GetReport(r)
  <2>1. {q \in charged : call[q].tenant = call[r].about} \in SUBSET Requests
    BY DEF TypeOK
  <2> QED
    BY <1>12, <2>1, ReturnsTypes DEF GetReport
<1>13. CASE Respond(r)
  BY <1>13, AnswersTypes DEF Respond
<1> QED
  BY <1>1, <1>2, <1>3, <1>4, <1>5, <1>6, <1>7, <1>8, <1>9, <1>10, <1>11, <1>12, <1>13
     DEF Moves, Serve

LEMMA StepTypes ==
    ASSUME TypeOK, [Next]_vars
    PROVE  TypeOK'
<1>1. CASE Restart
  BY <1>1 DEF TypeOK, Restart, Status, Waiting, Holding
<1>2. CASE AllDone \/ UNCHANGED vars
  BY <1>2 DEF TypeOK, AllDone, vars
<1> QED
  BY <1>1, <1>2, MoveTypes DEF Next, Moves

LEMMA InitTypes == Init => TypeOK
<1> SUFFICES ASSUME Init PROVE TypeOK
  OBVIOUS
<1> QED
  BY GatewayAssumption DEF Init, TypeOK, Status, Waiting, Holding

(* Every variable of a served request keeps its type: a place, connections, *)
(* a status, and sets of requests for what it found.                       *)
THEOREM TypeCorrect == Spec => []TypeOK
<1>1. Init => TypeOK
  BY InitTypes
<1>2. TypeOK /\ [Next]_vars => TypeOK'
  BY StepTypes
<1> QED
  BY <1>1, <1>2, PTL DEF Spec

-----------------------------------------------------------------------------
(* The pool.                                                               *)

(* A request that moves to a place of Holding has its connection already,  *)
(* or takes one while the pool is not full; at any other place it has none. *)
LEMMA MovePool ==
    ASSUME TypeOK, PoolBalanced, NEW r \in Requests, Moves(r)
    PROVE  /\ \A q \in Requests \ {r} : pc'[q] = pc[q] /\ held'[q] = held[q]
           /\ held'[r] = IF pc'[r] \in Holding THEN 1 ELSE 0
           /\ held[r] = 0 /\ held'[r] = 1 => ~PoolFull
<1> DEFINE Goal ==
        /\ \A q \in Requests \ {r} : pc'[q] = pc[q] /\ held'[q] = held[q]
        /\ held'[r] = IF pc'[r] \in Holding THEN 1 ELSE 0
        /\ held[r] = 0 /\ held'[r] = 1 => ~PoolFull
<1> SUFFICES Goal
  OBVIOUS
<1>1. /\ held[r] = IF pc[r] \in Holding THEN 1 ELSE 0
      /\ pc \in [Requests -> Places] /\ held \in [Requests -> Nat]
  BY DEF PoolBalanced, TypeOK, Places
<1>2. CASE Respond(r) \/ \E answer \in Status : Leave(r, answer)
  <2>1. pc' = [pc EXCEPT ![r] = "done"] /\ held' = [held EXCEPT ![r] = 0]
    BY <1>2 DEF Respond, Answers, Leave, GiveBack
  <2> QED
    BY <1>1, <2>1 DEF Holding
<1>3. CASE Arrive(r)
  BY <1>1, <1>3 DEF Arrive, Holding
<1>4. CASE Administer(r) \/ Rotate(r) \/ CommitWork(r)
  BY <1>1, <1>4 DEF Administer, Rotate, CommitWork, GiveBack, Holding
<1>5. CASE Authenticate(r) \/ ReadKey(r)
  BY <1>1, <1>5 DEF Authenticate, ReadKey, TakeConnection, Holding
<1>6. CASE StartWork(r) \/ ListRuns(r) \/ GetRun(r) \/ GetReport(r)
  <2>1. \E p \in {"working", "read"} :
            pc[r] = "authenticated" /\ pc' = [pc EXCEPT ![r] = p] /\ held' = held
    BY <1>6 DEF StartWork, ListRuns, GetRun, GetReport, Returns, MayWork, Enters
  <2> QED
    BY <1>1, <2>1 DEF Holding
<1> QED
  BY <1>2, <1>3, <1>4, <1>5, <1>6
     DEF Moves, Serve, Status, RefuseHeader, PoolTimeout, Lose, RefuseKey, RefuseRole, RefuseTenant,
         RefuseWork, FailChat, RunNotFound, RefuseReport, NoSuchTenant

LEMMA MoveKeepsPool ==
    ASSUME TypeOK, PoolBalanced, NEW r \in Requests, Moves(r)
    PROVE  PoolBalanced'
<1>1. /\ \A q \in Requests \ {r} : pc'[q] = pc[q] /\ held'[q] = held[q]
      /\ held'[r] = IF pc'[r] \in Holding THEN 1 ELSE 0
      /\ held[r] = 0 /\ held'[r] = 1 => ~PoolFull
  BY MovePool
<1>2. held \in [Requests -> Nat]
  BY DEF TypeOK
<1>3. \A q \in Requests : held'[q] = IF pc'[q] \in Holding THEN 1 ELSE 0
  BY <1>1 DEF PoolBalanced
<1>4. /\ IsFiniteSet(Holders) /\ Cardinality(Holders) \in Nat
      /\ Capacity \in Nat /\ Cardinality(Holders) <= Capacity
  <2>1. Holders \subseteq Requests /\ IsFiniteSet(Requests)
    BY GatewayAssumption DEF Holders
  <2> QED
    BY <2>1, GatewayAssumption, FS_Subset, FS_CardinalityType DEF PoolBalanced
<1>5. CASE held[r] = 0 /\ held'[r] = 1
  <2>1. Holders' = Holders \cup {r} /\ r \notin Holders
    BY <1>1, <1>2, <1>5 DEF Holders
  <2>2. Cardinality(Holders \cup {r}) = Cardinality(Holders) + 1
    BY <1>4, <2>1, FS_AddElement
  <2>3. Cardinality(Holders) < Capacity
    BY <1>1, <1>4, <1>5 DEF PoolFull
  <2>4. Cardinality(Holders') <= Capacity
    BY <1>4, <2>1, <2>2, <2>3
  <2> QED
    BY <1>3, <2>4 DEF PoolBalanced
<1>6. CASE ~(held[r] = 0 /\ held'[r] = 1)
  <2>1. Holders' \subseteq Holders
    BY <1>1, <1>2, <1>3, <1>6 DEF Holders
  <2>2. Cardinality(Holders') <= Cardinality(Holders) /\ Cardinality(Holders') \in Nat
    BY <1>4, <2>1, FS_Subset, FS_CardinalityType
  <2>3. Cardinality(Holders') <= Capacity
    BY <1>4, <2>2
  <2> QED
    BY <1>3, <2>3 DEF PoolBalanced
<1> QED
  BY <1>5, <1>6

LEMMA StepKeepsPool ==
    ASSUME TypeOK, PoolBalanced, [Next]_vars
    PROVE  PoolBalanced'
<1>1. CASE Restart
  <2>1. /\ \A q \in Requests : held'[q] = 0
        /\ \A q \in Requests : pc'[q] \in {"idle", "done"}
    BY <1>1 DEF Restart
  <2>2. Holders' = {}
    BY <2>1 DEF Holders
  <2>3. Cardinality(Holders') <= Capacity
    BY <2>2, FS_EmptySet, GatewayAssumption
  <2> QED
    BY <2>1, <2>3 DEF PoolBalanced, Holding
<1>2. CASE AllDone \/ UNCHANGED vars
  <2>1. UNCHANGED <<pc, held>>
    BY <1>2 DEF AllDone, vars
  <2> QED
    BY <2>1 DEF PoolBalanced, Holders
<1> QED
  BY <1>1, <1>2, MoveKeepsPool DEF Next, Moves

LEMMA InitPool == Init => PoolBalanced
<1> SUFFICES ASSUME Init PROVE PoolBalanced
  OBVIOUS
<1>1. Holders = {}
  BY DEF Init, Holders
<1>2. Cardinality(Holders) <= Capacity
  BY <1>1, FS_EmptySet, GatewayAssumption
<1> QED
  BY <1>2 DEF Init, PoolBalanced, Holding

(* Whatever refuses, fails, is lost or restarts: a request has one pooled  *)
(* connection while it is past a statement and before its commit and none  *)
(* while it waits for one, and the pool is never overdrawn.                *)
THEOREM PoolStaysBalanced == Spec => []PoolBalanced
<1>1. Init => TypeOK /\ PoolBalanced
  BY InitTypes, InitPool
<1>2. TypeOK /\ PoolBalanced /\ [Next]_vars => TypeOK' /\ PoolBalanced'
  BY StepTypes, StepKeepsPool
<1> QED
  BY <1>1, <1>2, PTL DEF Spec
-----------------------------------------------------------------------------
(* The reads.                                                              *)

(* A request whose client was answered is over and its run committed; a    *)
(* later request comes with such requests behind it.                       *)
Past ==
    /\ \A q \in answered : pc[q] = "done" /\ (call[q].op = "run" => q \in runs)
    /\ \A r \in Requests : before[r] \subseteq answered
    /\ \A q \in runs \cup charged : pc[q] \in {"committed", "done"}
    /\ \A r \in Requests :
         /\ pc[r] = "committed" /\ call[r].op = "run" => r \in runs
         /\ pc[r] = "working" => call[r].op \in {"chat", "run"}
         /\ pc[r] = "reconnecting" => call[r].op = "rotate"
         /\ pc[r] = "read" => call[r].op \in {"list", "detail", "report", "rotate"}
         /\ pc[r] = "idle" => status[r] = "none"

(* What every step leaves as it was: what is committed or answered.        *)
Frame ==
    /\ call' = call
    /\ runs \subseteq runs'
    /\ charged \subseteq charged' /\ \A q \in answered : q \in charged' => q \in charged
    /\ \A q \in runs \cup answered : created'[q] = created[q]

(* A request reads nothing in the step, and has no 404 of it. *)
Idles(q) ==
    /\ found'[q] = found[q]
    /\ before'[q] = before[q]
    /\ pc'[q] = pc[q] \/ pc'[q] # "read"
    /\ status'[q] = status[q] \/ status'[q] # "http_404" \/ call[q].op # "detail"

LEMMA IdleReadStays ==
    ASSUME TypeOK, Past, Frame, NEW q \in Requests, ReadRight(q), Idles(q)
    PROVE  ReadRight(q)'
<1>1. before[q] \subseteq answered /\ found[q] \subseteq Requests
  BY DEF Past, TypeOK
<1>2. \A p \in Requests : MaySee(q, p)' <=> MaySee(q, p)
  BY DEF Frame, MaySee
<1>3. ASSUME pc'[q] = "read", call[q].op = "list"
      PROVE  ListRight(q)'
  <2>1. ListRight(q)
    BY <1>3 DEF ReadRight, Idles
  <2>2. found[q] \subseteq runs /\ found'[q] = found[q] /\ before'[q] = before[q]
    BY <2>1 DEF ListRight, Idles
  <2>3. \A p \in found[q] \cup before[q] : created'[p] = created[p]
    BY <1>1, <2>2 DEF Frame
  <2>4. /\ found'[q] \subseteq runs'
        /\ \A p \in found'[q] : MaySee(q, p)'
        /\ Cardinality(found'[q]) <= Limit
    BY <1>1, <1>2, <2>1, <2>2 DEF ListRight, Frame
  <2>5. ASSUME NEW p \in before'[q] \ found'[q], call'[p].op = "run", MaySee(q, p)'
        PROVE  /\ Cardinality(found'[q]) = Limit
               /\ \A other \in found'[q] : created'[other] > created'[p]
    <3>1. p \in before[q] \ found[q] /\ call[p].op = "run" /\ MaySee(q, p)
      <4>1. p \in before[q] \ found[q] /\ p \in Requests
        BY <1>1, <2>2, <2>5 DEF TypeOK
      <4> QED
        BY <1>2, <2>5, <4>1 DEF Frame
    <3>2. Cardinality(found[q]) = Limit /\ \A other \in found[q] : created[other] > created[p]
      BY <2>1, <3>1 DEF ListRight
    <3> QED
      BY <2>2, <2>3, <3>1, <3>2
  <2> QED
    BY <2>4, <2>5 DEF ListRight
<1>4. ASSUME pc'[q] = "read", call[q].op = "report"
      PROVE  ReportRight(q)'
  <2>1. ReportRight(q)
    BY <1>4 DEF ReadRight, Idles
  <2> QED
    BY <1>1, <1>2, <2>1 DEF ReportRight, Frame, Idles
<1>5. ASSUME pc'[q] = "read", call[q].op = "detail"
      PROVE  call[q].run \in runs' /\ MaySee(q, call[q].run)
  BY <1>5 DEF ReadRight, Idles, Frame
<1>6. ASSUME status'[q] = "http_404", call[q].op = "detail"
      PROVE  ~(call[q].run \in before[q] /\ call[call[q].run].op = "run" /\ MaySee(q, call[q].run))
  BY <1>6 DEF ReadRight, Idles
<1>7. call' = call /\ before'[q] = before[q]
  BY DEF Frame, Idles
<1> QED
  BY <1>3, <1>4, <1>5, <1>6, <1>7 DEF ReadRight, MaySee

(* Leave, Answers and Returns and the steps that only move a request. *)
Ended(r) == (\E answer \in Status : Leave(r, answer)) \/ Respond(r)

LEMMA EndFrames ==
    ASSUME TypeOK, Past, NEW r \in Requests, Ended(r)
    PROVE  Frame /\ Past'
<1>1. CASE \E answer \in Status : Leave(r, answer)
  <2>1. /\ pc' = [pc EXCEPT ![r] = "done"]
        /\ \A q \in Requests \ {r} : status'[q] = status[q]
        /\ UNCHANGED <<call, created, clock, runs, charged, found, answered, before>>
    BY <1>1 DEF Leave, TypeOK
  <2> QED
    BY <2>1 DEF Frame, Past, TypeOK
<1>2. CASE Respond(r)
  <2>1. /\ pc' = [pc EXCEPT ![r] = "done"]
        /\ \A q \in Requests \ {r} : status'[q] = status[q]
        /\ answered' = answered \/ (answered' = answered \cup {r} /\ call[r].op \in {"chat", "run"})
        /\ UNCHANGED <<call, created, clock, runs, charged, found, before>>
    BY <1>2 DEF Respond, Answers, TypeOK
  <2>2. call[r].op = "run" => r \in runs
    BY <1>2 DEF Respond, Past
  <2> QED
    BY <2>1, <2>2 DEF Frame, Past, TypeOK
<1> QED
  BY <1>1, <1>2 DEF Ended

LEMMA MoveFrames ==
    ASSUME TypeOK, Past, NEW r \in Requests, Moves(r)
    PROVE  Frame /\ Past'
<1>1. CASE Ended(r)
  BY <1>1, EndFrames
<1>2. CASE Arrive(r)
  BY <1>2 DEF Arrive, Frame, Past, TypeOK
<1>3. CASE Authenticate(r) \/ ReadKey(r) \/ Administer(r) \/ Rotate(r)
  <2>1. \E p \in {"authenticated", "read", "committed", "reconnecting"} :
            /\ pc' = [pc EXCEPT ![r] = p]
            /\ p = "committed" => call[r].op = "administer"
            /\ p \in {"read", "reconnecting"} => call[r].op = "rotate"
    BY <1>3 DEF Authenticate, ReadKey, Administer, Rotate, Enters, Past
  <2>2. pc[r] \notin {"idle", "committed", "done"}
    BY <1>3 DEF Authenticate, ReadKey, Administer, Rotate, Enters, Past
  <2>3. UNCHANGED <<call, created, clock, runs, charged, found, status, answered, before>>
    BY <1>3 DEF Authenticate, ReadKey, Administer, Rotate
  <2> QED
    BY <2>1, <2>2, <2>3 DEF Frame, Past, TypeOK
<1>4. CASE StartWork(r)
  BY <1>4 DEF StartWork, MayWork, Enters, Frame, Past, TypeOK
<1>5. CASE CommitWork(r)
  BY <1>5 DEF CommitWork, Frame, Past, TypeOK
<1>6. CASE \E some : Returns(r, some) /\ Enters(r, {"list", "detail", "report"})
  BY <1>6 DEF Returns, Enters, Frame, Past, TypeOK
<1> QED
  BY <1>1, <1>2, <1>3, <1>4, <1>5, <1>6
     DEF Moves, Serve, Ended, Status, RefuseHeader, PoolTimeout, Lose, RefuseKey, RefuseRole, RefuseTenant,
         RefuseWork, FailChat, RunNotFound, RefuseReport, NoSuchTenant, ListRuns, GetRun, GetReport, Enters

(* What a request reads in a step is right when it is read. *)
LEMMA ListIsRight ==
    ASSUME TypeOK, Past, Frame, NEW r \in Requests, ListRuns(r)
    PROVE  ListRight(r)'
<1>1. PICK some \in SUBSET Requests :
          Newest(some, runs \cap Visible(r)) /\ Returns(r, some)
  BY DEF ListRuns
<1>2. /\ found'[r] = some
      /\ UNCHANGED <<call, created, runs, before>>
  BY <1>1 DEF Returns, TypeOK
<1>3. /\ some \subseteq runs
      /\ Cardinality(some) <= Limit
      /\ \A q \in some : MaySee(r, q)
  BY <1>1 DEF Newest, Visible, MaySee
<1>4. ASSUME NEW q \in before[r] \ some, call[q].op = "run", MaySee(r, q)
      PROVE  /\ Cardinality(some) = Limit
             /\ \A other \in some : created[other] > created[q]
  <2>1. q \in runs
    BY <1>4 DEF Past
  <2>2. q \in runs \cap Visible(r)
    BY <1>4, <2>1 DEF Visible, MaySee, TypeOK
  <2> QED
    BY <1>1, <1>4, <2>2 DEF Newest
<1> QED
  BY <1>2, <1>3, <1>4 DEF ListRight, MaySee

LEMMA ReportIsRight ==
    ASSUME TypeOK, NEW r \in Requests, GetReport(r)
    PROVE  ReportRight(r)'
<1>1. /\ found'[r] = {q \in charged : call[q].tenant = call[r].about}
      /\ UNCHANGED <<call, charged, before>>
      /\ call[r].role = "admin" \/ call[r].about = call[r].tenant
  BY DEF GetReport, Returns, ForeignReport, TypeOK
<1> QED
  BY <1>1 DEF ReportRight, MaySee

LEMMA MoveReadsRight ==
    ASSUME TypeOK, Past, ReadsRight, NEW r \in Requests, Moves(r)
    PROVE  ReadsRight'
<1>1. Frame
  BY MoveFrames
<1>2. ASSUME NEW q \in Requests, Idles(q)
      PROVE  ReadRight(q)'
  BY <1>1, <1>2, IdleReadStays DEF ReadsRight
<1>3. ASSUME NEW q \in Requests \ {r}
      PROVE  Idles(q)
  BY DEF Idles, Moves, Serve, TypeOK, Arrive, RefuseHeader, Authenticate, PoolTimeout, RefuseKey, RefuseRole,
         RefuseTenant, RefuseWork, StartWork, FailChat, CommitWork, Administer, Rotate, ReadKey, ListRuns,
         GetRun, RunNotFound, RefuseReport, NoSuchTenant, GetReport, Respond, Lose, Leave, Answers, Returns
<1>4. ReadRight(r)'
  <2>1. CASE ListRuns(r)
    <3>1. pc'[r] = "read" /\ call'[r].op = "list" /\ status'[r] = status[r] /\ call' = call
      BY <2>1 DEF ListRuns, Returns, Enters, TypeOK
    <3> QED
      BY <1>1, <2>1, <3>1, ListIsRight DEF ReadRight
  <2>2. CASE GetReport(r)
    <3>1. pc'[r] = "read" /\ call'[r].op = "report"
      BY <2>2 DEF GetReport, Returns, Enters, TypeOK
    <3> QED
      BY <2>2, <3>1, ReportIsRight DEF ReadRight
  <2>3. CASE GetRun(r)
    <3>1. /\ pc'[r] = "read" /\ call[r].op = "detail"
          /\ UNCHANGED <<call, status, runs, before>>
          /\ call[r].run \in runs /\ MaySee(r, call[r].run)
      BY <2>3 DEF GetRun, Returns, Enters, TypeOK, Visible, MaySee
    <3> QED
      BY <3>1 DEF ReadRight, ReadsRight, MaySee
  <2>4. CASE RunNotFound(r)
    <3>1. /\ pc'[r] = "done" /\ UNCHANGED <<call, before>>
          /\ ~(call[r].run \in runs /\ MaySee(r, call[r].run))
      BY <2>4 DEF RunNotFound, Leave, TypeOK, Call, Visible, MaySee
    <3>2. call[r].run \in before[r] /\ call[call[r].run].op = "run" => call[r].run \in runs
      BY DEF Past
    <3> QED
      BY <3>1, <3>2 DEF ReadRight, MaySee
  <2>5. CASE Arrive(r)
    <3>1. pc'[r] = "connecting" /\ status'[r] = "none"
      BY <2>5 DEF Arrive, Past, TypeOK
    <3> QED
      BY <3>1 DEF ReadRight
  <2>6. CASE RefuseTenant(r) \/ NoSuchTenant(r)
    <3>1. pc'[r] = "done" /\ call'[r].op \in {"run", "report"}
      BY <2>6 DEF RefuseTenant, NoSuchTenant, Leave, Enters, TypeOK
    <3> QED
      BY <3>1 DEF ReadRight
  <2>7. CASE \/ \E answer \in Status \ {"http_404"} : Leave(r, answer)
             \/ Respond(r)
    <3>1. pc'[r] = "done" /\ status'[r] # "http_404"
      BY <2>7 DEF Leave, Respond, Answers, TypeOK
    <3> QED
      BY <3>1 DEF ReadRight
  <2>8. CASE \/ Authenticate(r) \/ StartWork(r) \/ CommitWork(r)
             \/ Administer(r) \/ Rotate(r) \/ ReadKey(r)
    <3>1. CASE ReadKey(r)
      <4>1. /\ pc'[r] = "read" /\ call'[r].op = "rotate"
        BY <3>1 DEF ReadKey, Past, TypeOK
      <4> QED
        BY <4>1 DEF ReadRight
    <3>2. CASE ~ReadKey(r)
      <4>1. Idles(r)
        BY <2>8, <3>2
           DEF Idles, Authenticate, StartWork, CommitWork, Administer, Rotate, TypeOK
      <4> QED
        BY <1>2, <4>1
    <3> QED
      BY <3>1, <3>2
  <2> QED
    BY <2>1, <2>2, <2>3, <2>4, <2>5, <2>6, <2>7, <2>8
       DEF Moves, Serve, Status, RefuseHeader, PoolTimeout, Lose, RefuseKey, RefuseRole,
           RefuseWork, FailChat, RefuseReport
<1> QED
  BY <1>2, <1>3, <1>4 DEF ReadsRight

LEMMA StepReadsRight ==
    ASSUME TypeOK, Past, ReadsRight, [Next]_vars
    PROVE  Past' /\ ReadsRight'
<1>1. CASE Restart
  <2>1. /\ \A q \in Requests : pc'[q] = IF pc[q] = "idle" THEN "idle" ELSE "done"
        /\ \A q \in Requests : status'[q] = status[q] \/ (pc[q] # "idle" /\ status'[q] = "http_5xx")
        /\ UNCHANGED <<call, created, clock, runs, charged, found, answered, before>>
    BY <1>1 DEF Restart
  <2>2. Frame /\ Past'
    BY <2>1 DEF Frame, Past, TypeOK
  <2>3. \A q \in Requests : Idles(q)
    BY <2>1 DEF Idles
  <2> QED
    BY <2>2, <2>3, IdleReadStays DEF ReadsRight
<1>2. CASE AllDone \/ UNCHANGED vars
  <2>1. Frame /\ Past' /\ \A q \in Requests : Idles(q)
    BY <1>2 DEF AllDone, vars, Frame, Past, Idles
  <2> QED
    BY <2>1, IdleReadStays DEF ReadsRight
<1> QED
  BY <1>1, <1>2, MoveFrames, MoveReadsRight DEF Next, Moves

LEMMA InitReads == Init => Past /\ ReadsRight
BY DEF Init, Past, ReadsRight, ReadRight

(* A list, a detail or a report shows what is committed and the caller's   *)
(* to see, and all that clients had been told of before it was asked.      *)
THEOREM ReadsStayRight == Spec => []ReadsRight
<1>1. Init => TypeOK /\ Past /\ ReadsRight
  BY InitTypes, InitReads
<1>2. TypeOK /\ Past /\ ReadsRight /\ [Next]_vars => TypeOK' /\ Past' /\ ReadsRight'
  BY StepTypes, StepReadsRight
<1> QED
  BY <1>1, <1>2, PTL DEF Spec

-----------------------------------------------------------------------------
(* Requests move on, and none waits for nothing.                           *)

(* How many steps a request has left at most. *)
StepsLeft(r) ==
    CASE pc[r] = "idle"                        -> 5
      [] pc[r] = "connecting"                  -> 4
      [] pc[r] = "authenticated"               -> 3
      [] pc[r] \in {"working", "reconnecting"} -> 2
      [] pc[r] \in {"committed", "read"}       -> 1
      [] pc[r] = "done"                        -> 0

(* A step moves a request on, a restart more than one, and none back. *)
MovesOn ==
    /\ \E r \in Requests : StepsLeft(r)' < StepsLeft(r)
    /\ \A r \in Requests : pc'[r] = pc[r] \/ StepsLeft(r)' < StepsLeft(r)

(* The next statement of a request can run: the guards of Serve(r), whose  *)
(* other conjuncts only choose among its answers.                          *)
Ready(r) ==
    \/ pc[r] \in Holding \cup {"committed"}
    \/ pc[r] \in Waiting /\ ~PoolFull

SomeoneReady ==
    (\E r \in Requests : pc[r] \in Waiting) => \E r \in Requests : Ready(r)

(* The one request that moves is nearer to its end. *)
LEMMA OneMovesOn ==
    ASSUME TypeOK, NEW r \in Requests, Moves(r)
    PROVE  MovesOn
<1> DEFINE To(from, places) ==
        pc[r] \in from /\ \E p \in places : pc' = [pc EXCEPT ![r] = p]
<1>1. pc \in [Requests -> Places]
  BY DEF TypeOK, Places
<1>2. \/ To({"idle"}, {"connecting", "done"})
      \/ To({"connecting"}, {"authenticated", "done"})
      \/ To({"authenticated"}, {"working", "reconnecting", "committed", "read", "done"})
      \/ To({"working"}, {"committed", "done"})
      \/ To({"reconnecting"}, {"read", "done"})
      \/ To({"committed", "read"}, {"done"})
  <2>1. CASE Respond(r)
    BY <2>1 DEF Respond, Answers
  <2>2. CASE Arrive(r)
    BY <2>2 DEF Arrive
  <2>3. CASE Administer(r) \/ Rotate(r) \/ CommitWork(r)
    BY <2>3 DEF Administer, Rotate, CommitWork, Enters
  <2>4. CASE Authenticate(r) \/ ReadKey(r)
    BY <2>4 DEF Authenticate, ReadKey
  <2>5. CASE StartWork(r) \/ ListRuns(r) \/ GetRun(r) \/ GetReport(r)
    BY <2>5 DEF StartWork, ListRuns, GetRun, GetReport, Returns, MayWork, Enters
  <2>6. CASE pc[r] # "done" /\ \E answer \in Status : Leave(r, answer)
    <3>1. pc' = [pc EXCEPT ![r] = "done"]
      BY <2>6 DEF Leave
    <3> QED
      BY <1>1, <2>6, <3>1 DEF Places, Waiting, Holding
  <2> QED
    BY <2>1, <2>2, <2>3, <2>4, <2>5, <2>6
       DEF Moves, Serve, Status, RefuseHeader, PoolTimeout, Lose, RefuseKey, RefuseRole, RefuseTenant,
           RefuseWork, FailChat, RunNotFound, RefuseReport, NoSuchTenant, MayWork, Enters, Waiting
<1>3. StepsLeft(r)' < StepsLeft(r)
  BY <1>1, <1>2 DEF StepsLeft
<1>4. \A q \in Requests \ {r} : pc'[q] = pc[q]
  BY <1>1, <1>2
<1> QED
  BY <1>3, <1>4 DEF MovesOn

LEMMA StepMovesOn ==
    ASSUME TypeOK, [Next]_vars
    PROVE  [MovesOn]_vars
<1>1. CASE Restart
  <2>1. pc \in [Requests -> Places]
    BY DEF TypeOK, Places
  <2>2. \A r \in Requests :
            pc'[r] = pc[r] \/ (pc[r] \notin {"idle", "done"} /\ pc'[r] = "done")
    BY <1>1, <2>1 DEF Restart
  <2>3. \E r \in Requests : pc[r] \notin {"idle", "done"} /\ pc'[r] = "done"
    BY <1>1 DEF Restart
  <2>4. ASSUME NEW r \in Requests, pc[r] \notin {"idle", "done"}, pc'[r] = "done"
        PROVE  StepsLeft(r)' < StepsLeft(r)
    BY <2>1, <2>4 DEF StepsLeft, Places, Waiting, Holding
  <2> QED
    BY <2>2, <2>3, <2>4 DEF MovesOn
<1> QED
  BY <1>1, OneMovesOn DEF Next, Moves, AllDone

(* However requests interleave, time out, are lost or restarted: each step *)
(* moves some request on and none back, so that n requests are over after  *)
(* at most 5n steps.                                                       *)
THEOREM RequestsAlwaysMoveOn ==
    /\ Spec => [](\A r \in Requests : StepsLeft(r) \in 0 .. 5)
    /\ Spec => [][MovesOn]_vars
<1>1. TypeOK => \A r \in Requests : StepsLeft(r) \in 0 .. 5
  BY DEF TypeOK, StepsLeft, Waiting, Holding
<1>2. TypeOK /\ [Next]_vars => [MovesOn]_vars
  BY StepMovesOn
<1>3. Spec => [](\A r \in Requests : StepsLeft(r) \in 0 .. 5)
  BY <1>1, TypeCorrect, PTL
<1>4. Spec => [][MovesOn]_vars
  BY <1>2, TypeCorrect, PTL DEF Spec
<1> QED
  BY <1>3, <1>4

(* No deadlock on the pool, whatever its size: as long as a request waits  *)
(* for a connection there is one whose next statement can run, because a   *)
(* full pool is lent to requests that wait for nothing (get_session gives  *)
(* a request one session, and no handler opens a second).                  *)
THEOREM PoolNeverStarves == Spec => []SomeoneReady
<1>1. ASSUME TypeOK, PoolBalanced, NEW r \in Requests, pc[r] \in Waiting
      PROVE  \E q \in Requests : Ready(q)
  <2>1. CASE ~PoolFull
    BY <1>1, <2>1 DEF Ready
  <2>2. CASE PoolFull
    <3>1. Cardinality(Holders) # 0
      BY <2>2, GatewayAssumption DEF PoolFull
    <3>2. Holders # {}
      BY <3>1, FS_EmptySet
    <3>3. PICK q \in Requests : held[q] > 0
      BY <3>2 DEF Holders
    <3>4. pc[q] \in Holding
      BY <1>1, <3>3 DEF PoolBalanced
    <3> QED
      BY <3>4 DEF Ready
  <2> QED
    BY <2>1, <2>2
<1>2. TypeOK /\ PoolBalanced => SomeoneReady
  BY <1>1 DEF SomeoneReady
<1> QED
  BY <1>2, TypeCorrect, PoolStaysBalanced, PTL

=============================================================================
