---------------------------- MODULE ApiKeysProofs ----------------------------
(***************************************************************************)
(* Theorems about ApiKeys, for any number of requests and keys.            *)
(*                                                                         *)
(* One inductive invariant: what the table looks like (RowInv), what each  *)
(* request has done to it at each place of its handler (Phase), and which  *)
(* ids are new when they are drawn (DrawnInv).                             *)
(***************************************************************************)
EXTENDS ApiKeys, TLAPS

Issued(k) == k \in Key /\ role[k] # "none"

RowInv ==
    /\ Issued(Bootstrap)
    /\ \A k \in Key : role[k] = "none" => revokedAt[k] = Nobody /\ rotatedFrom[k] = NoKey
    /\ \A k \in Key :
           rotatedFrom[k] # NoKey =>
               /\ Issued(rotatedFrom[k])
               /\ role[rotatedFrom[k]] = role[k]
               /\ revokedAt[rotatedFrom[k]] # Nobody

Finished(r) == pc[r] = "committed" \/ reply[r] \in {"ok", "assertion"}

Phase(r) ==
    /\ pc[r] = "idle" => op[r] = "none"
    /\ pc[r] # "done" => reply[r] = "none"
    /\ ~Ends(r) => target[r] = NoKey
    /\ Ends(r) => target[r] \in Key
    /\ pc[r] \in {"found", "flushed"} /\ Ends(r) => Issued(target[r])
    /\ pc[r] = "flushed" /\ Issues(r) => fresh[r] \in Key /\ role[fresh[r]] = "none"
    /\ Finished(r) /\ Issues(r) => /\ Issued(fresh[r]) /\ role[fresh[r]] = Granted(r)
                                   /\ revokedAt[fresh[r]] # r
    /\ Finished(r) /\ Ends(r) => ~Active(target[r])
    /\ reply[r] = "assertion" => Issues(r) /\ revokedAt[fresh[r]] # Nobody

PhaseInv == \A r \in Request : Phase(r)

(* No id is drawn twice, nor after a request has named it: what a request  *)
(* is about is a key, or will never be one.                                *)
DrawnInv ==
    /\ \A q, r \in Request : q # r /\ fresh[q] # NoKey => fresh[q] # fresh[r]
    /\ \A r \in Request :
           target[r] = NoKey \/ Issued(target[r]) \/ \A q \in Request : fresh[q] # target[r]

(* An id whose end was answered: no key, and never to be one again. *)
Over(k) == ~Active(k) /\ \E q \in Request : target[q] = k

EndedInv == \A r \in Request : \A k \in ended[r] : Over(k)

IInv == TypeOK /\ RowInv /\ PhaseInv /\ DrawnInv /\ EndedInv /\ NoLateAccess

-----------------------------------------------------------------------------
(* What clients know and were told. *)
LEMMA KnownIssued ==
    ASSUME TypeOK, RowInv, PhaseInv
    PROVE  \A k \in Known : Issued(k)
BY DEF Known, RowInv, PhaseInv, Phase, Finished

LEMMA AnsweredOver ==
    ASSUME TypeOK, PhaseInv
    PROVE  \A k \in AnsweredEnded : k \in Key /\ Over(k)
BY DEF AnsweredEnded, PhaseInv, Phase, Finished, Over

LEMMA KeyInit == Init => IInv
<1> SUFFICES ASSUME Init PROVE IInv
  OBVIOUS
<1>1. TypeOK
  BY KeyAssumption DEF Init, TypeOK, Role, Place, Op, Reply
<1>2. RowInv
  BY KeyAssumption DEF Init, RowInv, Issued
<1>3. PhaseInv
  BY DEF Init, PhaseInv, Phase, Finished, Ends, Issues
<1>4. DrawnInv /\ EndedInv /\ NoLateAccess
  BY KeyAssumption DEF Init, DrawnInv, EndedInv, NoLateAccess, LetIn
<1> QED BY <1>1, <1>2, <1>3, <1>4 DEF IInv

-----------------------------------------------------------------------------
(* The steps that leave the table alone. *)

(* What a step of r that writes no row leaves alone. *)
Quiet(r) ==
    /\ UNCHANGED rows
    /\ \A q \in Request \ {r} :
           /\ pc'[q] = pc[q] /\ reply'[q] = reply[q] /\ op'[q] = op[q]
           /\ target'[q] = target[q] /\ token'[q] = token[q] /\ asked'[q] = asked[q]
           /\ fresh'[q] = fresh[q] /\ ended'[q] = ended[q]

LEMMA QuietOthers ==
    ASSUME IInv, NEW r \in Request, Quiet(r), NEW q \in Request \ {r}
    PROVE  Phase(q)'
BY DEF Quiet, rows, IInv, PhaseInv, Phase, Finished, Issued, Granted, Ends, Issues, Active

(* What is over stays over while the targets of requests stay. *)
LEMMA QuietOver ==
    ASSUME UNCHANGED rows, NEW k \in Key, Over(k),
           \A q \in Request : target[q] # NoKey => target'[q] = target[q]
    PROVE  Over(k)'
BY KeyAssumption DEF Over, Active, rows

LEMMA QuietRows ==
    ASSUME IInv, UNCHANGED rows
    PROVE  RowInv'
BY DEF rows, IInv, RowInv, Issued

LEMMA ArriveStep ==
    ASSUME IInv, NEW r \in Request, Arrive(r)
    PROVE  IInv'
<1>1. /\ pc[r] = "idle" /\ reply[r] = "none" /\ reply' = reply /\ fresh' = fresh
      /\ pc' = [pc EXCEPT ![r] = "arrived"] /\ UNCHANGED rows /\ target[r] = NoKey
  BY DEF Arrive, Goes, IInv, PhaseInv, Phase, Ends
<1>2. PICK o \in Op \ {"none"}, k \in Key \cup {NoKey}, g \in Role, t \in Key :
         /\ op' = [op EXCEPT ![r] = o] /\ target' = [target EXCEPT ![r] = k]
         /\ asked' = [asked EXCEPT ![r] = g] /\ token' = [token EXCEPT ![r] = t]
         /\ IF o \in {"rotate", "revoke"} THEN k \in Key /\ Nameable(k) ELSE k = NoKey
  <2>1. \A k \in Known : k \in Key
    BY KnownIssued DEF IInv, Issued
  <2>2. PICK o \in Op \ {"none"} :
           /\ op' = [op EXCEPT ![r] = o]
           /\ \E k \in (IF o \in {"rotate", "revoke"} THEN {j \in Key : Nameable(j)}
                        ELSE {NoKey}) :
                  target' = [target EXCEPT ![r] = k]
           /\ \E g \in (IF o = "create" THEN Grants ELSE {"viewer"}) :
                  asked' = [asked EXCEPT ![r] = g]
    BY DEF Arrive
  <2>3. PICK k \in (IF o \in {"rotate", "revoke"} THEN {j \in Key : Nameable(j)}
                 ELSE {NoKey}) :
           target' = [target EXCEPT ![r] = k]
    BY <2>2
  <2>4. PICK g \in (IF o = "create" THEN Grants ELSE {"viewer"}) :
           asked' = [asked EXCEPT ![r] = g]
    BY <2>2
  <2>5. PICK t \in Known : token' = [token EXCEPT ![r] = t]
    BY DEF Arrive
  <2>6. g \in Role
    BY <2>4, KeyAssumption DEF Role
  <2> QED BY <2>1, <2>2, <2>3, <2>4, <2>5, <2>6
<1>3. ended' = [ended EXCEPT ![r] = AnsweredEnded]
  BY DEF Arrive
<1>4. \A j \in AnsweredEnded : j \in Key /\ Over(j)
  BY AnsweredOver DEF IInv
<1>5. TypeOK'
  <2>1. AnsweredEnded \in SUBSET Key
    BY <1>4
  <2> QED BY <1>1, <1>2, <1>3, <2>1 DEF IInv, TypeOK, rows, Place
<1>6. RowInv'
  BY <1>1, QuietRows
<1>7. Quiet(r)
  BY <1>1, <1>2, <1>3 DEF Quiet, IInv, TypeOK
<1>8. Phase(r)'
  <2>1. /\ op'[r] = o /\ target'[r] = k /\ reply'[r] = "none" /\ pc'[r] = "arrived"
        /\ role' = role
    BY <1>1, <1>2 DEF IInv, TypeOK, rows
  <2> QED BY <1>2, <2>1 DEF Phase, Ends, Finished
<1>9. PhaseInv'
  BY <1>7, <1>8, QuietOthers DEF PhaseInv
<1>10. DrawnInv'
  <2>1. k = NoKey \/ Issued(k) \/ \A q \in Request : fresh[q] # k
    BY <1>2 DEF Nameable, Issued
  <2>2. target'[r] = k /\ \A q \in Request \ {r} : target'[q] = target[q]
    BY <1>2 DEF IInv, TypeOK
  <2> QED BY <1>1, <2>1, <2>2 DEF IInv, DrawnInv, Issued, rows
<1>11. EndedInv'
  <2>1. \A j \in Key : Over(j) => Over(j)'
    BY <1>1, <1>7, QuietOver DEF Quiet
  <2> QED BY <1>3, <1>4, <1>7, <2>1 DEF IInv, EndedInv, TypeOK, Quiet
<1>12. NoLateAccess'
  BY <1>1, <1>7 DEF IInv, NoLateAccess, LetIn, TypeOK, Quiet
<1> QED BY <1>5, <1>6, <1>9, <1>10, <1>11, <1>12 DEF IInv

(* Steps of one request through its handler, with nothing drawn. *)
LEMMA MoveStep ==
    ASSUME IInv, NEW r \in Request, UNCHANGED <<rows, inputs, fresh>>,
           pc[r] # "done",
           NEW place \in Place, pc' = [pc EXCEPT ![r] = place],
           NEW answer \in Reply, reply' = [reply EXCEPT ![r] = answer],
           Phase(r)', LetIn(r)' => token[r] \notin ended[r]
    PROVE  IInv'
<1>1. Quiet(r)
  BY DEF Quiet, inputs, IInv, TypeOK
<1>2. TypeOK'
  BY DEF IInv, TypeOK, rows, inputs
<1>3. PhaseInv'
  BY <1>1, QuietOthers DEF PhaseInv
<1>4. DrawnInv'
  BY DEF IInv, DrawnInv, Issued, rows, inputs
<1>5. EndedInv'
  <2>1. \A k \in Key : Over(k) => Over(k)'
    BY QuietOver DEF inputs
  <2> QED BY <2>1 DEF IInv, EndedInv, TypeOK, inputs
<1>6. NoLateAccess'
  BY <1>1 DEF IInv, NoLateAccess, LetIn, inputs, Quiet
<1> QED BY <1>2, <1>3, <1>4, <1>5, <1>6, QuietRows DEF IInv

LEMMA AuthenticateStep == IInv /\ (\E r \in Request : Authenticate(r) \/ Refuse(r)) => IInv'
<1> SUFFICES ASSUME IInv, NEW r \in Request, Authenticate(r) \/ Refuse(r)
             PROVE  IInv'
  OBVIOUS
<1>0. TypeOK /\ Phase(r)
  BY DEF IInv, PhaseInv
<1>1. CASE Authenticate(r)
  <2>1. token[r] \notin ended[r]
    BY <1>1 DEF Authenticate, IInv, EndedInv, Over
  <2>2. CASE op[r] = "use"
    <3>1. /\ pc' = [pc EXCEPT ![r] = "done"] /\ reply' = [reply EXCEPT ![r] = "ok"]
          /\ UNCHANGED <<rows, inputs, fresh>> /\ pc[r] # "done"
      BY <1>1, <2>2 DEF Authenticate, Leave
    <3>2. Phase(r)'
      BY <1>0, <2>2, <3>1 DEF TypeOK, Phase, Issues, Ends, Finished, inputs, rows
    <3> QED BY <2>1, <3>1, <3>2, MoveStep DEF Place, Reply
  <2>3. CASE op[r] # "use"
    <3>1. /\ pc' = [pc EXCEPT ![r] = "admitted"] /\ reply' = [reply EXCEPT ![r] = "none"]
          /\ UNCHANGED <<rows, inputs, fresh>> /\ pc[r] # "done"
      BY <1>0, <1>1, <2>3 DEF Authenticate, Goes, Phase, TypeOK
    <3>2. Phase(r)'
      BY <1>0, <3>1 DEF TypeOK, Phase, Issues, Ends, Finished, Issued, inputs, rows
    <3> QED BY <2>1, <3>1, <3>2, MoveStep DEF Place, Reply
  <2> QED BY <2>2, <2>3
<1>2. CASE Refuse(r)
  <2>1. /\ pc' = [pc EXCEPT ![r] = "done"] /\ reply' = [reply EXCEPT ![r] = "refused"]
        /\ UNCHANGED <<rows, inputs, fresh>> /\ pc[r] # "done"
    BY <1>2 DEF Refuse, Leave
  <2>2. Phase(r)' /\ ~LetIn(r)'
    BY <1>0, <2>1
       DEF TypeOK, Phase, Issues, Ends, Finished, Issued, LetIn, inputs, rows
  <2> QED BY <2>1, <2>2, MoveStep DEF Place, Reply
<1> QED BY <1>1, <1>2

LEMMA FindStep == IInv /\ (\E r \in Request : Find(r) \/ FindNothing(r)) => IInv'
<1> SUFFICES ASSUME IInv, NEW r \in Request, Find(r) \/ FindNothing(r)
             PROVE  IInv'
  OBVIOUS
<1>0. TypeOK /\ Phase(r)
  BY DEF IInv, PhaseInv
<1>1. /\ pc[r] = "admitted" /\ Ends(r) /\ reply[r] = "none"
      /\ UNCHANGED <<rows, inputs, fresh>> /\ token[r] \notin ended[r]
  BY <1>0 DEF Find, FindNothing, Phase, IInv, NoLateAccess, LetIn
<1>2. CASE Find(r)
  <2>1. pc' = [pc EXCEPT ![r] = "found"] /\ reply' = [reply EXCEPT ![r] = "none"]
    BY <1>0, <1>1, <1>2 DEF Find, Goes, TypeOK
  <2>2. Issued(target[r])
    BY <1>0, <1>1, <1>2 DEF Find, Active, Issued, Phase
  <2>3. Phase(r)'
    BY <1>0, <1>1, <2>1, <2>2 DEF TypeOK, Phase, Issues, Ends, Finished, Issued, inputs, rows
  <2> QED BY <1>1, <2>1, <2>3, MoveStep DEF Place, Reply
<1>3. CASE FindNothing(r) /\ op[r] = "rotate"
  <2>1. pc' = [pc EXCEPT ![r] = "done"] /\ reply' = [reply EXCEPT ![r] = "not_found"]
    BY <1>3 DEF FindNothing, Leave
  <2>2. Phase(r)'
    BY <1>0, <1>1, <2>1 DEF TypeOK, Phase, Issues, Ends, Finished, Issued, inputs, rows
  <2> QED BY <1>1, <2>1, <2>2, MoveStep DEF Place, Reply
<1>4. CASE FindNothing(r) /\ op[r] # "rotate"
  <2>1. pc' = [pc EXCEPT ![r] = "committed"] /\ reply' = [reply EXCEPT ![r] = "none"]
    BY <1>0, <1>1, <1>4 DEF FindNothing, Goes, TypeOK
  <2>2. op[r] = "revoke" /\ ~Active(target[r])
    BY <1>1, <1>4 DEF FindNothing, Ends
  <2>3. Phase(r)'
    BY <1>0, <1>1, <2>1, <2>2
       DEF TypeOK, Phase, Issues, Ends, Finished, Active, inputs, rows
  <2> QED BY <1>1, <2>1, <2>3, MoveStep DEF Place, Reply
<1> QED BY <1>2, <1>3, <1>4

LEMMA LeaveStep == IInv /\ (\E r \in Request : Respond(r) \/ Lose(r)) => IInv'
<1> SUFFICES ASSUME IInv, NEW r \in Request, Respond(r) \/ Lose(r)
             PROVE  IInv'
  OBVIOUS
<1>0. TypeOK /\ Phase(r)
  BY DEF IInv, PhaseInv
<1>1. CASE Respond(r)
  <2>1. /\ pc[r] = "committed" /\ UNCHANGED <<rows, inputs, fresh>>
        /\ token[r] \notin ended[r]
    BY <1>1 DEF Respond, IInv, NoLateAccess, LetIn
  <2>2. PICK answer \in {"ok", "assertion"} :
           /\ pc' = [pc EXCEPT ![r] = "done"] /\ reply' = [reply EXCEPT ![r] = answer]
           /\ answer = "assertion" => op[r] = "rotate" /\ ~Active(fresh[r])
    BY <1>1 DEF Respond, Leave
  <2>3. answer = "assertion" => Issues(r) /\ revokedAt[fresh[r]] # Nobody
    BY <1>0, <2>1, <2>2 DEF Phase, Finished, Issues, Active, Issued
  <2>4. Phase(r)'
    BY <1>0, <2>1, <2>2, <2>3
       DEF TypeOK, Phase, Issues, Ends, Finished, Issued, Granted, Active, inputs, rows
  <2> QED BY <2>1, <2>2, <2>4, MoveStep DEF Place, Reply
<1>2. CASE Lose(r)
  <2>1. /\ pc' = [pc EXCEPT ![r] = "done"] /\ reply' = [reply EXCEPT ![r] = "lost"]
        /\ UNCHANGED <<rows, inputs, fresh>> /\ pc[r] # "done"
    BY <1>2 DEF Lose, Leave
  <2>2. Phase(r)' /\ ~LetIn(r)'
    BY <1>0, <2>1
       DEF TypeOK, Phase, Issues, Ends, Finished, Issued, LetIn, inputs, rows
  <2> QED BY <2>1, <2>2, MoveStep DEF Place, Reply
<1> QED BY <1>1, <1>2

-----------------------------------------------------------------------------
(* The two steps that make a key.                                          *)

LEMMA FlushStep == IInv /\ (\E r \in Request : Flush(r)) => IInv'
<1> SUFFICES ASSUME IInv, NEW r \in Request, Flush(r)
             PROVE  IInv'
  OBVIOUS
<1>0. TypeOK /\ Phase(r)
  BY DEF IInv, PhaseInv
<1>1. /\ pc[r] \in {"admitted", "found"} /\ reply[r] = "none"
      /\ UNCHANGED <<rows, inputs>> /\ token[r] \notin ended[r]
  BY <1>0 DEF Flush, Phase, IInv, NoLateAccess, LetIn
<1>2. pc' = [pc EXCEPT ![r] = "flushed"] /\ reply' = reply
  BY DEF Flush, Goes
<1>3. Ends(r) => Issued(target[r])
  BY <1>0 DEF Flush, Ends, Phase
<1>4. CASE ~Issues(r)
  <2>1. UNCHANGED fresh
    BY <1>4 DEF Flush
  <2>2. Phase(r)'
    BY <1>0, <1>1, <1>2, <1>3, <1>4, <2>1
       DEF TypeOK, Phase, Issues, Ends, Finished, Issued, inputs, rows
  <2>3. reply' = [reply EXCEPT ![r] = "none"]
    BY <1>0, <1>1, <1>2 DEF TypeOK
  <2> QED BY <1>1, <1>2, <2>1, <2>2, <2>3, MoveStep DEF Place, Reply
<1>5. CASE Issues(r)
  <2>1. PICK k \in Key : Drawn(k) /\ fresh' = [fresh EXCEPT ![r] = k]
    BY <1>5 DEF Flush
  <2>2. Quiet(r)
    BY <1>0, <1>1, <1>2, <2>1 DEF Quiet, inputs, TypeOK
  <2>3. TypeOK'
    BY <1>0, <1>1, <1>2, <2>1 DEF TypeOK, rows, inputs, Place
  <2>4. Phase(r)'
    BY <1>0, <1>1, <1>2, <1>3, <2>1
       DEF TypeOK, Phase, Issues, Ends, Finished, Issued, Drawn, inputs, rows
  <2>5. DrawnInv'
    <3>1. fresh'[r] = k /\ \A q \in Request \ {r} : fresh'[q] = fresh[q]
      BY <1>0, <2>1 DEF TypeOK
    <3>2. k # NoKey /\ \A q \in Request : fresh[q] # k /\ target[q] # k
      BY <2>1, KeyAssumption DEF Drawn
    <3>3. \A p, q \in Request :
              p # q /\ fresh'[p] # NoKey => fresh'[p] # fresh'[q]
      BY <3>1, <3>2 DEF IInv, DrawnInv
    <3>4. target' = target /\ role' = role
      BY <1>1 DEF inputs, rows
    <3> QED BY <3>1, <3>2, <3>3, <3>4 DEF IInv, DrawnInv, Issued
  <2>6. EndedInv' /\ NoLateAccess'
    <3>1. \A j \in Key : Over(j) => Over(j)'
      BY <1>1, QuietOver DEF inputs
    <3> QED
      BY <1>1, <1>2, <2>2, <3>1
         DEF IInv, TypeOK, EndedInv, NoLateAccess, LetIn, inputs, Quiet
  <2>7. PhaseInv' /\ RowInv'
    BY <1>1, <2>2, <2>4, QuietOthers, QuietRows DEF PhaseInv
  <2> QED BY <2>3, <2>5, <2>6, <2>7 DEF IInv
<1> QED BY <1>4, <1>5

(* What a commit does to the row of each key. *)
LEMMA CommitRows ==
    ASSUME IInv, NEW r \in Request, Commit(r)
    PROVE  /\ Issues(r) => /\ fresh[r] \in Key /\ role[fresh[r]] = "none"
                           /\ Granted(r) \in Role
                           /\ role' = [role EXCEPT ![fresh[r]] = Granted(r)]
                           /\ rotatedFrom' = [rotatedFrom EXCEPT ![fresh[r]] = target[r]]
           /\ ~Issues(r) => UNCHANGED <<role, rotatedFrom>>
           /\ Ends(r) => /\ Issued(target[r])
                         /\ revokedAt' = [revokedAt EXCEPT ![target[r]] = r]
           /\ ~Ends(r) => revokedAt' = revokedAt /\ target[r] = NoKey
<1>1. Phase(r) /\ TypeOK /\ pc[r] = "flushed"
  BY DEF IInv, PhaseInv, Commit
<1>2. Issues(r) => Granted(r) \in Role
  BY <1>1 DEF Issues, Ends, Granted, Phase, TypeOK, Issued
<1> QED BY <1>1, <1>2 DEF Commit, Phase, Revoked

(* A commit changes no row of an issued key but the one it ends. *)
LEMMA CommitKeeps ==
    ASSUME IInv, NEW r \in Request, Commit(r), NEW k \in Key
    PROVE  /\ role[k] # "none" => role'[k] = role[k] /\ rotatedFrom'[k] = rotatedFrom[k]
           /\ revokedAt[k] # Nobody => revokedAt'[k] # Nobody
           /\ k # target[r] => revokedAt'[k] = revokedAt[k]
           /\ Issues(r) /\ k # fresh[r] => role'[k] = role[k] /\ rotatedFrom'[k] = rotatedFrom[k]
BY CommitRows, KeyAssumption DEF IInv, TypeOK, Issued

LEMMA CommitTable ==
    ASSUME IInv, NEW r \in Request, Commit(r)
    PROVE  RowInv'
<1>1. TypeOK /\ RowInv
  BY DEF IInv
<1>2. Issued(Bootstrap)'
  BY <1>1, CommitKeeps, KeyAssumption DEF RowInv, Issued
<1>3. ASSUME NEW k \in Key, role'[k] = "none"
      PROVE  revokedAt'[k] = Nobody /\ rotatedFrom'[k] = NoKey
  <2>1. role[k] = "none"
    BY <1>3, CommitKeeps
  <2>2. ~Issues(r) \/ k # fresh[r]
    BY <1>1, <1>3, CommitRows DEF TypeOK, Role
  <2>3. k # target[r]
    BY <2>1, CommitRows, KeyAssumption DEF Issued
  <2> QED BY <1>1, <2>1, <2>2, <2>3, CommitKeeps, CommitRows DEF RowInv
<1>4. ASSUME NEW k \in Key, rotatedFrom'[k] # NoKey
      PROVE  /\ rotatedFrom'[k] \in Key /\ role'[rotatedFrom'[k]] # "none"
             /\ role'[rotatedFrom'[k]] = role'[k]
             /\ revokedAt'[rotatedFrom'[k]] # Nobody
  <2>1. CASE Issues(r) /\ k = fresh[r]
    <3>1. rotatedFrom'[k] = target[r] /\ role'[k] = Granted(r)
      BY <1>1, <2>1, CommitRows DEF TypeOK
    <3>2. Ends(r) /\ op[r] # "create"
      BY <1>4, <2>1, <3>1, CommitRows DEF Ends, Issues
    <3>3. Issued(target[r]) /\ revokedAt'[target[r]] = r
      BY <1>1, <3>2, CommitRows DEF TypeOK, Issued
    <3>4. role'[target[r]] = role[target[r]]
      BY <3>3, CommitKeeps DEF Issued
    <3> QED BY <3>1, <3>2, <3>3, <3>4, KeyAssumption DEF Issued, Granted
  <2>2. CASE ~(Issues(r) /\ k = fresh[r])
    <3>1. rotatedFrom'[k] = rotatedFrom[k] /\ role'[k] = role[k]
      BY <2>2, CommitKeeps, CommitRows
    <3>2. /\ Issued(rotatedFrom[k]) /\ role[rotatedFrom[k]] = role[k]
          /\ revokedAt[rotatedFrom[k]] # Nobody
      BY <1>1, <1>4, <3>1 DEF RowInv
    <3> QED BY <3>1, <3>2, CommitKeeps DEF Issued
  <2> QED BY <2>1, <2>2
<1> QED BY <1>2, <1>3, <1>4 DEF RowInv, Issued

(* What is over is not made a key by a commit. *)
LEMMA CommitEnds ==
    ASSUME IInv, NEW r \in Request, Commit(r), NEW k \in Key, ~Active(k),
           NEW q \in Request, target[q] = k
    PROVE  ~Active(k)'
<1>1. CASE role[k] = "none"
  <2>1. Issues(r) => k # fresh[r]
    BY <1>1, KeyAssumption DEF IInv, DrawnInv, Issued
  <2> QED BY <1>1, <2>1, CommitKeeps, CommitRows DEF Active
<1>2. CASE role[k] # "none"
  BY <1>2, CommitKeeps DEF Active
<1> QED BY <1>1, <1>2

LEMMA CommitPhase ==
    ASSUME IInv, NEW r \in Request, Commit(r), NEW q \in Request
    PROVE  Phase(q)'
<1>1. TypeOK /\ Phase(q) /\ Phase(r) /\ RowInv /\ DrawnInv
  BY DEF IInv, PhaseInv
<1>2. /\ pc[r] = "flushed" /\ pc' = [pc EXCEPT ![r] = "committed"] /\ reply' = reply
      /\ UNCHANGED <<inputs, fresh>>
  BY DEF Commit, Goes
<1>3. /\ Issues(q)' = Issues(q) /\ Ends(q)' = Ends(q) /\ op'[q] = op[q]
      /\ target'[q] = target[q] /\ fresh'[q] = fresh[q]
  BY <1>2 DEF Issues, Ends, inputs
<1>4. Ends(q) /\ Issued(target[q]) =>
          Issued(target[q])' /\ role'[target[q]] = role[target[q]]
  BY <1>1, <1>3, CommitKeeps DEF Issued
<1>5. Issues(q) /\ (op[q] = "rotate" => Issued(target[q])) => Granted(q)' = Granted(q)
  BY <1>2, <1>4 DEF Issues, Ends, Granted, inputs
<1>6. CASE q = r
  <2>1. /\ pc'[q] = "committed" /\ reply'[q] = "none"
    BY <1>1, <1>2, <1>6 DEF Phase, TypeOK
  <2>2. Issues(q) => /\ Issued(fresh[q])' /\ role'[fresh[q]] = Granted(q)'
                     /\ revokedAt'[fresh[q]] = Nobody
    <3>1. ASSUME Issues(q)
          PROVE  fresh[q] \in Key /\ role'[fresh[q]] = Granted(q) /\ Granted(q) # "none"
      BY <1>1, <1>6, <3>1, CommitRows DEF TypeOK, Role
    <3>2. ASSUME Issues(q) PROVE fresh[q] # target[r]
      BY <1>6, <3>1, <3>2, CommitRows, KeyAssumption DEF Issued
    <3>3. ASSUME Issues(q) PROVE revokedAt[fresh[q]] = Nobody
      BY <1>1, <1>6, <3>3, CommitRows DEF RowInv
    <3>4. Issues(q) => Granted(q)' = Granted(q)
      BY <1>5, <1>6, CommitRows DEF Ends
    <3> QED BY <1>3, <3>1, <3>2, <3>3, <3>4, CommitKeeps DEF Issued
  <2>3. Ends(q) => ~Active(target[q])'
    BY <1>1, <1>3, <1>6, CommitRows, KeyAssumption DEF TypeOK, Issued, Active
  <2> QED
    BY <1>1, <1>3, <2>1, <2>2, <2>3, KeyAssumption DEF Phase, Finished, Active
<1>7. CASE q # r
  <2>1. pc'[q] = pc[q] /\ reply'[q] = reply[q]
    BY <1>1, <1>2, <1>7 DEF TypeOK
  <2>2. Issues(q) /\ fresh[q] \in Key => fresh[q] # fresh[r]
    BY <1>1, <1>7, KeyAssumption DEF DrawnInv
  <2>3. pc[q] = "flushed" /\ Issues(q) => fresh[q] \in Key /\ role'[fresh[q]] = "none"
    BY <1>1, <2>2, CommitKeeps, CommitRows DEF Phase
  <2>4. ASSUME Finished(q), Issues(q)
        PROVE  /\ Issued(fresh[q])' /\ role'[fresh[q]] = Granted(q)'
               /\ revokedAt'[fresh[q]] # q
               /\ revokedAt[fresh[q]] # Nobody => revokedAt'[fresh[q]] # Nobody
    <3>1. /\ Issued(fresh[q]) /\ role[fresh[q]] = Granted(q)
          /\ revokedAt[fresh[q]] # q
      BY <1>1, <2>4 DEF Phase
    <3>2. op[q] = "rotate" => Issued(target[q])
      BY <1>1, <3>1 DEF Phase, Issued, Granted, Ends
    <3>3. revokedAt'[fresh[q]] \in {revokedAt[fresh[q]], r}
      BY <1>1, <3>1, CommitRows DEF TypeOK, Issued
    <3> QED BY <1>3, <1>5, <1>7, <2>4, <3>1, <3>2, <3>3, CommitKeeps DEF Issued
  <2>5. Finished(q) /\ Ends(q) => ~Active(target[q])'
    BY <1>1, <1>3, CommitEnds DEF Phase, Active
  <2>6. pc[q] \in {"found", "flushed"} /\ Ends(q) => Issued(target[q])'
    BY <1>1, <1>4 DEF Phase
  <2> QED
    BY <1>1, <1>3, <2>1, <2>3, <2>4, <2>5, <2>6 DEF Phase, Finished, Active, Issued
<1> QED BY <1>6, <1>7

LEMMA CommitStep == IInv /\ (\E r \in Request : Commit(r)) => IInv'
<1> SUFFICES ASSUME IInv, NEW r \in Request, Commit(r)
             PROVE  IInv'
  OBVIOUS
<1>1. TypeOK /\ Phase(r)
  BY DEF IInv, PhaseInv
<1>2. /\ pc[r] = "flushed" /\ pc' = [pc EXCEPT ![r] = "committed"] /\ reply' = reply
      /\ UNCHANGED <<inputs, fresh>>
  BY DEF Commit, Goes
<1>3. TypeOK'
  <2>1. role' \in [Key -> Role \cup {"none"}] /\ rotatedFrom' \in [Key -> Key \cup {NoKey}]
    BY <1>1, CommitRows DEF TypeOK
  <2>2. revokedAt' \in [Key -> Request \cup {Nobody}]
    BY <1>1, CommitRows DEF TypeOK
  <2> QED BY <1>1, <1>2, <2>1, <2>2 DEF TypeOK, inputs, Place
<1>4. PhaseInv' /\ RowInv'
  BY CommitPhase, CommitTable DEF PhaseInv
<1>5. DrawnInv'
  <2>1. \A q \in Request : Issued(target[q]) => Issued(target[q])'
    BY <1>2, CommitKeeps DEF Issued, inputs
  <2> QED BY <1>2, <2>1 DEF IInv, DrawnInv, inputs, Issued
<1>6. EndedInv'
  <2>1. \A k \in Key : Over(k) => Over(k)'
    BY <1>2, CommitEnds DEF Over, Active, inputs
  <2> QED BY <1>1, <1>2, <2>1 DEF IInv, EndedInv, inputs, TypeOK
<1>7. NoLateAccess'
  BY <1>1, <1>2 DEF IInv, NoLateAccess, LetIn, inputs, TypeOK
<1> QED BY <1>3, <1>4, <1>5, <1>6, <1>7 DEF IInv

-----------------------------------------------------------------------------
(* Theorems.                                                               *)

LEMMA KeyStep == IInv /\ [Next]_vars => IInv'
<1> SUFFICES ASSUME IInv, [Next]_vars PROVE IInv'
  OBVIOUS
<1>1. ASSUME UNCHANGED vars PROVE IInv'
  BY <1>1 DEF vars, rows, inputs, IInv, TypeOK, RowInv, PhaseInv, Phase, DrawnInv, EndedInv,
              Over, Active, NoLateAccess, LetIn, Issued, Finished, Granted, Issues, Ends
<1>2. ASSUME NEW r \in Request, Handle(r) PROVE IInv'
  BY <1>2, ArriveStep, AuthenticateStep, FindStep, LeaveStep, FlushStep, CommitStep DEF Handle
<1> QED BY <1>1, <1>2 DEF Next, Done

LEMMA KeysInductive == Spec => []IInv
BY KeyInit, KeyStep, PTL DEF Spec

(* Types, for any number of requests and keys. *)
THEOREM TypeCorrect == Spec => []TypeOK
BY KeysInductive, PTL DEF IInv

(* Once the end of a key was answered, no request that comes later is let  *)
(* in with it (rbac.py, get_current_principal).                            *)
THEOREM EndedKeysLetNobodyIn == Spec => []NoLateAccess
BY KeysInductive, PTL DEF IInv

(* Rotation is atomic, and keeps the role, however rotations overlap.      *)
THEOREM RotationAtomic == Spec => []ReplacedIsRevoked
<1>1. IInv => ReplacedIsRevoked
  BY DEF IInv, RowInv, ReplacedIsRevoked
<1> QED BY <1>1, KeysInductive, PTL

(* The answers of the administration are true and stay true, the failed    *)
(* assertion of rotate_api_key among them: it means that another request   *)
(* ended the new key, and the rotation stands.                             *)
THEOREM AnswersAlwaysHold == Spec => []AnswersHold
<1>1. IInv => AnswersHold
  BY DEF IInv, PhaseInv, Phase, Finished, Issued, AnswersHold
<1> QED BY <1>1, KeysInductive, PTL

LEMMA LifecycleStep ==
    ASSUME IInv, [Next]_vars
    PROVE  [Lifecycle!LifecycleNext]_(Lifecycle!lifecycleVars)
<1> DEFINE live == {k \in Key : role[k] # "none" /\ revokedAt[k] = Nobody}
           retired == {k \in Key : revokedAt[k] # Nobody}
<1>1. ASSUME UNCHANGED rows PROVE UNCHANGED Lifecycle!lifecycleVars
  BY <1>1 DEF rows, Lifecycle!lifecycleVars
<1>2. ASSUME NEW r \in Request, Commit(r)
      PROVE  [Lifecycle!LifecycleNext]_(Lifecycle!lifecycleVars)
  <2>0. TypeOK /\ RowInv /\ Phase(r)
    BY DEF IInv, PhaseInv
  <2>1. CASE op[r] = "create"
    <3>1. /\ fresh[r] \in Key /\ fresh[r] \notin live \cup retired
          /\ role' = [role EXCEPT ![fresh[r]] = Granted(r)] /\ Granted(r) # "none"
          /\ revokedAt' = revokedAt
      BY <1>2, <2>0, <2>1, CommitRows DEF Issues, Ends, RowInv, Role
    <3>2. live' = live \cup {fresh[r]} /\ retired' = retired
      BY <2>0, <3>1 DEF TypeOK, RowInv
    <3> QED
      BY <3>1, <3>2 DEF Lifecycle!LifecycleNext, Lifecycle!Issue, Lifecycle!New
  <2>2. CASE op[r] = "revoke"
    <3>1. /\ Issued(target[r]) /\ revokedAt' = [revokedAt EXCEPT ![target[r]] = r]
          /\ role' = role
      BY <1>2, <2>2, CommitRows DEF Issues, Ends
    <3>2. live' = live \ {target[r]} /\ retired' = retired \cup {target[r]}
      BY <2>0, <3>1, KeyAssumption DEF TypeOK, Issued
    <3>3. CASE target[r] \in live
      BY <3>1, <3>2, <3>3 DEF Lifecycle!LifecycleNext, Lifecycle!Retire, Issued
    <3>4. CASE target[r] \notin live
      <4>1. live' = live /\ retired' = retired
        BY <3>1, <3>2, <3>4 DEF Issued
      <4> QED BY <4>1 DEF Lifecycle!lifecycleVars
    <3> QED BY <3>3, <3>4
  <2>3. CASE op[r] = "rotate"
    <3>1. /\ fresh[r] \in Key /\ fresh[r] \notin live \cup retired
          /\ role' = [role EXCEPT ![fresh[r]] = Granted(r)] /\ Granted(r) # "none"
          /\ Issued(target[r]) /\ revokedAt' = [revokedAt EXCEPT ![target[r]] = r]
          /\ fresh[r] # target[r]
      BY <1>2, <2>0, <2>3, CommitRows DEF Issues, Ends, RowInv, Role, Issued
    <3>2. /\ live' = (live \ {target[r]}) \cup {fresh[r]}
          /\ retired' = retired \cup {target[r]}
      BY <2>0, <3>1, KeyAssumption DEF TypeOK, RowInv, Issued
    <3>3. CASE target[r] \in live
      BY <3>1, <3>2, <3>3
         DEF Lifecycle!LifecycleNext, Lifecycle!Replace, Lifecycle!New, Issued
    <3>4. CASE target[r] \notin live
      <4>1. live' = live \cup {fresh[r]} /\ retired' = retired
        BY <3>1, <3>2, <3>4 DEF Issued
      <4> QED BY <3>1, <4>1 DEF Lifecycle!LifecycleNext, Lifecycle!Issue, Lifecycle!New
    <3> QED BY <3>3, <3>4
  <2>4. CASE op[r] \notin {"create", "rotate", "revoke"}
    BY <1>1, <1>2, <2>4, CommitRows DEF Issues, Ends, rows
  <2> QED BY <2>1, <2>2, <2>3, <2>4
<1> QED
  BY <1>1, <1>2
     DEF Next, Handle, Done, vars, Arrive, Authenticate, Refuse, Find, FindNothing, Flush,
         Respond, Lose

(* Concurrent administration keeps every key on its life cycle: it comes   *)
(* once, goes once and stays gone.                                         *)
THEOREM KeysFollowLifecycle == Spec => KeepsLifecycle
<1>1. Init => Lifecycle!LifecycleInit
  BY KeyAssumption DEF Init, Lifecycle!LifecycleInit
<1> QED
  BY <1>1, KeysInductive, LifecycleStep, PTL
     DEF Spec, KeepsLifecycle, Lifecycle!LifecycleSpec

=============================================================================
