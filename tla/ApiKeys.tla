------------------------------ MODULE ApiKeys ------------------------------
(***************************************************************************)
(* API keys: ApiKeyStore (tenancy/api_keys.py), get_current_principal      *)
(* (tenancy/rbac.py) and the endpoints of api/routes_admin.py, called by   *)
(* concurrent requests.                                                    *)
(*                                                                         *)
(* Each request has one transaction, under READ COMMITTED: a SELECT sees   *)
(* what is committed when it runs, an UPDATE locks its row until the       *)
(* commit, and one that waited for the lock finds its row by id alone and  *)
(* updates it, whatever the other transaction made of it.                  *)
(***************************************************************************)
CONSTANTS
    Request,
    Key,         \* ids _new_key_id can draw
    NoKey,
    Bootstrap,   \* the admin key of scripts/seed.py
    Nobody,
    Grants       \* roles that are asked for

Role == {"viewer", "developer", "admin"}

ASSUME KeyAssumption ==
    /\ Bootstrap \in Key /\ NoKey \notin Key
    /\ Nobody \notin Request
    /\ Grants \subseteq Role

VARIABLES
    (* The committed rows of api_keys. *)
    role,         \* "none" where there is no row
    rotatedFrom,
    revokedAt,    \* NULL is Nobody; a time is the request that took it
    (* The requests. *)
    pc,
    op,
    token,        \* the key a request authenticates with
    target,       \* the key it is about
    asked,        \* the role of the key it is to create
    fresh,        \* the key it has drawn
    reply,
    (* Not state of the code: *)
    ended         \* keys whose end was answered before the request came

rows == <<role, rotatedFrom, revokedAt>>
inputs == <<op, token, target, asked, ended>>
vars == <<rows, inputs, pc, fresh, reply>>

Op == {"none", "use", "create", "rotate", "revoke"}
Place == {"idle", "arrived", "admitted", "found", "flushed", "committed", "done"}
Reply == {"none", "refused", "not_found", "ok", "assertion", "lost"}

TypeOK ==
    /\ role \in [Key -> Role \cup {"none"}]
    /\ rotatedFrom \in [Key -> Key \cup {NoKey}]
    /\ revokedAt \in [Key -> Request \cup {Nobody}]
    /\ pc \in [Request -> Place]
    /\ op \in [Request -> Op]
    /\ token \in [Request -> Key \cup {NoKey}]
    /\ target \in [Request -> Key \cup {NoKey}]
    /\ asked \in [Request -> Role]
    /\ fresh \in [Request -> Key \cup {NoKey}]
    /\ reply \in [Request -> Reply]
    /\ ended \in [Request -> SUBSET Key]

Init ==
    /\ role = [k \in Key |-> IF k = Bootstrap THEN "admin" ELSE "none"]
    /\ rotatedFrom = [k \in Key |-> NoKey]
    /\ revokedAt = [k \in Key |-> Nobody]
    /\ pc = [r \in Request |-> "idle"]
    /\ op = [r \in Request |-> "none"]
    /\ token = [r \in Request |-> NoKey]
    /\ target = [r \in Request |-> NoKey]
    /\ asked = [r \in Request |-> "viewer"]
    /\ fresh = [r \in Request |-> NoKey]
    /\ reply = [r \in Request |-> "none"]
    /\ ended = [r \in Request |-> {}]

-----------------------------------------------------------------------------
(* Mutant: the filter on revoked_at is forgotten. *)
ActiveOrRevoked(k) == role[k] # "none"

(* find_active *)
Active(k) == role[k] # "none" /\ revokedAt[k] = Nobody

Issues(r) == op[r] \in {"create", "rotate"}
Ends(r) == op[r] \in {"rotate", "revoke"}

(* What a request can authenticate with: a secret is told in one response  *)
(* and nowhere else.                                                       *)
Known == {Bootstrap} \cup {fresh[r] : r \in {q \in Request : Issues(q) /\ reply[q] = "ok"}}

AnsweredEnded == {target[r] : r \in {q \in Request : Ends(q) /\ reply[q] = "ok"}}

(* What an endpoint can be asked about: any id, issued or not, but those   *)
(* drawn and not committed.  The id of a committed row is no secret: a run *)
(* reads it with sql_query_readonly, before the rotation has answered.     *)
Nameable(k) == role[k] # "none" \/ \A r \in Request : fresh[r] # k

(* _new_key_id: twelve random hex digits, taken to be of no id that was    *)
(* drawn or named before.                                                  *)
Drawn(k) == role[k] = "none" /\ \A r \in Request : fresh[r] # k /\ target[r] # k

(* Another transaction has updated the row of k and not committed. *)
Locked(k) == \E r \in Request : pc[r] = "flushed" /\ Ends(r) /\ target[r] = k

Goes(r, place) ==
    /\ pc' = [pc EXCEPT ![r] = place]
    /\ UNCHANGED reply

Leave(r, answer) ==
    /\ pc' = [pc EXCEPT ![r] = "done"]
    /\ reply' = [reply EXCEPT ![r] = answer]

-----------------------------------------------------------------------------
Arrive(r) ==
    /\ pc[r] = "idle"
    /\ Goes(r, "arrived")
    /\ \E o \in Op \ {"none"} :
        /\ op' = [op EXCEPT ![r] = o]
        /\ \E k \in (IF o \in {"rotate", "revoke"} THEN {j \in Key : Nameable(j)}
                    ELSE {NoKey}) :
               target' = [target EXCEPT ![r] = k]
        /\ \E g \in (IF o = "create" THEN Grants ELSE {"viewer"}) :
               asked' = [asked EXCEPT ![r] = g]
    /\ \E k \in Known : token' = [token EXCEPT ![r] = k]
    /\ ended' = [ended EXCEPT ![r] = AnsweredEnded]
    /\ UNCHANGED <<rows, fresh>>

MayAsk(r) == op[r] = "use" \/ role[token[r]] = "admin"

(* authenticate and require_role.  Of an endpoint that is not of the       *)
(* administration no more is modelled.                                     *)
Authenticate(r) ==
    /\ pc[r] = "arrived"
    /\ Active(token[r]) /\ MayAsk(r)
    /\ IF op[r] = "use" THEN Leave(r, "ok") ELSE Goes(r, "admitted")
    /\ UNCHANGED <<rows, inputs, fresh>>

(* 401 or 403. *)
Refuse(r) ==
    /\ pc[r] = "arrived"
    /\ ~(Active(token[r]) /\ MayAsk(r))
    /\ Leave(r, "refused")
    /\ UNCHANGED <<rows, inputs, fresh>>

(* The SELECT of rotate and of revoke. *)
Find(r) ==
    /\ pc[r] = "admitted" /\ Ends(r)
    /\ Active(target[r])
    /\ Goes(r, "found")
    /\ UNCHANGED <<rows, inputs, fresh>>

(* A revoke that finds no row, or a revoked one, commits nothing and       *)
(* answers 204.                                                            *)
FindNothing(r) ==
    /\ pc[r] = "admitted" /\ Ends(r)
    /\ ~Active(target[r])
    /\ IF op[r] = "rotate" THEN Leave(r, "not_found") ELSE Goes(r, "committed")
    /\ UNCHANGED <<rows, inputs, fresh>>

Flush(r) ==
    /\ IF op[r] = "create" THEN pc[r] = "admitted"
       ELSE pc[r] = "found" /\ ~Locked(target[r])
    /\ Goes(r, "flushed")
    /\ IF Issues(r) THEN \E k \in Key : Drawn(k) /\ fresh' = [fresh EXCEPT ![r] = k]
       ELSE UNCHANGED fresh
    /\ UNCHANGED <<rows, inputs>>

(* The role of the key r issues: as asked, or that of the key it replaces. *)
Granted(r) == IF op[r] = "create" THEN asked[r] ELSE role[target[r]]

(* Mutant: revoked_at takes who instead of when. *)
RevokedByWhom(r) == IF Ends(r) THEN [revokedAt EXCEPT ![target[r]] = token[r]] ELSE revokedAt

(* Mutant: rotation leaves the old key as it is. *)
RevokedUnlessRotated(r) ==
    IF op[r] = "revoke" THEN [revokedAt EXCEPT ![target[r]] = r] ELSE revokedAt

(* Mutant: revoke_api_key forgets its commit. *)
RevokedByRotationOnly(r) ==
    IF op[r] = "rotate" THEN [revokedAt EXCEPT ![target[r]] = r] ELSE revokedAt

(* Mutant: rotation stamps the new key. *)
RevokedNewKey(r) ==
    IF Ends(r) THEN [revokedAt EXCEPT ![IF Issues(r) THEN fresh[r] ELSE target[r]] = r]
    ELSE revokedAt

(* revoked_at once r has committed. *)
Revoked(r) == IF Ends(r) THEN [revokedAt EXCEPT ![target[r]] = r] ELSE revokedAt

Commit(r) ==
    /\ pc[r] = "flushed"
    /\ Goes(r, "committed")
    /\ revokedAt' = Revoked(r)
    /\ IF Issues(r)
       THEN /\ role' = [role EXCEPT ![fresh[r]] = Granted(r)]
            /\ rotatedFrom' = [rotatedFrom EXCEPT ![fresh[r]] = target[r]]
       ELSE UNCHANGED <<role, rotatedFrom>>
    /\ UNCHANGED <<inputs, fresh>>

(* rotate_api_key reads the new row again and asserts that it is there; it *)
(* is not if another request has ended the new key since the commit.       *)
Respond(r) ==
    /\ pc[r] = "committed"
    /\ Leave(r, IF op[r] = "rotate" /\ ~Active(fresh[r]) THEN "assertion" ELSE "ok")
    /\ UNCHANGED <<rows, inputs, fresh>>

(* The process dies, or the response does not arrive. *)
Lose(r) ==
    /\ pc[r] \notin {"idle", "done"}
    /\ Leave(r, "lost")
    /\ UNCHANGED <<rows, inputs, fresh>>

Handle(r) ==
    \/ Arrive(r)
    \/ Authenticate(r)
    \/ Refuse(r)
    \/ Find(r)
    \/ FindNothing(r)
    \/ Flush(r)
    \/ Commit(r)
    \/ Respond(r)
    \/ Lose(r)

Done == (\A r \in Request : pc[r] = "done") /\ UNCHANGED vars

Next == (\E r \in Request : Handle(r)) \/ Done

Spec == Init /\ [][Next]_vars

-----------------------------------------------------------------------------
(* Properties.                                                             *)

(* A request that came after the revocation or rotation of its key was     *)
(* answered is let in by no instance: the row is read on every request     *)
(* and every answer comes after its commit (docs/threat-model.md, E3).     *)
LetIn(r) ==
    \/ pc[r] \in {"admitted", "found", "flushed", "committed"}
    \/ reply[r] \in {"ok", "not_found", "assertion"}

NoLateAccess == \A r \in Request : LetIn(r) => token[r] \notin ended[r]

(* Rotation is atomic: whoever sees a successor sees its predecessor       *)
(* revoked, and the successor has the predecessor's role, even where two   *)
(* rotations or a rotation and a revocation of the key overlapped.         *)
ReplacedIsRevoked ==
    \A k \in Key :
        LET old == rotatedFrom[k]
        IN  old # NoKey => revokedAt[old] # Nobody /\ role[old] = role[k]

(* An answer is true when it is given and stays true: a key whose end was  *)
(* answered lets nobody in, though the revocation may have found nothing,  *)
(* and a key that was handed out has the role asked for, or that of the    *)
(* key it replaces.  A rotation that answers with the failed assertion has *)
(* done the same, and only another request can have ended its new key.     *)
AnswersHold ==
    \A r \in Request :
        /\ reply[r] \in {"ok", "assertion"} /\ Ends(r) => ~Active(target[r])
        /\ reply[r] \in {"ok", "assertion"} /\ Issues(r) =>
               role[fresh[r]] = Granted(r)
        /\ reply[r] = "assertion" => revokedAt[fresh[r]] \notin {Nobody, r}

(* The table keeps the life cycle of KeyLifecycle: a key comes once, goes  *)
(* once, and stays gone, though concurrent updates overwrite one another.  *)
Lifecycle ==
    INSTANCE KeyLifecycle WITH
        live    <- {k \in Key : role[k] # "none" /\ revokedAt[k] = Nobody},
        retired <- {k \in Key : revokedAt[k] # Nobody}

KeepsLifecycle == Lifecycle!LifecycleSpec

=============================================================================
