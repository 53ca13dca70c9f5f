------------------------------ MODULE PKDServer ------------------------------
(***************************************************************************)
(* The protocol endpoint of the public key directory: POST /api/...        *)
(* requests served concurrently, one goroutine each, over one database and *)
(* one external SigSum transparency log.  Every handler of                 *)
(* internal/api/protocol_actions.go has the same three phases, and nothing *)
(* protects the gaps between them:                                         *)
(*   1. validate  -- a non-transactional read of the actor's live keys and *)
(*                   the signature check against that snapshot;            *)
(*   2. submit    -- the message goes to the SigSum log, which answers with*)
(*                   the Merkle root that names it from then on;           *)
(*   3. process   -- one database transaction of internal/domain/service.go*)
(* A transaction is one step here (SQLite serialises writers); the         *)
(* statements of a Postgres READ COMMITTED transaction are another model.  *)
(*                                                                         *)
(* Tables are sequences: the AUTOINCREMENT id of a row is its index.       *)
(***************************************************************************)
EXTENDS Integers, Sequences, FiniteSets

CONSTANTS
    Actors,     \* actor ids (URLs)
    Keys,       \* public-key strings that occur in messages
    Malformed,  \* the strings of Keys that crypto.DecodePublicKey rejects
    Enrolled,   \* operators with a row in totp_secrets
    Times,      \* time and recent-merkle-root of a message: what makes two
                \* signatures over otherwise equal messages differ
    Messages,   \* the messages clients send
    Shreddable, \* actors the administrator may crypto-shred
    Slots,      \* requests in flight (goroutines)
    Faults,     \* which faults happen, a subset of FaultKinds
    MaxLog,     \* BOUND: messages ever submitted to the log
    NoRoot,     \* SQL NULL in a revoke_root column, and no root yet
    AdminRoot,  \* the "admin-shred-..." roots, which name no log entry
    NoMsg       \* an idle request slot

(***************************************************************************)
(* Messages.  signer is the key whose signature the message carries: who   *)
(* can sign owns a well-formed key.  otp: the OTP is present and valid.    *)
(* valid: the auxiliary-data validator accepts the data.  symmetric_keys:  *)
(* absent, decodable base64url, or not.                                    *)
(***************************************************************************)
Signers == Keys \ Malformed

KeyMessage == [action : {"AddKey", "RevokeKey"}, actor : Actors, public_key : Keys,
               symmetric_keys : {"none", "ok", "bad"}, signer : Signers, time : Times]
MoveIdentityMessage == [action : {"MoveIdentity"}, old_actor : Actors,
                        new_actor : Actors, signer : Signers, time : Times]
BurnDownMessage == [action : {"BurnDown"}, actor : Actors, operator : Actors,
                    otp : BOOLEAN, signer : Signers, time : Times]
FireproofMessage == [action : {"Fireproof", "UndoFireproof"}, actor : Actors,
                     signer : Signers, time : Times]
AddAuxDataMessage == [action : {"AddAuxData"}, actor : Actors, valid : BOOLEAN,
                      signer : Signers, time : Times]
RevokeAuxDataMessage == [action : {"RevokeAuxData"}, actor : Actors, aux_id : Nat,
                         signer : Signers, time : Times]

Message == KeyMessage \cup MoveIdentityMessage \cup BurnDownMessage \cup
           FireproofMessage \cup AddAuxDataMessage \cup RevokeAuxDataMessage

FaultKinds == {"refused", "unanswered", "database", "crash"}

ASSUME ConstantsAssumption ==
    /\ Malformed \subseteq Keys
    /\ Enrolled \subseteq Actors
    /\ Shreddable \subseteq Actors
    /\ Messages \subseteq Message
    /\ NoMsg \notin Message
    /\ Faults \subseteq FaultKinds
    /\ MaxLog \in Nat
    /\ NoRoot \notin Nat
    /\ AdminRoot \notin Nat
    /\ AdminRoot # NoRoot

VARIABLES
    actors,          \* table actors: actor_id, is_fireproof
    public_keys,     \* table public_keys; revoked_at is NULL iff revoke_root is
    auxiliary_data,  \* table auxiliary_data
    symmetric_keys,  \* message_hash values that have rows in symmetric_keys
    log,             \* the SigSum log (external); an entry's root is its index
    pc,              \* phase of each request slot
    msg,             \* the message each slot handles
    root             \* the root SigSum returned to each slot

database == <<actors, public_keys, auxiliary_data, symmetric_keys>>
requests == <<pc, msg, root>>
vars == <<actors, public_keys, auxiliary_data, symmetric_keys, log, pc, msg, root>>

ActorRow == [actor_id : Actors, is_fireproof : BOOLEAN]
KeyRow == [actor_id : Nat, public_key : Keys, merkle_root : Nat,
           revoke_root : Nat \cup {NoRoot, AdminRoot}]
AuxRow == [actor_id : Nat, merkle_root : Nat, revoke_root : Nat \cup {NoRoot}]

Init ==
    /\ actors = <<>>
    /\ public_keys = <<>>
    /\ auxiliary_data = <<>>
    /\ symmetric_keys = {}
    /\ log = <<>>
    /\ pc = [s \in Slots |-> "idle"]
    /\ msg = [s \in Slots |-> NoMsg]
    /\ root = [s \in Slots |-> NoRoot]

-----------------------------------------------------------------------------
(* Reads of the database.  A definition whose name ends in _mut is its      *)
(* neighbour with a plausible bug: the properties are checked to notice it.  *)

\* The filter on revoked_at is forgotten.
ListKeysForActor_mut(a) ==
    {i \in DOMAIN public_keys : actors[public_keys[i].actor_id].actor_id = a}

\* The ids of the non-revoked keys of the actor named a.
ListKeysForActor(a) ==
    {i \in DOMAIN public_keys : /\ actors[public_keys[i].actor_id].actor_id = a
                                /\ public_keys[i].revoke_root = NoRoot}

ActorExists(a) == \E i \in DOMAIN actors : actors[i].actor_id = a

\* The id of the actor named a in an actors table that has one.
ActorID(table, a) == CHOOSE i \in DOMAIN table : table[i].actor_id = a

\* The filter on public_key is forgotten.
FindKeyToRevoke_mut_any(a, k) == ListKeysForActor(a)

\* The filter on revoked_at is forgotten.
FindKeyToRevoke_mut_revoked(a, k) ==
    {i \in DOMAIN public_keys : /\ actors[public_keys[i].actor_id].actor_id = a
                                /\ public_keys[i].public_key = k}

\* The rows FindKeyToRevoke may return: it reads any one of the matches.
FindKeyToRevoke(a, k) == {i \in ListKeysForActor(a) : public_keys[i].public_key = k}

\* The second half of the UNION is forgotten.
GetMessageHashesForActor_mut(r) ==
    {public_keys[i].merkle_root : i \in {j \in DOMAIN public_keys : public_keys[j].actor_id = r}}

\* Every root under which a key of actor row r was added or revoked.
GetMessageHashesForActor(r) ==
    LET rows == {i \in DOMAIN public_keys : public_keys[i].actor_id = r}
    IN  {public_keys[i].merkle_root : i \in rows}
          \cup ({public_keys[i].revoke_root : i \in rows} \ {NoRoot})

\* The row a RevokeAuxData statement updates, if any.
LiveAux(a) == {i \in DOMAIN auxiliary_data :
                  /\ actors[auxiliary_data[i].actor_id].actor_id = a
                  /\ auxiliary_data[i].revoke_root = NoRoot}

(* Writes.                                                                 *)

GetOrCreateActor(a) ==
    IF ActorExists(a) THEN actors
                      ELSE Append(actors, [actor_id |-> a, is_fireproof |-> FALSE])

\* The root of the enrolment is written again in place of the revocation's.
RevokeKey_mut(i, r) == [public_keys EXCEPT ![i].revoke_root = public_keys[i].merkle_root]

RevokeKey(i, r) == [public_keys EXCEPT ![i].revoke_root = r]

\* Keys already revoked are revoked again.
RevokeAllKeysForActor_mut(id, r) ==
    [i \in DOMAIN public_keys |->
        IF public_keys[i].actor_id = id THEN [public_keys[i] EXCEPT !.revoke_root = r]
                                        ELSE public_keys[i]]

RevokeAllKeysForActor(id, r) ==
    [i \in DOMAIN public_keys |->
        IF public_keys[i].actor_id = id /\ public_keys[i].revoke_root = NoRoot
        THEN [public_keys[i] EXCEPT !.revoke_root = r]
        ELSE public_keys[i]]

StoreSymmetricKeys(m, r) ==
    IF m.symmetric_keys = "ok" THEN symmetric_keys \cup {r} ELSE symmetric_keys

-----------------------------------------------------------------------------
(* Phase 1: validation against a snapshot of the live keys.                *)

\* The signature verifies under one of the live keys of the actor named a.
SignedByKeyOf(m, a) == \E i \in ListKeysForActor(a) : public_keys[i].public_key = m.signer

\* The bound: every accepted request may still add its log entry.
LogHasRoom == Len(log) + Cardinality({t \in Slots : pc[t] = "validated"}) < MaxLog

\* A free goroutine takes a message of the given action that passes validation.
Accept(s, m) ==
    /\ pc[s] = "idle"
    /\ LogHasRoom
    /\ pc' = [pc EXCEPT ![s] = "validated"]
    /\ msg' = [msg EXCEPT ![s] = m]
    /\ UNCHANGED <<database, log, root>>

\* Later keys are not checked for a signature.
ValidateAddKey_mut(s, m) ==
    /\ m.action = "AddKey"
    /\ ListKeysForActor(m.actor) = {} => m.signer = m.public_key
    /\ Accept(s, m)

\* The first key signs itself; a later one is signed by any live key.  Only the
\* self-signed key is decoded: a later key may be malformed.
ValidateAddKey(s, m) ==
    /\ m.action = "AddKey"
    /\ IF ListKeysForActor(m.actor) = {} THEN m.signer = m.public_key
                                         ELSE SignedByKeyOf(m, m.actor)
    /\ Accept(s, m)

\* The key being revoked may sign.
ValidateRevokeKey_mut(s, m) ==
    /\ m.action = "RevokeKey"
    /\ Cardinality(ListKeysForActor(m.actor)) >= 2
    /\ m.public_key \notin Malformed
    /\ SignedByKeyOf(m, m.actor)
    /\ Accept(s, m)

\* Two live keys at least, and the signer is not the key being revoked.
ValidateRevokeKey(s, m) ==
    /\ m.action = "RevokeKey"
    /\ Cardinality(ListKeysForActor(m.actor)) >= 2
    /\ m.public_key \notin Malformed
    /\ m.signer # m.public_key
    /\ SignedByKeyOf(m, m.actor)
    /\ Accept(s, m)

ValidateMoveIdentity(s, m) ==
    /\ m.action = "MoveIdentity"
    /\ SignedByKeyOf(m, m.old_actor)
    /\ Accept(s, m)

\* Signed by the operator, with a one-time password if the operator enrolled one.
ValidateBurnDown(s, m) ==
    /\ m.action = "BurnDown"
    /\ SignedByKeyOf(m, m.operator)
    /\ m.operator \in Enrolled => m.otp
    /\ Accept(s, m)

\* The signature is not checked.
ValidateFireproof_mut(s, m) ==
    /\ m.action = "Fireproof"
    /\ ActorExists(m.actor)
    /\ Accept(s, m)

ValidateFireproof(s, m) ==
    /\ m.action = "Fireproof"
    /\ SignedByKeyOf(m, m.actor)
    /\ Accept(s, m)

ValidateUndoFireproof(s, m) ==
    /\ m.action = "UndoFireproof"
    /\ SignedByKeyOf(m, m.actor)
    /\ Accept(s, m)

ValidateAddAuxData(s, m) ==
    /\ m.action = "AddAuxData"
    /\ SignedByKeyOf(m, m.actor)
    /\ Accept(s, m)

ValidateRevokeAuxData(s, m) ==
    /\ m.action = "RevokeAuxData"
    /\ SignedByKeyOf(m, m.actor)
    /\ Accept(s, m)

-----------------------------------------------------------------------------
(* Phase 2: submission to the SigSum log.                                  *)

\* The request is handled again after it was done.
Finish_mut(s) == UNCHANGED requests

\* The request ends, with a response or without one.
Finish(s) ==
    /\ pc' = [pc EXCEPT ![s] = "idle"]
    /\ msg' = [msg EXCEPT ![s] = NoMsg]
    /\ root' = [root EXCEPT ![s] = NoRoot]

\* The root is the tree head as it was before the submission.
SubmitMessage_mut(s) ==
    /\ pc[s] = "validated"
    /\ log' = Append(log, msg[s])
    /\ root' = [root EXCEPT ![s] = Len(log)]
    /\ pc' = [pc EXCEPT ![s] = "logged"]
    /\ UNCHANGED <<database, msg>>

\* The log accepts the message and its root comes back.
SubmitMessage(s) ==
    /\ pc[s] = "validated"
    /\ log' = Append(log, msg[s])
    /\ root' = [root EXCEPT ![s] = Len(log')]
    /\ pc' = [pc EXCEPT ![s] = "logged"]
    /\ UNCHANGED <<database, msg>>

\* The log was not reached or answered with an error: 500, nothing logged.
SubmitRefused(s) ==
    /\ "refused" \in Faults
    /\ pc[s] = "validated"
    /\ Finish(s)
    /\ UNCHANGED <<database, log>>

\* The log accepted the message, and its answer was lost: 500, yet logged.
SubmitUnanswered(s) ==
    /\ "unanswered" \in Faults
    /\ pc[s] = "validated"
    /\ log' = Append(log, msg[s])
    /\ Finish(s)
    /\ UNCHANGED database

-----------------------------------------------------------------------------
(* Phase 3: the database transaction of each action.                       *)

Processing(s, action) == pc[s] = "logged" /\ msg[s].action = action

\* The symmetric keys are decoded only now: 400 for a message already logged.
RejectSymmetricKeys(s) ==
    /\ pc[s] = "logged"
    /\ msg[s].action \in {"AddKey", "RevokeKey"}
    /\ msg[s].symmetric_keys = "bad"
    /\ Finish(s)
    /\ UNCHANGED <<database, log>>

ProcessAddKey(s) ==
    /\ Processing(s, "AddKey")
    /\ msg[s].symmetric_keys # "bad"
    /\ actors' = GetOrCreateActor(msg[s].actor)
    /\ public_keys' = Append(public_keys,
          [actor_id    |-> ActorID(actors', msg[s].actor),
           public_key  |-> msg[s].public_key,
           merkle_root |-> root[s],
           revoke_root |-> NoRoot])
    /\ symmetric_keys' = StoreSymmetricKeys(msg[s], root[s])
    /\ Finish(s)
    /\ UNCHANGED <<auxiliary_data, log>>

\* The symmetric keys are stored under the root of the key's enrolment.
ProcessRevokeKey_mut(s) ==
    /\ Processing(s, "RevokeKey")
    /\ msg[s].symmetric_keys # "bad"
    /\ \E i \in FindKeyToRevoke(msg[s].actor, msg[s].public_key) :
          /\ public_keys' = RevokeKey(i, root[s])
          /\ symmetric_keys' = StoreSymmetricKeys(msg[s], public_keys[i].merkle_root)
    /\ Finish(s)
    /\ UNCHANGED <<actors, auxiliary_data, log>>

ProcessRevokeKey(s) ==
    /\ Processing(s, "RevokeKey")
    /\ msg[s].symmetric_keys # "bad"
    /\ \E i \in FindKeyToRevoke(msg[s].actor, msg[s].public_key) :
          public_keys' = RevokeKey(i, root[s])
    /\ symmetric_keys' = StoreSymmetricKeys(msg[s], root[s])
    /\ Finish(s)
    /\ UNCHANGED <<actors, auxiliary_data, log>>

\* The new name is not checked to be free.
ProcessMoveIdentity_mut(s) ==
    /\ Processing(s, "MoveIdentity")
    /\ ActorExists(msg[s].old_actor)
    /\ actors' = [actors EXCEPT ![ActorID(actors, msg[s].old_actor)].actor_id = msg[s].new_actor]
    /\ Finish(s)
    /\ UNCHANGED <<public_keys, auxiliary_data, symmetric_keys, log>>

ProcessMoveIdentity(s) ==
    /\ Processing(s, "MoveIdentity")
    /\ ~ActorExists(msg[s].new_actor)
    /\ ActorExists(msg[s].old_actor)
    /\ actors' = [actors EXCEPT ![ActorID(actors, msg[s].old_actor)].actor_id = msg[s].new_actor]
    /\ Finish(s)
    /\ UNCHANGED <<public_keys, auxiliary_data, symmetric_keys, log>>

\* The transaction BurnDown and the administrator's crypto-shred share.
BurnDown(a, r) ==
    LET id == ActorID(actors, a)
    IN  /\ symmetric_keys' = symmetric_keys \ GetMessageHashesForActor(id)
        /\ public_keys' = RevokeAllKeysForActor(id, r)

\* The operator's account burns instead of the actor's.
ProcessBurnDown_mut(s) ==
    /\ Processing(s, "BurnDown")
    /\ ActorExists(msg[s].operator)
    /\ BurnDown(msg[s].operator, root[s])
    /\ Finish(s)
    /\ UNCHANGED <<actors, auxiliary_data, log>>

ProcessBurnDown(s) ==
    /\ Processing(s, "BurnDown")
    /\ ActorExists(msg[s].actor)
    /\ BurnDown(msg[s].actor, root[s])
    /\ Finish(s)
    /\ UNCHANGED <<actors, auxiliary_data, log>>

\* One UPDATE by name, outside any transaction.
SetFireproof(s, flag) ==
    /\ ActorExists(msg[s].actor)
    /\ actors' = [actors EXCEPT ![ActorID(actors, msg[s].actor)].is_fireproof = flag]
    /\ Finish(s)
    /\ UNCHANGED <<public_keys, auxiliary_data, symmetric_keys, log>>

ProcessFireproof(s) == Processing(s, "Fireproof") /\ SetFireproof(s, TRUE)

ProcessUndoFireproof(s) == Processing(s, "UndoFireproof") /\ SetFireproof(s, FALSE)

ProcessAddAuxData(s) ==
    /\ Processing(s, "AddAuxData")
    /\ msg[s].valid
    /\ actors' = GetOrCreateActor(msg[s].actor)
    /\ auxiliary_data' = Append(auxiliary_data,
          [actor_id    |-> ActorID(actors', msg[s].actor),
           merkle_root |-> root[s],
           revoke_root |-> NoRoot])
    /\ Finish(s)
    /\ UNCHANGED <<public_keys, symmetric_keys, log>>

\* The update forgets the filter on aux_id.
ProcessRevokeAuxData_mut(s) ==
    /\ Processing(s, "RevokeAuxData")
    /\ \E i \in LiveAux(msg[s].actor) :
          auxiliary_data' = [auxiliary_data EXCEPT ![i].revoke_root = root[s]]
    /\ Finish(s)
    /\ UNCHANGED <<actors, public_keys, symmetric_keys, log>>

ProcessRevokeAuxData(s) ==
    /\ Processing(s, "RevokeAuxData")
    /\ msg[s].aux_id \in LiveAux(msg[s].actor)
    /\ auxiliary_data' = [auxiliary_data EXCEPT ![msg[s].aux_id].revoke_root = root[s]]
    /\ Finish(s)
    /\ UNCHANGED <<actors, public_keys, symmetric_keys, log>>

\* The service finds nothing to act on and rolls back: 500, yet logged.
ProcessRejected(s) ==
    /\ pc[s] = "logged"
    /\ LET m == msg[s] IN
         \/ /\ m.action = "RevokeKey"
            /\ m.symmetric_keys # "bad"
            /\ FindKeyToRevoke(m.actor, m.public_key) = {}
         \/ /\ m.action = "MoveIdentity"
            /\ ActorExists(m.new_actor) \/ ~ActorExists(m.old_actor)
         \/ /\ m.action \in {"BurnDown", "Fireproof", "UndoFireproof"}
            /\ ~ActorExists(m.actor)
         \/ m.action = "AddAuxData" /\ ~m.valid
         \/ m.action = "RevokeAuxData" /\ m.aux_id \notin LiveAux(m.actor)
    /\ Finish(s)
    /\ UNCHANGED <<database, log>>

\* The actor's row is committed although the key's insertion failed.
DatabaseFault_mut(s) ==
    /\ "database" \in Faults
    /\ pc[s] = "logged"
    /\ actors' = IF msg[s].action = "AddKey" THEN GetOrCreateActor(msg[s].actor) ELSE actors
    /\ Finish(s)
    /\ UNCHANGED <<public_keys, auxiliary_data, symmetric_keys, log>>

\* Any statement or the COMMIT fails, or the client went away: rolled back.
DatabaseFault(s) ==
    /\ "database" \in Faults
    /\ pc[s] = "logged"
    /\ Finish(s)
    /\ UNCHANGED <<database, log>>

-----------------------------------------------------------------------------
(* Outside the protocol requests.                                          *)

\* POST /admin/crypto-shred: no submission to the log, its own kind of root.
CryptoShred(a) ==
    /\ a \in Shreddable
    /\ ActorExists(a)
    /\ BurnDown(a, AdminRoot)
    /\ UNCHANGED <<actors, auxiliary_data, log, requests>>

\* The process dies and starts again: requests are gone, database and log stay.
Crash ==
    /\ "crash" \in Faults
    /\ \E s \in Slots : pc[s] # "idle"
    /\ pc' = [s \in Slots |-> "idle"]
    /\ msg' = [s \in Slots |-> NoMsg]
    /\ root' = [s \in Slots |-> NoRoot]
    /\ UNCHANGED <<database, log>>

Validate(s) ==
    \E m \in Messages :
        \/ ValidateAddKey(s, m)
        \/ ValidateRevokeKey(s, m)
        \/ ValidateMoveIdentity(s, m)
        \/ ValidateBurnDown(s, m)
        \/ ValidateFireproof(s, m)
        \/ ValidateUndoFireproof(s, m)
        \/ ValidateAddAuxData(s, m)
        \/ ValidateRevokeAuxData(s, m)

Submit(s) == SubmitMessage(s) \/ SubmitRefused(s) \/ SubmitUnanswered(s)

Process(s) ==
    \/ RejectSymmetricKeys(s)
    \/ ProcessAddKey(s)
    \/ ProcessRevokeKey(s)
    \/ ProcessMoveIdentity(s)
    \/ ProcessBurnDown(s)
    \/ ProcessFireproof(s)
    \/ ProcessUndoFireproof(s)
    \/ ProcessAddAuxData(s)
    \/ ProcessRevokeAuxData(s)
    \/ ProcessRejected(s)
    \/ DatabaseFault(s)

Next ==
    \/ \E s \in Slots : Validate(s) \/ Submit(s) \/ Process(s)
    \/ \E a \in Actors : CryptoShred(a)
    \/ Crash

Spec == Init /\ [][Next]_vars

-----------------------------------------------------------------------------
(* What holds however requests interleave, fail or are cut short.          *)

\* The tables, the log and the request slots have their shapes, and foreign keys
\* and roots point at existing rows and entries.
TypeOK ==
    /\ actors \in Seq(ActorRow)
    /\ public_keys \in Seq(KeyRow)
    /\ auxiliary_data \in Seq(AuxRow)
    /\ log \in Seq(Message)
    /\ symmetric_keys \subseteq DOMAIN log
    /\ pc \in [Slots -> {"idle", "validated", "logged"}]
    /\ msg \in [Slots -> Message \cup {NoMsg}]
    /\ root \in [Slots -> Nat \cup {NoRoot}]
    /\ \A i \in DOMAIN public_keys : public_keys[i].actor_id \in DOMAIN actors
    /\ \A i \in DOMAIN auxiliary_data : auxiliary_data[i].actor_id \in DOMAIN actors

\* GetOrCreateActor and MoveIdentity never give two actor rows one name, so a
\* name means one account (UNIQUE actor_id, service.go ActorExists check).
ActorNamesUnique ==
    \A i, j \in DOMAIN actors : actors[i].actor_id = actors[j].actor_id => i = j

\* A key row is in the directory only because the log says so: its merkle_root
\* names an AddKey of that very key, and a revoke_root that is not an
\* administrator's names a RevokeKey of that key or a BurnDown.
KeyEventsLogged ==
    \A i \in DOMAIN public_keys :
        LET k == public_keys[i] IN
        /\ k.merkle_root \in DOMAIN log
        /\ log[k.merkle_root].action = "AddKey"
        /\ log[k.merkle_root].public_key = k.public_key
        /\ k.revoke_root \in Nat =>
             /\ k.revoke_root \in DOMAIN log
             /\ \/ /\ log[k.revoke_root].action = "RevokeKey"
                   /\ log[k.revoke_root].public_key = k.public_key
                \/ log[k.revoke_root].action = "BurnDown"

\* The same for auxiliary data: an accepted AddAuxData, and a RevokeAuxData that
\* names this row.
AuxEventsLogged ==
    \A i \in DOMAIN auxiliary_data :
        LET x == auxiliary_data[i] IN
        /\ x.merkle_root \in DOMAIN log
        /\ log[x.merkle_root].action = "AddAuxData"
        /\ log[x.merkle_root].valid
        /\ x.revoke_root \in Nat =>
             /\ x.revoke_root \in DOMAIN log
             /\ log[x.revoke_root].action = "RevokeAuxData"
             /\ log[x.revoke_root].aux_id = i

\* One log entry has at most one effect: no two rows of a table come from one
\* entry, and a RevokeKey entry revokes one row only.
EntriesUsedOnce ==
    /\ \A i, j \in DOMAIN public_keys :
         \/ public_keys[i].merkle_root = public_keys[j].merkle_root
         \/ /\ public_keys[i].revoke_root = public_keys[j].revoke_root
            /\ public_keys[i].revoke_root \in DOMAIN log
            /\ log[public_keys[i].revoke_root].action = "RevokeKey"
         => i = j
    /\ \A i, j \in DOMAIN auxiliary_data :
         auxiliary_data[i].merkle_root = auxiliary_data[j].merkle_root => i = j

\* The chain of trust: a key signed itself in, or was signed in by a key the
\* directory already held (processAddKeyAction's two cases, at commit time).
SignerEnrolled ==
    \A i \in DOMAIN public_keys :
        LET m == log[public_keys[i].merkle_root] IN
        \/ m.signer = m.public_key
        \/ \E j \in 1..(i - 1) : public_keys[j].public_key = m.signer

\* Crypto-shredding finds everything: each stored symmetric key hangs under a root
\* that GetMessageHashesForActor returns for some actor, so no BurnDown or
\* crypto-shred of its owner can miss it.
ShredReachable ==
    symmetric_keys \subseteq UNION {GetMessageHashesForActor(r) : r \in DOMAIN actors}

\* The history of keys is append-only: a committed row keeps its owner, key and
\* root, and a revocation is never undone nor its root overwritten.
KeyHistoryStep ==
    \A i \in DOMAIN public_keys :
        /\ i \in DOMAIN public_keys'
        /\ public_keys'[i].actor_id = public_keys[i].actor_id
        /\ public_keys'[i].public_key = public_keys[i].public_key
        /\ public_keys'[i].merkle_root = public_keys[i].merkle_root
        /\ public_keys[i].revoke_root # NoRoot
             => public_keys'[i].revoke_root = public_keys[i].revoke_root
KeyHistoryAppendOnly == [][KeyHistoryStep]_vars

\* Shredding is final: symmetric keys are stored only for a root no row has used
\* before, so those a BurnDown deleted are never stored again.
ShredFinalStep ==
    \A r \in symmetric_keys' \ symmetric_keys : \A i \in DOMAIN public_keys :
        public_keys[i].merkle_root # r /\ public_keys[i].revoke_root # r
ShredFinal == [][ShredFinalStep]_vars

-----------------------------------------------------------------------------
(* What the comments promise of one request at a time.  A run with one slot *)
(* checks these; a run with two slots shows which of them interleavings     *)
(* break.                                                                   *)

\* The live keys of actor row r that can verify a signature.
UsableKeys(r) ==
    {i \in DOMAIN public_keys : /\ public_keys[i].actor_id = r
                                /\ public_keys[i].revoke_root = NoRoot
                                /\ public_keys[i].public_key \notin Malformed}

BurnRoots == {r \in DOMAIN log : log[r].action = "BurnDown"} \cup {AdminRoot}

\* "Revoking all keys and crypto-shredding data for an actor" (service.go:198): once a
\* burn has revoked a row, no symmetric key is stored for it or an older row of its
\* actor.  ShredReachable asks that a burn can find them, this that it did.
ShredComplete ==
    \A i \in DOMAIN public_keys : \A j \in 1..i :
        /\ public_keys[i].revoke_root \in BurnRoots
        /\ public_keys[j].actor_id = public_keys[i].actor_id
        => {public_keys[j].merkle_root, public_keys[j].revoke_root} \cap symmetric_keys = {}

\* Cannot revoke the last key with RevokeKey, use BurnDown instead
\* (protocol_actions.go:130): an actor loses its last usable key to a burn only.
LastKeyStaysStep ==
    \A r \in DOMAIN actors :
        UsableKeys(r) # {} /\ UsableKeys(r)' = {}
            => \A i \in UsableKeys(r) : public_keys'[i].revoke_root \in BurnRoots
LastKeyStays == [][LastKeyStaysStep]_vars

\* The first key must be self-signed, subsequent keys must be signed by an existing
\* valid key of that actor (protocol_actions.go:26), judged when the row appears.
SignedByExistingKeyStep ==
    \A i \in DOMAIN public_keys' \ DOMAIN public_keys :
        LET owner  == public_keys'[i].actor_id
            signer == log[public_keys'[i].merkle_root].signer
        IN  IF UsableKeys(owner) = {} THEN signer = public_keys'[i].public_key
            ELSE \E j \in UsableKeys(owner) : public_keys[j].public_key = signer
SignedByExistingKey == [][SignedByExistingKeyStep]_vars

\* Rows enter the directory in log order, and a key is revoked by a later entry
\* than the one that added it.
LogOrder ==
    /\ \A i, j \in DOMAIN public_keys :
         i < j => public_keys[i].merkle_root < public_keys[j].merkle_root
    /\ \A i \in DOMAIN public_keys :
         public_keys[i].revoke_root \in Nat
            => public_keys[i].merkle_root < public_keys[i].revoke_root

\* An account's fireproof flag and auxiliary data come from messages a key of that
\* same account signed, whatever the account is called by now.
SignedByOwner ==
    LET KeysOf(r) == {public_keys[i].public_key :
                        i \in {j \in DOMAIN public_keys : public_keys[j].actor_id = r}}
    IN  /\ \A r \in DOMAIN actors :
             actors[r].is_fireproof =>
                 \E e \in DOMAIN log : log[e].action = "Fireproof" /\ log[e].signer \in KeysOf(r)
        /\ \A i \in DOMAIN auxiliary_data :
             log[auxiliary_data[i].merkle_root].signer \in KeysOf(auxiliary_data[i].actor_id)
=============================================================================
