-------------------------- MODULE PKDServerProofs --------------------------
(***************************************************************************)
(* The invariants of PKDServer hold for every set of actors, keys,         *)
(* messages and request slots, every set of faults and every log length.   *)
(***************************************************************************)
EXTENDS PKDServer, TLAPS

(* What an accepted request remembers is still true when it is processed:   *)
(* its log entry is its message.                                            *)
RequestsOK ==
    \A s \in Slots :
        /\ pc[s] # "idle" => msg[s] \in Message
        /\ pc[s] = "logged" => root[s] \in DOMAIN log /\ log[root[s]] = msg[s]

TypeInv == TypeOK /\ RequestsOK

-----------------------------------------------------------------------------
(* Lemmas about messages, tables and actor ids.                             *)

LEMMA MessageFields ==
    ASSUME NEW m \in Message
    PROVE  /\ m.action \in {"AddKey", "RevokeKey"} =>
                /\ m.actor \in Actors
                /\ m.public_key \in Keys
                /\ m.signer \in Signers
           /\ m.action = "MoveIdentity" => m.old_actor \in Actors /\ m.new_actor \in Actors
           /\ m.action \in {"BurnDown", "Fireproof", "UndoFireproof", "AddAuxData",
                            "RevokeAuxData"} => m.actor \in Actors
           /\ m.action = "RevokeAuxData" => m.aux_id \in Nat
BY DEF Message, KeyMessage, MoveIdentityMessage, BurnDownMessage, FireproofMessage,
       AddAuxDataMessage, RevokeAuxDataMessage

LEMMA ActorIDFound ==
    ASSUME NEW table, NEW a, \E i \in DOMAIN table : table[i].actor_id = a
    PROVE  /\ ActorID(table, a) \in DOMAIN table
           /\ table[ActorID(table, a)].actor_id = a
BY DEF ActorID

\* An append keeps every row and adds one at the end.
LEMMA AppendRow ==
    ASSUME NEW S, NEW q \in Seq(S), NEW e \in S
    PROVE  /\ Append(q, e) \in Seq(S)
           /\ DOMAIN Append(q, e) = DOMAIN q \cup {Len(q) + 1}
           /\ DOMAIN q = 1..Len(q)
           /\ Len(q) + 1 \notin DOMAIN q
           /\ \A i \in DOMAIN q : Append(q, e)[i] = q[i]
           /\ Append(q, e)[Len(q) + 1] = e
  OBVIOUS

\* Replacing rows in place keeps the ids.
LEMMA MapRows ==
    ASSUME NEW S, NEW q \in Seq(S), NEW r, DOMAIN r = DOMAIN q,
           r = [i \in DOMAIN q |-> r[i]],
           \A i \in DOMAIN q : r[i] \in S
    PROVE  r \in Seq(S)
<1>1. DOMAIN q = 1..Len(q) /\ Len(q) \in Nat
  OBVIOUS
<1>2. r \in [1..Len(q) -> S]
  BY <1>1
<1> QED
  BY <1>1, <1>2

\* GetOrCreateActor returns a table in which the actor has an id, and keeps the others.
LEMMA ActorCreated ==
    ASSUME actors \in Seq(ActorRow), NEW a \in Actors
    PROVE  /\ GetOrCreateActor(a) \in Seq(ActorRow)
           /\ DOMAIN actors \subseteq DOMAIN GetOrCreateActor(a)
           /\ ActorID(GetOrCreateActor(a), a) \in DOMAIN GetOrCreateActor(a)
           /\ ActorNamesUnique =>
                \A i, j \in DOMAIN GetOrCreateActor(a) :
                    GetOrCreateActor(a)[i].actor_id = GetOrCreateActor(a)[j].actor_id => i = j
<1> DEFINE new == [actor_id |-> a, is_fireproof |-> FALSE]
<1>1. CASE ActorExists(a)
  BY <1>1, ActorIDFound DEF GetOrCreateActor, ActorExists, ActorNamesUnique
<1>2. CASE ~ActorExists(a)
  <2>1. new \in ActorRow
    BY DEF ActorRow
  <2>2. GetOrCreateActor(a) = Append(actors, new)
    BY <1>2 DEF GetOrCreateActor
  <2> HIDE DEF new
  <2>3. new.actor_id = a
    BY DEF new
  <2>4. /\ Append(actors, new) \in Seq(ActorRow)
        /\ DOMAIN Append(actors, new) = DOMAIN actors \cup {Len(actors) + 1}
        /\ \A i \in DOMAIN actors : Append(actors, new)[i] = actors[i]
        /\ Append(actors, new)[Len(actors) + 1] = new
    BY <2>1, AppendRow
  <2>5. \E i \in DOMAIN GetOrCreateActor(a) : GetOrCreateActor(a)[i].actor_id = a
    BY <2>2, <2>3, <2>4
  <2>6. ActorID(GetOrCreateActor(a), a) \in DOMAIN GetOrCreateActor(a)
    BY <2>5, ActorIDFound
  <2>7. ASSUME ActorNamesUnique,
               NEW i \in DOMAIN GetOrCreateActor(a), NEW j \in DOMAIN GetOrCreateActor(a),
               GetOrCreateActor(a)[i].actor_id = GetOrCreateActor(a)[j].actor_id
        PROVE  i = j
    BY <1>2, <2>2, <2>3, <2>4, <2>7 DEF ActorNamesUnique, ActorExists
  <2> QED
    BY <2>2, <2>4, <2>6, <2>7
<1> QED
  BY <1>1, <1>2

-----------------------------------------------------------------------------
(* Every step preserves TypeInv.                                            *)

LEMMA TypeInit == ASSUME Init PROVE TypeInv
<1>1. /\ actors \in Seq(ActorRow) /\ public_keys \in Seq(KeyRow)
      /\ auxiliary_data \in Seq(AuxRow) /\ log \in Seq(Message)
  BY DEF Init
<1>2. DOMAIN public_keys = {} /\ DOMAIN auxiliary_data = {}
  BY DEF Init
<1> QED
  BY <1>1, <1>2 DEF Init, TypeInv, TypeOK, RequestsOK

LEMMA TypeAccept ==
    ASSUME TypeInv, NEW s \in Slots, NEW m \in Messages, Accept(s, m)
    PROVE  TypeInv'
BY ConstantsAssumption DEF TypeInv, TypeOK, RequestsOK, Accept, database

\* What the database and the log keep when a request ends without an effect.
LEMMA TypeFinish ==
    ASSUME TypeInv, NEW s \in Slots, Finish(s), UNCHANGED <<database, log>>
    PROVE  TypeInv'
BY DEF TypeInv, TypeOK, RequestsOK, Finish, database

LEMMA TypeCrash == ASSUME TypeInv, Crash PROVE TypeInv'
BY DEF TypeInv, TypeOK, RequestsOK, Crash, database

LEMMA TypeSubmit ==
    ASSUME TypeInv, NEW s \in Slots, Submit(s)
    PROVE  TypeInv'
<1>1. CASE SubmitRefused(s)
  BY <1>1, TypeFinish DEF SubmitRefused
<1>2. ASSUME pc[s] = "validated", log' = Append(log, msg[s])
      PROVE  /\ log' \in Seq(Message)
             /\ DOMAIN log' = DOMAIN log \cup {Len(log) + 1}
             /\ Len(log') = Len(log) + 1 /\ Len(log) \in Nat
             /\ \A i \in DOMAIN log : log'[i] = log[i]
             /\ log'[Len(log) + 1] = msg[s]
  <2>1. log \in Seq(Message) /\ msg[s] \in Message
    BY <1>2 DEF TypeInv, TypeOK, RequestsOK
  <2> QED
    BY <1>2, <2>1, AppendRow
<1>3. CASE SubmitMessage(s)
  <2> USE <1>2, <1>3 DEF SubmitMessage, database
  <2>1. TypeOK'
    BY DEF TypeInv, TypeOK
  <2>2. RequestsOK'
    BY DEF TypeInv, TypeOK, RequestsOK
  <2> QED
    BY <2>1, <2>2 DEF TypeInv
<1>4. CASE SubmitUnanswered(s)
  <2> USE <1>2, <1>4 DEF SubmitUnanswered, Finish, database
  <2>1. TypeOK'
    BY DEF TypeInv, TypeOK
  <2>2. RequestsOK'
    BY DEF TypeInv, TypeOK, RequestsOK
  <2> QED
    BY <2>1, <2>2 DEF TypeInv
<1> QED
  BY <1>1, <1>3, <1>4 DEF Submit

\* The message and the root of a request that is being processed.
LEMMA ProcessingTyped ==
    ASSUME TypeInv, NEW s \in Slots, pc[s] = "logged"
    PROVE  /\ msg[s] \in Message
           /\ root[s] \in DOMAIN log
           /\ root[s] \in Nat
           /\ log[root[s]] = msg[s]
BY DEF TypeInv, TypeOK, RequestsOK

LEMMA TypeAddKey ==
    ASSUME TypeInv, NEW s \in Slots, ProcessAddKey(s)
    PROVE  TypeInv'
<1> DEFINE a == msg[s].actor
           new == [actor_id |-> ActorID(actors', a), public_key |-> msg[s].public_key,
                   merkle_root |-> root[s], revoke_root |-> NoRoot]
<1>1. /\ msg[s] \in Message /\ msg[s].action = "AddKey"
      /\ root[s] \in DOMAIN log /\ root[s] \in Nat
  BY ProcessingTyped DEF ProcessAddKey, Processing
<1>2. a \in Actors /\ msg[s].public_key \in Keys
  BY <1>1, MessageFields
<1>3. /\ actors' = GetOrCreateActor(a)
      /\ public_keys' = Append(public_keys, new)
  BY DEF ProcessAddKey
<1>4. /\ actors' \in Seq(ActorRow) /\ DOMAIN actors \subseteq DOMAIN actors'
      /\ ActorID(actors', a) \in DOMAIN actors'
  BY <1>2, <1>3, ActorCreated DEF TypeInv, TypeOK
<1>5. DOMAIN actors' \subseteq Nat
  BY <1>4
<1>6. new \in KeyRow
  BY <1>1, <1>2, <1>4, <1>5 DEF KeyRow
<1>7. new.actor_id \in DOMAIN actors'
  BY <1>4
<1> HIDE DEF new
<1>8. /\ public_keys' \in Seq(KeyRow)
      /\ DOMAIN public_keys' = DOMAIN public_keys \cup {Len(public_keys) + 1}
      /\ \A i \in DOMAIN public_keys : public_keys'[i] = public_keys[i]
      /\ public_keys'[Len(public_keys) + 1] = new
  BY <1>3, <1>6, AppendRow DEF TypeInv, TypeOK
<1>9. \A i \in DOMAIN public_keys' : public_keys'[i].actor_id \in DOMAIN actors'
  BY <1>4, <1>7, <1>8 DEF TypeInv, TypeOK
<1>10. symmetric_keys' \subseteq DOMAIN log
  BY <1>1 DEF ProcessAddKey, StoreSymmetricKeys, TypeInv, TypeOK
<1>11. TypeOK'
  BY <1>4, <1>8, <1>9, <1>10 DEF ProcessAddKey, Finish, TypeInv, TypeOK
<1>12. RequestsOK'
  BY DEF ProcessAddKey, Finish, TypeInv, TypeOK, RequestsOK
<1> QED
  BY <1>11, <1>12 DEF TypeInv

\* Rows whose revoke_root changed are still rows of the same owner.
LEMMA TypeRevoked ==
    ASSUME TypeInv, DOMAIN public_keys' = DOMAIN public_keys,
           NEW r \in Nat \cup {AdminRoot},
           public_keys' = [i \in DOMAIN public_keys |-> public_keys'[i]],
           \A i \in DOMAIN public_keys :
               public_keys'[i] \in {public_keys[i], [public_keys[i] EXCEPT !.revoke_root = r]}
    PROVE  /\ public_keys' \in Seq(KeyRow)
           /\ \A i \in DOMAIN public_keys' : public_keys'[i].actor_id \in DOMAIN actors
<1>1. \A i \in DOMAIN public_keys :
        /\ public_keys[i] \in KeyRow
        /\ public_keys[i].actor_id \in DOMAIN actors
  BY DEF TypeInv, TypeOK
<1>2. \A i \in DOMAIN public_keys :
        /\ public_keys'[i] \in KeyRow
        /\ public_keys'[i].actor_id = public_keys[i].actor_id
  BY <1>1 DEF KeyRow
<1>3. public_keys \in Seq(KeyRow)
  BY DEF TypeInv, TypeOK
<1> QED
  BY <1>1, <1>2, <1>3, MapRows

LEMMA TypeRevokeKey ==
    ASSUME TypeInv, NEW s \in Slots, ProcessRevokeKey(s)
    PROVE  TypeInv'
<1>1. root[s] \in DOMAIN log /\ root[s] \in Nat
  BY ProcessingTyped DEF ProcessRevokeKey, Processing
<1>2. PICK i \in DOMAIN public_keys : public_keys' = RevokeKey(i, root[s])
  BY DEF ProcessRevokeKey, FindKeyToRevoke, ListKeysForActor
<1>3. /\ DOMAIN public_keys' = DOMAIN public_keys
      /\ public_keys' = [j \in DOMAIN public_keys |-> public_keys'[j]]
      /\ \A j \in DOMAIN public_keys :
            public_keys'[j] \in {public_keys[j], [public_keys[j] EXCEPT !.revoke_root = root[s]]}
  BY <1>2 DEF RevokeKey
<1>4. /\ public_keys' \in Seq(KeyRow)
      /\ \A j \in DOMAIN public_keys' : public_keys'[j].actor_id \in DOMAIN actors
  BY <1>1, <1>3, TypeRevoked
<1>5. symmetric_keys' \subseteq DOMAIN log
  BY <1>1 DEF ProcessRevokeKey, StoreSymmetricKeys, TypeInv, TypeOK
<1>6. TypeOK'
  BY <1>4, <1>5 DEF ProcessRevokeKey, Finish, TypeInv, TypeOK
<1>7. RequestsOK'
  BY DEF ProcessRevokeKey, Finish, TypeInv, TypeOK, RequestsOK
<1> QED
  BY <1>6, <1>7 DEF TypeInv

\* The burn-down transaction, whichever root it writes.
LEMMA TypeBurn ==
    ASSUME TypeInv, NEW a, NEW r \in Nat \cup {AdminRoot}, BurnDown(a, r)
    PROVE  /\ public_keys' \in Seq(KeyRow)
           /\ \A i \in DOMAIN public_keys' : public_keys'[i].actor_id \in DOMAIN actors
           /\ symmetric_keys' \subseteq DOMAIN log
<1>1. public_keys' = RevokeAllKeysForActor(ActorID(actors, a), r)
  BY DEF BurnDown
<1>2. /\ DOMAIN public_keys' = DOMAIN public_keys
      /\ public_keys' = [i \in DOMAIN public_keys |-> public_keys'[i]]
      /\ \A i \in DOMAIN public_keys :
            public_keys'[i] \in {public_keys[i], [public_keys[i] EXCEPT !.revoke_root = r]}
  BY <1>1 DEF RevokeAllKeysForActor
<1>3. symmetric_keys' \subseteq DOMAIN log
  BY DEF BurnDown, TypeInv, TypeOK
<1> QED
  BY <1>2, <1>3, TypeRevoked

LEMMA TypeBurnDown ==
    ASSUME TypeInv, NEW s \in Slots, ProcessBurnDown(s)
    PROVE  TypeInv'
<1>1. root[s] \in Nat /\ BurnDown(msg[s].actor, root[s])
  BY ProcessingTyped DEF ProcessBurnDown, Processing
<1>2. /\ public_keys' \in Seq(KeyRow)
      /\ \A i \in DOMAIN public_keys' : public_keys'[i].actor_id \in DOMAIN actors
      /\ symmetric_keys' \subseteq DOMAIN log
  BY <1>1, TypeBurn
<1>3. TypeOK'
  BY <1>2 DEF ProcessBurnDown, Finish, TypeInv, TypeOK
<1>4. RequestsOK'
  BY DEF ProcessBurnDown, Finish, TypeInv, TypeOK, RequestsOK
<1> QED
  BY <1>3, <1>4 DEF TypeInv

LEMMA TypeCryptoShred ==
    ASSUME TypeInv, NEW a \in Actors, CryptoShred(a)
    PROVE  TypeInv'
<1>1. /\ public_keys' \in Seq(KeyRow)
      /\ \A i \in DOMAIN public_keys' : public_keys'[i].actor_id \in DOMAIN actors
      /\ symmetric_keys' \subseteq DOMAIN log
  BY TypeBurn DEF CryptoShred
<1>2. TypeOK'
  BY <1>1 DEF CryptoShred, requests, TypeInv, TypeOK
<1>3. RequestsOK'
  BY DEF CryptoShred, requests, TypeInv, TypeOK, RequestsOK
<1> QED
  BY <1>2, <1>3 DEF TypeInv

LEMMA TypeMoveIdentity ==
    ASSUME TypeInv, NEW s \in Slots, ProcessMoveIdentity(s)
    PROVE  TypeInv'
<1> DEFINE id == ActorID(actors, msg[s].old_actor)
<1>1. msg[s].new_actor \in Actors
  BY ProcessingTyped, MessageFields DEF ProcessMoveIdentity, Processing
<1>2. id \in DOMAIN actors /\ actors \in Seq(ActorRow)
  BY ActorIDFound DEF ProcessMoveIdentity, ActorExists, TypeInv, TypeOK
<1>3. actors' = [actors EXCEPT ![id].actor_id = msg[s].new_actor]
  BY DEF ProcessMoveIdentity
<1> HIDE DEF id
<1>4. \A i \in DOMAIN actors : actors[i] \in ActorRow
  BY <1>2
<1>5. \A i \in DOMAIN actors : actors'[i] \in ActorRow
  BY <1>1, <1>2, <1>3, <1>4 DEF ActorRow
<1>6. actors' \in Seq(ActorRow) /\ DOMAIN actors' = DOMAIN actors
  BY <1>2, <1>3, <1>5, MapRows
<1>7. TypeOK'
  BY <1>6 DEF ProcessMoveIdentity, Finish, TypeInv, TypeOK
<1>8. RequestsOK'
  BY DEF ProcessMoveIdentity, Finish, TypeInv, TypeOK, RequestsOK
<1> QED
  BY <1>7, <1>8 DEF TypeInv

LEMMA TypeSetFireproof ==
    ASSUME TypeInv, NEW s \in Slots, NEW flag \in BOOLEAN, SetFireproof(s, flag)
    PROVE  TypeInv'
<1> DEFINE id == ActorID(actors, msg[s].actor)
<1>1. id \in DOMAIN actors /\ actors \in Seq(ActorRow)
  BY ActorIDFound DEF SetFireproof, ActorExists, TypeInv, TypeOK
<1>2. actors' = [actors EXCEPT ![id].is_fireproof = flag]
  BY DEF SetFireproof
<1> HIDE DEF id
<1>3. \A i \in DOMAIN actors : actors[i] \in ActorRow
  BY <1>1
<1>4. \A i \in DOMAIN actors : actors'[i] \in ActorRow
  BY <1>1, <1>2, <1>3 DEF ActorRow
<1>5. actors' \in Seq(ActorRow) /\ DOMAIN actors' = DOMAIN actors
  BY <1>1, <1>2, <1>4, MapRows
<1>6. TypeOK'
  BY <1>5 DEF SetFireproof, Finish, TypeInv, TypeOK
<1>7. RequestsOK'
  BY DEF SetFireproof, Finish, TypeInv, TypeOK, RequestsOK
<1> QED
  BY <1>6, <1>7 DEF TypeInv

LEMMA TypeAddAuxData ==
    ASSUME TypeInv, NEW s \in Slots, ProcessAddAuxData(s)
    PROVE  TypeInv'
<1> DEFINE a == msg[s].actor
           new == [actor_id |-> ActorID(actors', a), merkle_root |-> root[s],
                   revoke_root |-> NoRoot]
<1>1. /\ msg[s] \in Message /\ msg[s].action = "AddAuxData"
      /\ root[s] \in Nat
  BY ProcessingTyped DEF ProcessAddAuxData, Processing
<1>2. a \in Actors
  BY <1>1, MessageFields
<1>3. /\ actors' = GetOrCreateActor(a)
      /\ auxiliary_data' = Append(auxiliary_data, new)
  BY DEF ProcessAddAuxData
<1>4. /\ actors' \in Seq(ActorRow) /\ DOMAIN actors \subseteq DOMAIN actors'
      /\ ActorID(actors', a) \in DOMAIN actors'
  BY <1>2, <1>3, ActorCreated DEF TypeInv, TypeOK
<1>5. DOMAIN actors' \subseteq Nat
  BY <1>4
<1>6. new \in AuxRow
  BY <1>1, <1>4, <1>5 DEF AuxRow
<1>7. new.actor_id \in DOMAIN actors'
  BY <1>4
<1> HIDE DEF new
<1>8. /\ auxiliary_data' \in Seq(AuxRow)
      /\ DOMAIN auxiliary_data' = DOMAIN auxiliary_data \cup {Len(auxiliary_data) + 1}
      /\ \A i \in DOMAIN auxiliary_data : auxiliary_data'[i] = auxiliary_data[i]
      /\ auxiliary_data'[Len(auxiliary_data) + 1] = new
  BY <1>3, <1>6, AppendRow DEF TypeInv, TypeOK
<1>9. \A i \in DOMAIN auxiliary_data' : auxiliary_data'[i].actor_id \in DOMAIN actors'
  BY <1>4, <1>7, <1>8 DEF TypeInv, TypeOK
<1>10. TypeOK'
  BY <1>4, <1>8, <1>9 DEF ProcessAddAuxData, Finish, TypeInv, TypeOK
<1>11. RequestsOK'
  BY DEF ProcessAddAuxData, Finish, TypeInv, TypeOK, RequestsOK
<1> QED
  BY <1>10, <1>11 DEF TypeInv

LEMMA TypeRevokeAuxData ==
    ASSUME TypeInv, NEW s \in Slots, ProcessRevokeAuxData(s)
    PROVE  TypeInv'
<1> DEFINE id == msg[s].aux_id
<1>1. root[s] \in Nat
  BY ProcessingTyped DEF ProcessRevokeAuxData, Processing
<1>2. /\ id \in DOMAIN auxiliary_data
      /\ auxiliary_data' = [auxiliary_data EXCEPT ![id].revoke_root = root[s]]
      /\ auxiliary_data \in Seq(AuxRow)
  BY DEF ProcessRevokeAuxData, LiveAux, TypeInv, TypeOK
<1> HIDE DEF id
<1>3. \A i \in DOMAIN auxiliary_data :
        auxiliary_data[i] \in AuxRow /\ auxiliary_data[i].actor_id \in DOMAIN actors
  BY <1>2 DEF TypeInv, TypeOK
<1>4. \A i \in DOMAIN auxiliary_data :
        /\ auxiliary_data'[i] \in AuxRow
        /\ auxiliary_data'[i].actor_id = auxiliary_data[i].actor_id
  BY <1>1, <1>2, <1>3 DEF AuxRow
<1>5. auxiliary_data' \in Seq(AuxRow) /\ DOMAIN auxiliary_data' = DOMAIN auxiliary_data
  BY <1>2, <1>4, MapRows
<1>6. TypeOK'
  BY <1>3, <1>4, <1>5 DEF ProcessRevokeAuxData, Finish, TypeInv, TypeOK
<1>7. RequestsOK'
  BY DEF ProcessRevokeAuxData, Finish, TypeInv, TypeOK, RequestsOK
<1> QED
  BY <1>6, <1>7 DEF TypeInv

\* Every acceptance is an Accept of a message clients may send, and an AddKey is
\* accepted only from a signer the directory can vouch for.
LEMMA ValidateAccepts ==
    ASSUME NEW s \in Slots, Validate(s)
    PROVE  \E m \in Messages :
             /\ Accept(s, m)
             /\ m.action = "AddKey" =>
                  \/ m.signer = m.public_key
                  \/ \E j \in DOMAIN public_keys : public_keys[j].public_key = m.signer
<1>1. PICK m \in Messages :
        \/ ValidateAddKey(s, m) \/ ValidateRevokeKey(s, m) \/ ValidateMoveIdentity(s, m)
        \/ ValidateBurnDown(s, m) \/ ValidateFireproof(s, m) \/ ValidateUndoFireproof(s, m)
        \/ ValidateAddAuxData(s, m) \/ ValidateRevokeAuxData(s, m)
  BY DEF Validate
<1>2. CASE ValidateAddKey(s, m)
  BY <1>2 DEF ValidateAddKey, SignedByKeyOf, ListKeysForActor
<1>3. CASE ~ValidateAddKey(s, m)
  BY <1>1, <1>3 DEF ValidateRevokeKey, ValidateMoveIdentity, ValidateBurnDown,
     ValidateFireproof, ValidateUndoFireproof, ValidateAddAuxData, ValidateRevokeAuxData
<1> QED
  BY <1>2, <1>3

LEMMA TypeNext == ASSUME TypeInv, [Next]_vars PROVE TypeInv'
<1>1. ASSUME NEW s \in Slots, Validate(s) PROVE TypeInv'
  BY <1>1, ValidateAccepts, TypeAccept
<1>2. ASSUME NEW s \in Slots, Submit(s) PROVE TypeInv'
  BY <1>2, TypeSubmit
<1>3. ASSUME NEW s \in Slots, Process(s) PROVE TypeInv'
  <2>1. CASE RejectSymmetricKeys(s) \/ ProcessRejected(s) \/ DatabaseFault(s)
    BY <2>1, TypeFinish DEF RejectSymmetricKeys, ProcessRejected, DatabaseFault
  <2>2. CASE ProcessAddKey(s)
    BY <2>2, TypeAddKey
  <2>3. CASE ProcessRevokeKey(s)
    BY <2>3, TypeRevokeKey
  <2>4. CASE ProcessMoveIdentity(s)
    BY <2>4, TypeMoveIdentity
  <2>5. CASE ProcessBurnDown(s)
    BY <2>5, TypeBurnDown
  <2>6. CASE ProcessFireproof(s) \/ ProcessUndoFireproof(s)
    BY <2>6, TypeSetFireproof DEF ProcessFireproof, ProcessUndoFireproof
  <2>7. CASE ProcessAddAuxData(s)
    BY <2>7, TypeAddAuxData
  <2>8. CASE ProcessRevokeAuxData(s)
    BY <2>8, TypeRevokeAuxData
  <2> QED
    BY <1>3, <2>1, <2>2, <2>3, <2>4, <2>5, <2>6, <2>7, <2>8 DEF Process
<1>4. ASSUME NEW a \in Actors, CryptoShred(a) PROVE TypeInv'
  BY <1>4, TypeCryptoShred
<1>5. CASE Crash
  BY <1>5, TypeCrash
<1>6. CASE UNCHANGED vars
  BY <1>6 DEF vars, TypeInv, TypeOK, RequestsOK
<1> QED
  BY <1>1, <1>2, <1>3, <1>4, <1>5, <1>6 DEF Next

\* Whatever requests interleave and whatever fails, tables, log and request slots
\* keep their shapes and references, and a logged request's root names its message.
THEOREM TypeCorrect == Spec => []TypeOK
<1>1. Init => TypeInv
  BY TypeInit
<1>2. TypeInv /\ [Next]_vars => TypeInv'
  BY TypeNext
<1>3. TypeInv => TypeOK
  BY DEF TypeInv
<1> QED
  BY <1>1, <1>2, <1>3, PTL DEF Spec

=============================================================================
