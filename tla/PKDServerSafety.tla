-------------------------- MODULE PKDServerSafety --------------------------
(***************************************************************************)
(* The safety invariants of PKDServer for every instance.  None of them is *)
(* inductive by itself: what a transaction will write was fixed when the   *)
(* request was accepted and logged, so the invariant must also say what a  *)
(* request in flight carries -- a root nobody has used, and, for an AddKey,*)
(* a signer the directory knew.                                            *)
(***************************************************************************)
EXTENDS PKDServerProofs

(* A logged request's root is its own: no other request has it and no row   *)
(* carries it.                                                              *)
RootsFresh ==
    \A s \in Slots : pc[s] = "logged" =>
        /\ \A t \in Slots : pc[t] = "logged" /\ root[s] = root[t] => s = t
        /\ \A i \in DOMAIN public_keys :
             public_keys[i].merkle_root # root[s] /\ public_keys[i].revoke_root # root[s]
        /\ \A i \in DOMAIN auxiliary_data : auxiliary_data[i].merkle_root # root[s]

(* An AddKey was signed by the key it adds or by one the directory holds,    *)
(* live or since revoked.                                                    *)
SignersKnown ==
    \A s \in Slots : pc[s] # "idle" /\ msg[s].action = "AddKey" =>
        \/ msg[s].signer = msg[s].public_key
        \/ \E j \in DOMAIN public_keys : public_keys[j].public_key = msg[s].signer

(* ShredReachable, row by row.                                               *)
ShredRows ==
    \A r \in symmetric_keys : \E i \in DOMAIN public_keys :
        public_keys[i].merkle_root = r \/ public_keys[i].revoke_root = r

KeyInv == KeyEventsLogged /\ EntriesUsedOnce /\ SignerEnrolled /\ ShredRows
RequestInv == RootsFresh /\ SignersKnown

IndInv == TypeInv /\ ActorNamesUnique /\ AuxEventsLogged /\ KeyInv /\ RequestInv

-----------------------------------------------------------------------------
(* Consequences of the type invariant used throughout.                      *)

LEMMA Numbers ==
    ASSUME TypeInv
    PROVE  /\ DOMAIN public_keys = 1..Len(public_keys) /\ Len(public_keys) \in Nat
           /\ DOMAIN auxiliary_data = 1..Len(auxiliary_data) /\ Len(auxiliary_data) \in Nat
           /\ DOMAIN log = 1..Len(log) /\ Len(log) \in Nat
           /\ DOMAIN log \subseteq Nat
           /\ NoRoot \notin DOMAIN log /\ AdminRoot \notin DOMAIN log
           /\ \A i \in DOMAIN public_keys : public_keys[i] \in KeyRow
           /\ \A i \in DOMAIN auxiliary_data : auxiliary_data[i] \in AuxRow
BY ConstantsAssumption DEF TypeInv, TypeOK

LEMMA ShredRowsReachable == ASSUME TypeInv, ShredRows PROVE ShredReachable
<1> SUFFICES ASSUME NEW r \in symmetric_keys
             PROVE  \E id \in DOMAIN actors : r \in GetMessageHashesForActor(id)
  BY DEF ShredReachable
<1>1. PICK i \in DOMAIN public_keys :
        public_keys[i].merkle_root = r \/ public_keys[i].revoke_root = r
  BY DEF ShredRows
<1>2. public_keys[i].actor_id \in DOMAIN actors /\ r # NoRoot
  BY Numbers DEF TypeInv, TypeOK
<1>3. r \in GetMessageHashesForActor(public_keys[i].actor_id)
  BY <1>1, <1>2 DEF GetMessageHashesForActor
<1> QED
  BY <1>2, <1>3

(* Frames: what a step that leaves a table alone preserves, when the log only *)
(* grows at its end.                                                          *)
LogGrows == DOMAIN log \subseteq DOMAIN log' /\ \A r \in DOMAIN log : log'[r] = log[r]

LEMMA KeyFrame ==
    ASSUME IndInv, TypeInv', LogGrows, UNCHANGED <<public_keys, symmetric_keys>>
    PROVE  KeyEventsLogged' /\ SignerEnrolled' /\ ShredRows'
<1> USE DEF IndInv, KeyInv, LogGrows
<1>1. KeyEventsLogged'
  BY DEF KeyEventsLogged
<1>2. SignerEnrolled'
  BY DEF KeyEventsLogged, SignerEnrolled
<1>3. ShredRows'
  BY DEF ShredRows
<1> QED
  BY <1>1, <1>2, <1>3

LEMMA AuxFrame ==
    ASSUME IndInv, LogGrows, UNCHANGED auxiliary_data
    PROVE  AuxEventsLogged'
BY DEF IndInv, LogGrows, AuxEventsLogged

\* Both tables as they were, the log at most grown.
LEMMA TablesFrame ==
    ASSUME IndInv, TypeInv', LogGrows,
           UNCHANGED <<public_keys, symmetric_keys, auxiliary_data>>
    PROVE  AuxEventsLogged' /\ KeyInv'
<1>1. KeyEventsLogged' /\ SignerEnrolled' /\ ShredRows' /\ AuxEventsLogged'
  BY KeyFrame, AuxFrame
<1>2. DOMAIN log' \subseteq Nat
  BY DEF TypeInv, TypeOK
<1>3. \A i \in DOMAIN public_keys :
        public_keys[i].revoke_root \in DOMAIN log' => public_keys[i].revoke_root \in DOMAIN log
  BY <1>2 DEF IndInv, KeyInv, KeyEventsLogged
<1>4. EntriesUsedOnce'
  BY <1>3 DEF IndInv, KeyInv, LogGrows, EntriesUsedOnce
<1> QED
  BY <1>1, <1>4 DEF KeyInv

\* A request that ends leaves the others' roots and signers as they were.
LEMMA FinishFrame ==
    ASSUME IndInv, NEW s \in Slots, Finish(s),
           UNCHANGED <<public_keys, auxiliary_data>>
    PROVE  RequestInv'
BY DEF IndInv, TypeInv, TypeOK, RequestInv, RootsFresh, SignersKnown, Finish

-----------------------------------------------------------------------------
(* Every step preserves IndInv.                                              *)

LEMMA SafetyInit == ASSUME Init PROVE IndInv
<1>1. TypeInv
  BY TypeInit
<1>2. /\ DOMAIN public_keys = {} /\ DOMAIN auxiliary_data = {} /\ DOMAIN actors = {}
      /\ symmetric_keys = {} /\ \A s \in Slots : pc[s] = "idle"
  BY DEF Init
<1> QED
  BY <1>1, <1>2 DEF IndInv, ActorNamesUnique, AuxEventsLogged, KeyInv, KeyEventsLogged,
     EntriesUsedOnce, SignerEnrolled, ShredRows, RequestInv, RootsFresh, SignersKnown

LEMMA SafetyValidate ==
    ASSUME IndInv, TypeInv', NEW s \in Slots, Validate(s)
    PROVE  IndInv'
<1>1. PICK m \in Messages :
        /\ Accept(s, m)
        /\ m.action = "AddKey" =>
             \/ m.signer = m.public_key
             \/ \E j \in DOMAIN public_keys : public_keys[j].public_key = m.signer
  BY ValidateAccepts
<1>2. UNCHANGED <<actors, public_keys, auxiliary_data, symmetric_keys, log, root>>
  BY <1>1 DEF Accept, database
<1>3. AuxEventsLogged' /\ KeyInv'
  BY <1>2, TablesFrame DEF LogGrows
<1>4. ActorNamesUnique'
  BY <1>2 DEF IndInv, ActorNamesUnique
<1>5. /\ pc' = [pc EXCEPT ![s] = "validated"]
      /\ msg' = [msg EXCEPT ![s] = m]
      /\ pc \in [Slots -> {"idle", "validated", "logged"}]
      /\ msg \in [Slots -> Message \cup {NoMsg}]
  BY <1>1 DEF Accept, IndInv, TypeInv, TypeOK
<1>6. RootsFresh'
  BY <1>2, <1>5 DEF IndInv, RequestInv, RootsFresh
<1>7. SignersKnown'
  BY <1>1, <1>2, <1>5 DEF IndInv, RequestInv, SignersKnown
<1> QED
  BY <1>3, <1>4, <1>6, <1>7 DEF IndInv, RequestInv

LEMMA SafetySubmit ==
    ASSUME IndInv, TypeInv', NEW s \in Slots, Submit(s)
    PROVE  IndInv'
<1>1. UNCHANGED <<actors, public_keys, auxiliary_data, symmetric_keys>>
  BY DEF Submit, SubmitMessage, SubmitRefused, SubmitUnanswered, database
<1>2. ASSUME log' = Append(log, msg[s]), pc[s] = "validated"
      PROVE  /\ LogGrows
             /\ Len(log') = Len(log) + 1
             /\ Len(log') \notin DOMAIN log
  <2>1. log \in Seq(Message) /\ msg[s] \in Message
    BY <1>2 DEF IndInv, TypeInv, TypeOK, RequestsOK
  <2> QED
    BY <1>2, <2>1, AppendRow DEF LogGrows
<1>3. LogGrows
  BY <1>2 DEF Submit, SubmitMessage, SubmitRefused, SubmitUnanswered, LogGrows
<1>4. AuxEventsLogged' /\ KeyInv'
  BY <1>1, <1>3, TablesFrame
<1>5. ActorNamesUnique'
  BY <1>1 DEF IndInv, ActorNamesUnique
<1>6. RequestInv'
  <2>1. CASE SubmitRefused(s) \/ SubmitUnanswered(s)
    BY <1>1, <2>1, FinishFrame DEF SubmitRefused, SubmitUnanswered
  <2>2. CASE SubmitMessage(s)
    <3> DEFINE r == Len(log')
    <3>1. r \notin DOMAIN log /\ r \in Nat
      BY <1>2, <2>2, Numbers DEF SubmitMessage, IndInv
    <3>2. /\ pc' = [pc EXCEPT ![s] = "logged"]
          /\ root' = [root EXCEPT ![s] = r]
          /\ msg' = msg
          /\ pc \in [Slots -> {"idle", "validated", "logged"}]
          /\ root \in [Slots -> Nat \cup {NoRoot}]
      BY <2>2 DEF SubmitMessage, IndInv, TypeInv, TypeOK
    <3> HIDE DEF r
    <3>3. \A t \in Slots : pc[t] = "logged" => root[t] # r
      BY <3>1 DEF IndInv, TypeInv, RequestsOK
    <3>4. /\ \A i \in DOMAIN public_keys :
               public_keys[i].merkle_root # r /\ public_keys[i].revoke_root # r
          /\ \A i \in DOMAIN auxiliary_data : auxiliary_data[i].merkle_root # r
      BY <3>1 DEF IndInv, KeyInv, KeyEventsLogged, AuxEventsLogged
    <3>5. RootsFresh'
      BY <1>1, <3>2, <3>3, <3>4 DEF IndInv, RequestInv, RootsFresh
    <3>6. SignersKnown'
      BY <1>1, <2>2, <3>2 DEF IndInv, RequestInv, SignersKnown, SubmitMessage
    <3> QED
      BY <3>5, <3>6 DEF RequestInv
  <2> QED
    BY <2>1, <2>2 DEF Submit
<1> QED
  BY <1>4, <1>5, <1>6 DEF IndInv

\* A request that ends, or all of them at a crash, with tables and log as they were.
LEMMA SafetyAbandon ==
    ASSUME IndInv, TypeInv', UNCHANGED <<database, log>>,
           Crash \/ \E s \in Slots : Finish(s)
    PROVE  IndInv'
<1>1. UNCHANGED <<actors, public_keys, auxiliary_data, symmetric_keys, log>>
  BY DEF database
<1>2. AuxEventsLogged' /\ KeyInv'
  BY <1>1, TablesFrame DEF LogGrows
<1>3. ActorNamesUnique'
  BY <1>1 DEF IndInv, ActorNamesUnique
<1>4. RequestInv'
  <2>1. CASE Crash
    BY <2>1 DEF Crash, RequestInv, RootsFresh, SignersKnown
  <2>2. CASE \E s \in Slots : Finish(s)
    BY <1>1, <2>2, FinishFrame
  <2> QED
    BY <2>1, <2>2
<1> QED
  BY <1>2, <1>3, <1>4 DEF IndInv

\* The new row: its root was nobody's, its signer is self or a row before it.
LEMMA SafetyAddKey ==
    ASSUME IndInv, TypeInv', NEW s \in Slots, ProcessAddKey(s)
    PROVE  IndInv'
<1> DEFINE n == Len(public_keys) + 1
           r == root[s]
           m == msg[s]
<1>1. /\ pc[s] = "logged" /\ m \in Message /\ m.action = "AddKey"
      /\ r \in DOMAIN log /\ r \in Nat /\ log[r] = m
  BY ProcessingTyped DEF ProcessAddKey, Processing, IndInv
<1>2. /\ DOMAIN public_keys' = DOMAIN public_keys \cup {n}
      /\ DOMAIN public_keys = 1..Len(public_keys) /\ Len(public_keys) \in Nat
      /\ n \notin DOMAIN public_keys
      /\ \A i \in DOMAIN public_keys : public_keys'[i] = public_keys[i]
      /\ public_keys'[n].public_key = m.public_key
      /\ public_keys'[n].merkle_root = r
      /\ public_keys'[n].revoke_root = NoRoot
  <2> DEFINE new == [actor_id |-> ActorID(actors', m.actor), public_key |-> m.public_key,
                     merkle_root |-> r, revoke_root |-> NoRoot]
  <2>1. public_keys' = Append(public_keys, new)
    BY DEF ProcessAddKey
  <2>2. public_keys \in Seq(KeyRow)
    BY DEF IndInv, TypeInv, TypeOK
  <2>3. /\ new.public_key = m.public_key /\ new.merkle_root = r /\ new.revoke_root = NoRoot
    OBVIOUS
  <2> HIDE DEF new
  <2>4. /\ Len(public_keys) \in Nat /\ DOMAIN public_keys = 1..Len(public_keys)
        /\ DOMAIN Append(public_keys, new) = DOMAIN public_keys \cup {n}
        /\ \A i \in DOMAIN public_keys : Append(public_keys, new)[i] = public_keys[i]
        /\ Append(public_keys, new)[n] = new
    BY <2>2
  <2> QED
    BY <2>1, <2>3, <2>4
<1>3. log' = log /\ auxiliary_data' = auxiliary_data
  BY DEF ProcessAddKey
<1>4. \A i \in DOMAIN public_keys :
        public_keys[i].merkle_root # r /\ public_keys[i].revoke_root # r
  BY <1>1 DEF IndInv, RequestInv, RootsFresh
<1>5. NoRoot \notin DOMAIN log /\ NoRoot \notin Nat
  BY Numbers, ConstantsAssumption DEF IndInv
<1> HIDE DEF n, r, m
<1>6. ActorNamesUnique'
  <2>1. m.actor \in Actors /\ actors' = GetOrCreateActor(m.actor)
    BY <1>1, MessageFields DEF ProcessAddKey, m
  <2> QED
    BY <2>1, ActorCreated DEF IndInv, TypeInv, TypeOK, ActorNamesUnique
<1>7. AuxEventsLogged'
  BY <1>3, AuxFrame DEF LogGrows
<1>8. KeyEventsLogged'
  BY <1>1, <1>2, <1>3, <1>5 DEF IndInv, KeyInv, KeyEventsLogged
<1>9. EntriesUsedOnce'
  BY <1>2, <1>3, <1>4, <1>5 DEF IndInv, KeyInv, EntriesUsedOnce
<1>10. SignerEnrolled'
  <2>1. ASSUME NEW i \in DOMAIN public_keys
        PROVE  LET l == log'[public_keys'[i].merkle_root] IN
               \/ l.signer = l.public_key
               \/ \E k \in 1..(i - 1) : public_keys'[k].public_key = l.signer
    <3>1. /\ public_keys'[i] = public_keys[i]
          /\ \A k \in 1..(i - 1) : public_keys'[k] = public_keys[k]
      BY <1>2
    <3>2. LET l == log[public_keys[i].merkle_root] IN
          \/ l.signer = l.public_key
          \/ \E k \in 1..(i - 1) : public_keys[k].public_key = l.signer
      BY DEF IndInv, KeyInv, SignerEnrolled
    <3> QED
      BY <1>3, <3>1, <3>2
  <2>2. \/ m.signer = m.public_key
        \/ \E j \in 1..Len(public_keys) : public_keys[j].public_key = m.signer
    BY <1>1, <1>2 DEF IndInv, RequestInv, SignersKnown, m
  <2>3. \/ m.signer = m.public_key
        \/ \E k \in 1..(n - 1) : public_keys'[k].public_key = m.signer
    BY <1>2, <2>2 DEF n
  <2>4. log'[public_keys'[n].merkle_root] = m
    BY <1>1, <1>2, <1>3
  <2> QED
    BY <1>2, <2>1, <2>3, <2>4 DEF SignerEnrolled
<1>11. ShredRows'
  BY <1>2 DEF ProcessAddKey, StoreSymmetricKeys, IndInv, KeyInv, ShredRows, r
<1>12. /\ pc' = [pc EXCEPT ![s] = "idle"]
       /\ root' = [root EXCEPT ![s] = NoRoot]
       /\ msg' = [msg EXCEPT ![s] = NoMsg]
       /\ pc \in [Slots -> {"idle", "validated", "logged"}]
       /\ root \in [Slots -> Nat \cup {NoRoot}]
       /\ msg \in [Slots -> Message \cup {NoMsg}]
  BY DEF ProcessAddKey, Finish, IndInv, TypeInv, TypeOK
<1>13. RootsFresh'
  <2>1. \A t \in Slots : pc[t] = "logged" /\ t # s => root[t] # r /\ root[t] # NoRoot
    BY <1>1, <1>5, ProcessingTyped DEF IndInv, RequestInv, RootsFresh, r
  <2> QED
    BY <1>2, <1>3, <1>12, <2>1 DEF IndInv, RequestInv, RootsFresh
<1>14. SignersKnown'
  BY <1>2, <1>12 DEF IndInv, RequestInv, SignersKnown
<1> QED
  BY <1>6, <1>7, <1>8, <1>9, <1>10, <1>11, <1>13, <1>14 DEF IndInv, KeyInv, RequestInv

(* A revocation: some live rows get one root, which is an administrator's or *)
(* the log entry of the request, and the other columns stay.                 *)
Revokes(rows, r) ==
    /\ rows \subseteq DOMAIN public_keys
    /\ DOMAIN public_keys' = DOMAIN public_keys
    /\ \A i \in DOMAIN public_keys :
         /\ public_keys'[i].actor_id = public_keys[i].actor_id
         /\ public_keys'[i].public_key = public_keys[i].public_key
         /\ public_keys'[i].merkle_root = public_keys[i].merkle_root
         /\ IF i \in rows
            THEN public_keys[i].revoke_root = NoRoot /\ public_keys'[i].revoke_root = r
            ELSE public_keys'[i].revoke_root = public_keys[i].revoke_root

LEMMA RevokeKeyRevokes ==
    ASSUME TypeInv, NEW s \in Slots, ProcessRevokeKey(s)
    PROVE  \E i \in DOMAIN public_keys :
             Revokes({i}, root[s]) /\ public_keys[i].public_key = msg[s].public_key
<1>1. PICK i \in DOMAIN public_keys :
        /\ public_keys[i].public_key = msg[s].public_key
        /\ public_keys[i].revoke_root = NoRoot
        /\ public_keys' = RevokeKey(i, root[s])
  BY DEF ProcessRevokeKey, FindKeyToRevoke, ListKeysForActor
<1>2. \A j \in DOMAIN public_keys : public_keys[j] \in KeyRow
  BY Numbers
<1>3. Revokes({i}, root[s])
  BY <1>1, <1>2 DEF RevokeKey, Revokes, KeyRow
<1> QED
  BY <1>1, <1>3

LEMMA BurnRevokes ==
    ASSUME TypeInv, NEW a, NEW r, BurnDown(a, r)
    PROVE  Revokes({i \in DOMAIN public_keys : /\ public_keys[i].actor_id = ActorID(actors, a)
                                               /\ public_keys[i].revoke_root = NoRoot}, r)
<1>1. \A j \in DOMAIN public_keys : public_keys[j] \in KeyRow
  BY Numbers
<1>2. public_keys' = RevokeAllKeysForActor(ActorID(actors, a), r)
  BY DEF BurnDown
<1> QED
  BY <1>1, <1>2 DEF RevokeAllKeysForActor, Revokes, KeyRow

\* What a revocation preserves, given a root that may revoke these rows.
LEMMA RevocationFrame ==
    ASSUME IndInv, NEW rows, NEW r, Revokes(rows, r),
           UNCHANGED <<log, auxiliary_data>>,
           \/ r = AdminRoot
           \/ r \in DOMAIN log /\ log[r].action = "BurnDown"
           \/ /\ r \in DOMAIN log /\ log[r].action = "RevokeKey"
              /\ \E i \in DOMAIN public_keys :
                   rows = {i} /\ public_keys[i].public_key = log[r].public_key
              /\ \A j \in DOMAIN public_keys : public_keys[j].revoke_root # r
    PROVE  KeyEventsLogged' /\ EntriesUsedOnce' /\ SignerEnrolled' /\ AuxEventsLogged'
<1>1. AdminRoot \notin DOMAIN log /\ AdminRoot \notin Nat
  BY Numbers, ConstantsAssumption DEF IndInv
<1>2. KeyEventsLogged'
  BY <1>1 DEF IndInv, KeyInv, KeyEventsLogged, Revokes
<1>3. EntriesUsedOnce'
  <2>1. ASSUME NEW i \in DOMAIN public_keys, NEW j \in DOMAIN public_keys,
               public_keys'[i].merkle_root = public_keys'[j].merkle_root
        PROVE  i = j
    BY <2>1 DEF IndInv, KeyInv, EntriesUsedOnce, Revokes
  <2>2. ASSUME NEW i \in DOMAIN public_keys, NEW j \in DOMAIN public_keys,
               public_keys'[i].revoke_root = public_keys'[j].revoke_root,
               public_keys'[i].revoke_root \in DOMAIN log,
               log[public_keys'[i].revoke_root].action = "RevokeKey"
        PROVE  i = j
    BY <1>1, <2>2 DEF IndInv, KeyInv, EntriesUsedOnce, Revokes
  <2>3. DOMAIN public_keys' = DOMAIN public_keys
    BY DEF Revokes
  <2> QED
    BY <2>1, <2>2, <2>3 DEF IndInv, KeyInv, EntriesUsedOnce
<1>4. SignerEnrolled'
  <2>1. DOMAIN public_keys = 1..Len(public_keys) /\ Len(public_keys) \in Nat
    BY Numbers DEF IndInv
  <2>2. ASSUME NEW i \in DOMAIN public_keys, NEW j \in 1..(i - 1)
        PROVE  j \in DOMAIN public_keys /\ public_keys'[j].public_key = public_keys[j].public_key
    BY <2>1 DEF Revokes
  <2> QED
    BY <2>2 DEF IndInv, KeyInv, SignerEnrolled, Revokes
<1>5. AuxEventsLogged'
  BY DEF IndInv, AuxEventsLogged
<1> QED
  BY <1>2, <1>3, <1>4, <1>5

\* The other requests' roots stay fresh when rows get root r and its request ends.
LEMMA RevocationRequests ==
    ASSUME IndInv, NEW rows, NEW r, Revokes(rows, r), UNCHANGED auxiliary_data,
           \/ r = AdminRoot /\ UNCHANGED requests
           \/ \E s \in Slots : pc[s] = "logged" /\ r = root[s] /\ Finish(s)
    PROVE  RequestInv'
<1>1. /\ pc \in [Slots -> {"idle", "validated", "logged"}]
      /\ root \in [Slots -> Nat \cup {NoRoot}]
      /\ msg \in [Slots -> Message \cup {NoMsg}]
      /\ \A t \in Slots : pc[t] = "logged" => root[t] \in Nat
  BY ProcessingTyped DEF IndInv, TypeInv, TypeOK
<1>2. CASE r = AdminRoot /\ UNCHANGED requests
  <2>1. \A t \in Slots : pc[t] = "logged" => root[t] # r
    BY <1>1, <1>2, ConstantsAssumption
  <2>2. RootsFresh'
    BY <1>2, <2>1 DEF IndInv, RequestInv, RootsFresh, Revokes, requests
  <2>3. SignersKnown'
    BY <1>2 DEF IndInv, RequestInv, SignersKnown, Revokes, requests
  <2> QED
    BY <2>2, <2>3 DEF RequestInv
<1>3. ASSUME NEW s \in Slots, pc[s] = "logged", r = root[s], Finish(s)
      PROVE  RequestInv'
  <2>1. \A t \in Slots : pc[t] = "logged" /\ t # s => root[t] # r
    BY <1>3 DEF IndInv, RequestInv, RootsFresh
  <2>2. RootsFresh'
    BY <1>1, <1>3, <2>1 DEF IndInv, RequestInv, RootsFresh, Revokes, Finish
  <2>3. SignersKnown'
    BY <1>1, <1>3 DEF IndInv, RequestInv, SignersKnown, Revokes, Finish
  <2> QED
    BY <2>2, <2>3 DEF RequestInv
<1> QED
  BY <1>2, <1>3

LEMMA SafetyRevokeKey ==
    ASSUME IndInv, TypeInv', NEW s \in Slots, ProcessRevokeKey(s)
    PROVE  IndInv'
<1>1. /\ pc[s] = "logged" /\ msg[s].action = "RevokeKey"
      /\ root[s] \in DOMAIN log /\ log[root[s]] = msg[s]
  BY ProcessingTyped DEF ProcessRevokeKey, Processing, IndInv
<1>2. PICK i \in DOMAIN public_keys :
        Revokes({i}, root[s]) /\ public_keys[i].public_key = msg[s].public_key
  BY RevokeKeyRevokes DEF IndInv
<1>3. /\ UNCHANGED <<actors, auxiliary_data, log>> /\ Finish(s)
      /\ symmetric_keys' \subseteq symmetric_keys \cup {root[s]}
  BY DEF ProcessRevokeKey, StoreSymmetricKeys
<1>4. \A j \in DOMAIN public_keys : public_keys[j].revoke_root # root[s]
  BY <1>1 DEF IndInv, RequestInv, RootsFresh
<1>5. KeyEventsLogged' /\ EntriesUsedOnce' /\ SignerEnrolled' /\ AuxEventsLogged'
  BY <1>1, <1>2, <1>3, <1>4, RevocationFrame
<1>6. RequestInv'
  BY <1>1, <1>2, <1>3, RevocationRequests
<1>7. ShredRows'
  <2>1. ASSUME NEW r \in symmetric_keys'
        PROVE  \E j \in DOMAIN public_keys' :
                 public_keys'[j].merkle_root = r \/ public_keys'[j].revoke_root = r
    <3>1. CASE r = root[s]
      BY <1>2, <3>1 DEF Revokes
    <3>2. CASE r # root[s]
      <4>1. PICK j \in DOMAIN public_keys :
              public_keys[j].merkle_root = r \/ public_keys[j].revoke_root = r
        BY <1>3, <3>2 DEF IndInv, KeyInv, ShredRows
      <4>2. r # NoRoot
        BY <1>3, <3>2, Numbers DEF IndInv, TypeInv, TypeOK
      <4> QED
        BY <1>2, <4>1, <4>2 DEF Revokes
    <3> QED
      BY <3>1, <3>2
  <2> QED
    BY <2>1 DEF ShredRows
<1>8. ActorNamesUnique'
  BY <1>3 DEF IndInv, ActorNamesUnique
<1> QED
  BY <1>5, <1>6, <1>7, <1>8 DEF IndInv, KeyInv

\* A symmetric key that survives a burn hangs under a row the burn did not touch.
LEMMA BurnShreds ==
    ASSUME IndInv, NEW a, NEW r, BurnDown(a, r)
    PROVE  ShredRows'
<1> DEFINE id == ActorID(actors, a)
           rows == {i \in DOMAIN public_keys : /\ public_keys[i].actor_id = id
                                               /\ public_keys[i].revoke_root = NoRoot}
<1>1. Revokes(rows, r)
  BY BurnRevokes DEF IndInv
<1>2. symmetric_keys' = symmetric_keys \ GetMessageHashesForActor(id)
  BY DEF BurnDown
<1>3. ASSUME NEW h \in symmetric_keys'
      PROVE  \E i \in DOMAIN public_keys' :
               public_keys'[i].merkle_root = h \/ public_keys'[i].revoke_root = h
  <2>1. PICK i \in DOMAIN public_keys :
          public_keys[i].merkle_root = h \/ public_keys[i].revoke_root = h
    BY <1>2 DEF IndInv, KeyInv, ShredRows
  <2>2. h # NoRoot
    BY <1>2, Numbers DEF IndInv, TypeInv, TypeOK
  <2>3. public_keys[i].actor_id # id
    BY <1>2, <2>1, <2>2 DEF GetMessageHashesForActor
  <2> QED
    BY <1>1, <2>1, <2>3 DEF Revokes
<1> QED
  BY <1>3 DEF ShredRows

LEMMA SafetyBurn ==
    ASSUME IndInv, TypeInv',
           \/ \E s \in Slots : ProcessBurnDown(s)
           \/ \E a \in Actors : CryptoShred(a)
    PROVE  IndInv'
<1>1. ASSUME NEW s \in Slots, ProcessBurnDown(s) PROVE IndInv'
  <2>1. /\ pc[s] = "logged" /\ msg[s].action = "BurnDown"
        /\ root[s] \in DOMAIN log /\ log[root[s]] = msg[s]
    BY <1>1, ProcessingTyped DEF ProcessBurnDown, Processing, IndInv
  <2>2. /\ BurnDown(msg[s].actor, root[s]) /\ Finish(s)
        /\ UNCHANGED <<actors, auxiliary_data, log>>
    BY <1>1 DEF ProcessBurnDown
  <2>3. PICK rows : Revokes(rows, root[s])
    BY <2>2, BurnRevokes DEF IndInv
  <2>4. KeyEventsLogged' /\ EntriesUsedOnce' /\ SignerEnrolled' /\ AuxEventsLogged'
    BY <2>1, <2>2, <2>3, RevocationFrame
  <2>5. RequestInv'
    BY <2>1, <2>2, <2>3, RevocationRequests
  <2>6. ShredRows'
    BY <2>2, BurnShreds
  <2>7. ActorNamesUnique'
    BY <2>2 DEF IndInv, ActorNamesUnique
  <2> QED
    BY <2>4, <2>5, <2>6, <2>7 DEF IndInv, KeyInv
<1>2. ASSUME NEW a \in Actors, CryptoShred(a) PROVE IndInv'
  <2>1. /\ BurnDown(a, AdminRoot) /\ UNCHANGED requests
        /\ UNCHANGED <<actors, auxiliary_data, log>>
    BY <1>2 DEF CryptoShred
  <2>2. PICK rows : Revokes(rows, AdminRoot)
    BY <2>1, BurnRevokes DEF IndInv
  <2>3. KeyEventsLogged' /\ EntriesUsedOnce' /\ SignerEnrolled' /\ AuxEventsLogged'
    BY <2>1, <2>2, RevocationFrame
  <2>4. RequestInv'
    BY <2>1, <2>2, RevocationRequests
  <2>5. ShredRows'
    BY <2>1, BurnShreds
  <2>6. ActorNamesUnique'
    BY <2>1 DEF IndInv, ActorNamesUnique
  <2> QED
    BY <2>3, <2>4, <2>5, <2>6 DEF IndInv, KeyInv
<1> QED
  BY <1>1, <1>2

\* MoveIdentity takes a free name only, so names stay unique.
LEMMA SafetyMoveIdentity ==
    ASSUME IndInv, TypeInv', NEW s \in Slots, ProcessMoveIdentity(s)
    PROVE  IndInv'
<1> DEFINE id == ActorID(actors, msg[s].old_actor)
<1>1. /\ UNCHANGED <<public_keys, auxiliary_data, symmetric_keys, log>> /\ Finish(s)
      /\ actors' = [actors EXCEPT ![id].actor_id = msg[s].new_actor]
      /\ \A i \in DOMAIN actors : actors[i].actor_id # msg[s].new_actor
  BY DEF ProcessMoveIdentity, ActorExists
<1>2. \A i \in DOMAIN actors : actors[i] \in ActorRow
  BY DEF IndInv, TypeInv, TypeOK
<1> HIDE DEF id
<1>3. ActorNamesUnique'
  BY <1>1, <1>2 DEF IndInv, ActorNamesUnique, ActorRow
<1>4. AuxEventsLogged' /\ KeyInv'
  BY <1>1, TablesFrame DEF LogGrows
<1>5. RequestInv'
  BY <1>1, FinishFrame
<1> QED
  BY <1>3, <1>4, <1>5 DEF IndInv

LEMMA SafetySetFireproof ==
    ASSUME IndInv, TypeInv', NEW s \in Slots, NEW flag \in BOOLEAN, SetFireproof(s, flag)
    PROVE  IndInv'
<1> DEFINE id == ActorID(actors, msg[s].actor)
<1>1. /\ UNCHANGED <<public_keys, auxiliary_data, symmetric_keys, log>> /\ Finish(s)
      /\ actors' = [actors EXCEPT ![id].is_fireproof = flag]
  BY DEF SetFireproof
<1>2. \A i \in DOMAIN actors : actors[i] \in ActorRow
  BY DEF IndInv, TypeInv, TypeOK
<1> HIDE DEF id
<1>3. ActorNamesUnique'
  BY <1>1, <1>2 DEF IndInv, ActorNamesUnique, ActorRow
<1>4. AuxEventsLogged' /\ KeyInv'
  BY <1>1, TablesFrame DEF LogGrows
<1>5. RequestInv'
  BY <1>1, FinishFrame
<1> QED
  BY <1>3, <1>4, <1>5 DEF IndInv

LEMMA SafetyAddAuxData ==
    ASSUME IndInv, TypeInv', NEW s \in Slots, ProcessAddAuxData(s)
    PROVE  IndInv'
<1> DEFINE n == Len(auxiliary_data) + 1
           r == root[s]
           new == [actor_id |-> ActorID(actors', msg[s].actor), merkle_root |-> r,
                   revoke_root |-> NoRoot]
<1>1. /\ pc[s] = "logged" /\ msg[s] \in Message /\ msg[s].action = "AddAuxData"
      /\ msg[s].valid /\ r \in DOMAIN log /\ r \in Nat /\ log[r] = msg[s]
  BY ProcessingTyped DEF ProcessAddAuxData, Processing, IndInv
<1>2. /\ UNCHANGED <<public_keys, symmetric_keys, log>> /\ Finish(s)
      /\ actors' = GetOrCreateActor(msg[s].actor)
      /\ auxiliary_data' = Append(auxiliary_data, new)
  BY DEF ProcessAddAuxData
<1>3. new.merkle_root = r /\ new.revoke_root = NoRoot
  OBVIOUS
<1>4. /\ DOMAIN auxiliary_data' = DOMAIN auxiliary_data \cup {n}
      /\ n \notin DOMAIN auxiliary_data
      /\ \A i \in DOMAIN auxiliary_data : auxiliary_data'[i] = auxiliary_data[i]
      /\ auxiliary_data'[n].merkle_root = r
      /\ auxiliary_data'[n].revoke_root = NoRoot
  <2>1. auxiliary_data \in Seq(AuxRow)
    BY DEF IndInv, TypeInv, TypeOK
  <2> HIDE DEF new
  <2>2. /\ DOMAIN Append(auxiliary_data, new) = DOMAIN auxiliary_data \cup {n}
        /\ n \notin DOMAIN auxiliary_data
        /\ \A i \in DOMAIN auxiliary_data : Append(auxiliary_data, new)[i] = auxiliary_data[i]
        /\ Append(auxiliary_data, new)[n] = new
    BY <2>1
  <2> QED
    BY <1>2, <1>3, <2>2
<1>5. NoRoot \notin Nat
  BY ConstantsAssumption
<1>6. \A i \in DOMAIN auxiliary_data : auxiliary_data[i].merkle_root # r
  BY <1>1 DEF IndInv, RequestInv, RootsFresh
<1> HIDE DEF n, new, r
<1>7. ActorNamesUnique'
  <2>1. msg[s].actor \in Actors
    BY <1>1, MessageFields
  <2> QED
    BY <1>2, <2>1, ActorCreated DEF IndInv, TypeInv, TypeOK, ActorNamesUnique
<1>8. AuxEventsLogged'
  BY <1>1, <1>2, <1>4, <1>5 DEF IndInv, AuxEventsLogged
<1>9. KeyEventsLogged' /\ SignerEnrolled' /\ ShredRows'
  BY <1>2, KeyFrame DEF LogGrows
<1>10. EntriesUsedOnce'
  BY <1>2, <1>4, <1>6 DEF IndInv, KeyInv, EntriesUsedOnce
<1>11. /\ pc' = [pc EXCEPT ![s] = "idle"]
       /\ root' = [root EXCEPT ![s] = NoRoot]
       /\ msg' = [msg EXCEPT ![s] = NoMsg]
       /\ pc \in [Slots -> {"idle", "validated", "logged"}]
       /\ root \in [Slots -> Nat \cup {NoRoot}]
       /\ msg \in [Slots -> Message \cup {NoMsg}]
  BY <1>2 DEF Finish, IndInv, TypeInv, TypeOK
<1>12. RequestInv'
  <2>1. \A t \in Slots : pc[t] = "logged" /\ t # s => root[t] # r
    BY <1>1 DEF IndInv, RequestInv, RootsFresh, r
  <2>2. RootsFresh'
    BY <1>2, <1>4, <1>11, <2>1 DEF IndInv, RequestInv, RootsFresh
  <2>3. SignersKnown'
    BY <1>2, <1>11 DEF IndInv, RequestInv, SignersKnown
  <2> QED
    BY <2>2, <2>3 DEF RequestInv
<1> QED
  BY <1>7, <1>8, <1>9, <1>10, <1>12 DEF IndInv, KeyInv

LEMMA SafetyRevokeAuxData ==
    ASSUME IndInv, TypeInv', NEW s \in Slots, ProcessRevokeAuxData(s)
    PROVE  IndInv'
<1> DEFINE id == msg[s].aux_id
<1>1. /\ msg[s].action = "RevokeAuxData" /\ pc[s] = "logged"
      /\ root[s] \in DOMAIN log /\ log[root[s]] = msg[s]
  BY ProcessingTyped DEF ProcessRevokeAuxData, Processing, IndInv
<1>2. /\ UNCHANGED <<actors, public_keys, symmetric_keys, log>> /\ Finish(s)
      /\ id \in DOMAIN auxiliary_data
      /\ auxiliary_data' = [auxiliary_data EXCEPT ![id].revoke_root = root[s]]
  BY DEF ProcessRevokeAuxData, LiveAux
<1>3. \A i \in DOMAIN auxiliary_data : auxiliary_data[i] \in AuxRow
  BY Numbers DEF IndInv
<1> HIDE DEF id
<1>4. /\ DOMAIN auxiliary_data' = DOMAIN auxiliary_data
      /\ \A i \in DOMAIN auxiliary_data :
           /\ auxiliary_data'[i].merkle_root = auxiliary_data[i].merkle_root
           /\ auxiliary_data'[i].revoke_root =
                IF i = id THEN root[s] ELSE auxiliary_data[i].revoke_root
  BY <1>2, <1>3 DEF AuxRow
<1>5. AuxEventsLogged'
  BY <1>1, <1>2, <1>4 DEF IndInv, AuxEventsLogged, id
<1>6. KeyEventsLogged' /\ SignerEnrolled' /\ ShredRows'
  BY <1>2, KeyFrame DEF LogGrows
<1>7. EntriesUsedOnce'
  BY <1>2, <1>4 DEF IndInv, KeyInv, EntriesUsedOnce
<1>8. RequestInv'
  BY <1>2, <1>4 DEF Finish, IndInv, TypeInv, TypeOK, RequestInv, RootsFresh, SignersKnown
<1>9. ActorNamesUnique'
  BY <1>2 DEF IndInv, ActorNamesUnique
<1> QED
  BY <1>5, <1>6, <1>7, <1>8, <1>9 DEF IndInv, KeyInv

LEMMA SafetyNext == ASSUME IndInv, [Next]_vars PROVE IndInv'
<1>1. TypeInv'
  BY TypeNext DEF IndInv
<1>2. ASSUME NEW s \in Slots, Validate(s) PROVE IndInv'
  BY <1>1, <1>2, SafetyValidate
<1>3. ASSUME NEW s \in Slots, Submit(s) PROVE IndInv'
  BY <1>1, <1>3, SafetySubmit
<1>4. ASSUME NEW s \in Slots, Process(s) PROVE IndInv'
  <2>1. CASE RejectSymmetricKeys(s) \/ ProcessRejected(s) \/ DatabaseFault(s)
    BY <1>1, <2>1, SafetyAbandon DEF RejectSymmetricKeys, ProcessRejected, DatabaseFault
  <2>2. CASE ProcessAddKey(s)
    BY <1>1, <2>2, SafetyAddKey
  <2>3. CASE ProcessRevokeKey(s)
    BY <1>1, <2>3, SafetyRevokeKey
  <2>4. CASE ProcessMoveIdentity(s)
    BY <1>1, <2>4, SafetyMoveIdentity
  <2>5. CASE ProcessBurnDown(s)
    BY <1>1, <2>5, SafetyBurn
  <2>6. CASE ProcessFireproof(s) \/ ProcessUndoFireproof(s)
    BY <1>1, <2>6, SafetySetFireproof DEF ProcessFireproof, ProcessUndoFireproof
  <2>7. CASE ProcessAddAuxData(s)
    BY <1>1, <2>7, SafetyAddAuxData
  <2>8. CASE ProcessRevokeAuxData(s)
    BY <1>1, <2>8, SafetyRevokeAuxData
  <2> QED
    BY <1>4, <2>1, <2>2, <2>3, <2>4, <2>5, <2>6, <2>7, <2>8 DEF Process
<1>5. ASSUME NEW a \in Actors, CryptoShred(a) PROVE IndInv'
  BY <1>1, <1>5, SafetyBurn
<1>6. CASE Crash
  BY <1>1, <1>6, SafetyAbandon DEF Crash
<1>7. CASE UNCHANGED vars
  <2>1. UNCHANGED <<actors, public_keys, auxiliary_data, symmetric_keys, log, pc, msg, root>>
    BY <1>7 DEF vars
  <2>2. AuxEventsLogged' /\ KeyInv'
    BY <1>1, <2>1, TablesFrame DEF LogGrows
  <2>3. ActorNamesUnique' /\ RequestInv'
    BY <2>1 DEF IndInv, ActorNamesUnique, RequestInv, RootsFresh, SignersKnown
  <2> QED
    BY <1>1, <2>2, <2>3 DEF IndInv
<1> QED
  BY <1>2, <1>3, <1>4, <1>5, <1>6, <1>7 DEF Next

-----------------------------------------------------------------------------
(* The theorems.                                                             *)

\* The inductive invariant: requests in flight carry unused roots and known
\* signers, and the tables agree with the log.
THEOREM Safety == Spec => []IndInv
<1>1. Init => IndInv
  BY SafetyInit
<1>2. IndInv /\ [Next]_vars => IndInv'
  BY SafetyNext
<1> QED
  BY <1>1, <1>2, PTL DEF Spec

\* Every key row, and every revocation but an administrator's, is accounted for by an
\* entry of the transparency log.
THEOREM Transparency == Spec => []KeyEventsLogged
<1>1. IndInv => KeyEventsLogged
  BY DEF IndInv, KeyInv
<1> QED
  BY <1>1, Safety, PTL

\* So is every auxiliary-data row and its revocation.
THEOREM AuxTransparency == Spec => []AuxEventsLogged
<1>1. IndInv => AuxEventsLogged
  BY DEF IndInv
<1> QED
  BY <1>1, Safety, PTL

\* No log entry ever takes effect twice, whatever is retried, lost or interleaved.
THEOREM AtMostOnce == Spec => []EntriesUsedOnce
<1>1. IndInv => EntriesUsedOnce
  BY DEF IndInv, KeyInv
<1> QED
  BY <1>1, Safety, PTL

\* Every key in the directory signed itself in or was signed in by a key enrolled
\* before it (processAddKeyAction).
THEOREM ChainOfTrust == Spec => []SignerEnrolled
<1>1. IndInv => SignerEnrolled
  BY DEF IndInv, KeyInv
<1> QED
  BY <1>1, Safety, PTL

\* A name never denotes two accounts, across creation and MoveIdentity.
THEOREM OneAccountPerName == Spec => []ActorNamesUnique
<1>1. IndInv => ActorNamesUnique
  BY DEF IndInv
<1> QED
  BY <1>1, Safety, PTL

\* A BurnDown or crypto-shred of the right actor can reach every stored symmetric key.
THEOREM Shreddability == Spec => []ShredReachable
<1>1. IndInv => ShredReachable
  BY ShredRowsReachable DEF IndInv, KeyInv
<1> QED
  BY <1>1, Safety, PTL

\* What each step does to the rows that were there.
LEMMA KeyHistoryNext == ASSUME IndInv, [Next]_vars PROVE KeyHistoryStep
<1>1. ASSUME public_keys' = public_keys PROVE KeyHistoryStep
  BY <1>1 DEF KeyHistoryStep
<1>2. ASSUME NEW rows, NEW r, Revokes(rows, r) PROVE KeyHistoryStep
  BY <1>2 DEF Revokes, KeyHistoryStep
<1>3. ASSUME NEW s \in Slots, Process(s) PROVE KeyHistoryStep
  <2>1. CASE ProcessAddKey(s)
    <3>1. public_keys \in Seq(KeyRow)
      BY DEF IndInv, TypeInv, TypeOK
    <3>2. PICK e : public_keys' = Append(public_keys, e)
      BY <2>1 DEF ProcessAddKey
    <3>3. \A i \in DOMAIN public_keys : i \in DOMAIN public_keys' /\ public_keys'[i] = public_keys[i]
      BY <3>1, <3>2
    <3> QED
      BY <3>3 DEF KeyHistoryStep
  <2>2. CASE ProcessRevokeKey(s)
    BY <1>2, <2>2, RevokeKeyRevokes DEF IndInv
  <2>3. CASE ProcessBurnDown(s)
    BY <1>2, <2>3, BurnRevokes DEF IndInv, ProcessBurnDown
  <2>4. CASE ~(ProcessAddKey(s) \/ ProcessRevokeKey(s) \/ ProcessBurnDown(s))
    <3>1. public_keys' = public_keys
      BY <1>3, <2>4 DEF Process, RejectSymmetricKeys, ProcessRejected, DatabaseFault,
         ProcessMoveIdentity, ProcessFireproof, ProcessUndoFireproof, SetFireproof,
         ProcessAddAuxData, ProcessRevokeAuxData, database
    <3> QED
      BY <1>1, <3>1
  <2> QED
    BY <2>1, <2>2, <2>3, <2>4
<1>4. ASSUME NEW a \in Actors, CryptoShred(a) PROVE KeyHistoryStep
  BY <1>2, <1>4, BurnRevokes DEF IndInv, CryptoShred
<1>5. ASSUME NEW s \in Slots, Validate(s) PROVE KeyHistoryStep
  <2>1. public_keys' = public_keys
    BY <1>5, ValidateAccepts DEF Accept, database
  <2> QED
    BY <1>1, <2>1
<1>6. ASSUME NEW s \in Slots, Submit(s) PROVE KeyHistoryStep
  BY <1>1, <1>6 DEF Submit, SubmitMessage, SubmitRefused, SubmitUnanswered, database
<1>7. CASE Crash \/ UNCHANGED vars
  BY <1>1, <1>7 DEF Crash, database, vars
<1> QED
  BY <1>3, <1>4, <1>5, <1>6, <1>7 DEF Next

\* Committed key rows are never altered, and a revocation is never undone or
\* overwritten: FindKeyToRevoke and RevokeAllKeysForActor touch live rows only.
THEOREM KeyHistory == Spec => KeyHistoryAppendOnly
<1>1. IndInv /\ [Next]_vars => [KeyHistoryStep]_vars
  BY KeyHistoryNext
<1> QED
  BY <1>1, Safety, PTL DEF Spec, KeyHistoryAppendOnly

\* A step that stores symmetric keys does so under the root of its own request.
LEMMA StoredUnderOwnRoot ==
    ASSUME IndInv, [Next]_vars, NEW r \in symmetric_keys', r \notin symmetric_keys
    PROVE  \E s \in Slots : pc[s] = "logged" /\ r = root[s]
<1>1. ASSUME NEW s \in Slots, ProcessAddKey(s) \/ ProcessRevokeKey(s)
      PROVE  pc[s] = "logged" /\ r = root[s]
  BY <1>1 DEF ProcessAddKey, ProcessRevokeKey, Processing, StoreSymmetricKeys
<1>2. ASSUME NEW s \in Slots, Process(s), ~(ProcessAddKey(s) \/ ProcessRevokeKey(s))
      PROVE  FALSE
  BY <1>2 DEF Process, RejectSymmetricKeys, ProcessRejected, DatabaseFault,
     ProcessMoveIdentity, ProcessBurnDown, BurnDown, ProcessFireproof,
     ProcessUndoFireproof, SetFireproof, ProcessAddAuxData, ProcessRevokeAuxData, database
<1>3. ASSUME NEW a \in Actors, CryptoShred(a) PROVE FALSE
  BY <1>3 DEF CryptoShred, BurnDown
<1>4. ASSUME NEW s \in Slots, Validate(s) PROVE FALSE
  BY <1>4, ValidateAccepts DEF Accept, database
<1>5. ASSUME NEW s \in Slots, Submit(s) PROVE FALSE
  BY <1>5 DEF Submit, SubmitMessage, SubmitRefused, SubmitUnanswered, database
<1>6. CASE Crash \/ UNCHANGED vars
  BY <1>6 DEF Crash, database, vars
<1> QED
  BY <1>1, <1>2, <1>3, <1>4, <1>5, <1>6 DEF Next

\* Symmetric keys deleted by a burn never come back: keys are stored only under a
\* root that no row has carried yet.
THEOREM ShredIsFinal == Spec => ShredFinal
<1>1. IndInv /\ [Next]_vars => [ShredFinalStep]_vars
  BY StoredUnderOwnRoot DEF ShredFinalStep, IndInv, RequestInv, RootsFresh
<1> QED
  BY <1>1, Safety, PTL DEF Spec, ShredFinal
=============================================================================
