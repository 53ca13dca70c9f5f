--------------------------- MODULE PKDServerPromises ---------------------------
(***************************************************************************)
(* What the comments promise, for every instance.                          *)
(*                                                                         *)
(* A burn shreds what it revokes, with any number of requests at once.     *)
(* ShredComplete is not inductive: a RevokeKey that follows a burn must    *)
(* find no live row among those the burn reached, or it would store        *)
(* symmetric keys there.  BurntRows adds just that.                        *)
(*                                                                         *)
(* The other promises hold of one request at a time: what validation saw   *)
(* is then still so when the transaction runs, and Snapshot says it.       *)
(***************************************************************************)
EXTENDS PKDServerSafety

(* When a burn reached row i, the actor's rows up to i are all revoked and  *)
(* none of their roots has symmetric keys.                                  *)
BurntRows ==
    \A i \in DOMAIN public_keys : \A j \in 1..i :
        /\ public_keys[i].revoke_root \in BurnRoots
        /\ public_keys[j].actor_id = public_keys[i].actor_id
        => /\ public_keys[j].revoke_root # NoRoot
           /\ public_keys[j].merkle_root \notin symmetric_keys
           /\ public_keys[j].revoke_root \notin symmetric_keys

LEMMA BurntRowsShredded == ASSUME BurntRows PROVE ShredComplete
BY DEF BurntRows, ShredComplete

-----------------------------------------------------------------------------
LEMMA ShredInit == ASSUME Init PROVE BurntRows
BY DEF Init, BurntRows

\* NULL is no burn, nor is a root that names another message.
LEMMA BurnRootsLogged ==
    ASSUME TypeInv
    PROVE  /\ NoRoot \notin BurnRoots
           /\ \A r \in BurnRoots : r = AdminRoot \/ log[r].action = "BurnDown"
BY Numbers, ConstantsAssumption DEF BurnRoots

\* A log that only grows makes no burn of a revocation that was none.
LEMMA ShredUntouched ==
    ASSUME IndInv, BurntRows, TypeInv', LogGrows, UNCHANGED <<public_keys, symmetric_keys>>
    PROVE  BurntRows'
<1>1. ASSUME NEW i \in DOMAIN public_keys, public_keys[i].revoke_root \in BurnRoots'
      PROVE  public_keys[i].revoke_root \in BurnRoots
  <2> DEFINE r == public_keys[i].revoke_root
  <2>1. r \in Nat \cup {NoRoot, AdminRoot}
    BY Numbers DEF IndInv, KeyRow
  <2>2. r # NoRoot
    BY <1>1, <2>1, ConstantsAssumption DEF TypeInv, TypeOK, BurnRoots
  <2>3. CASE r = AdminRoot
    BY <2>3 DEF BurnRoots
  <2>4. CASE r \in Nat
    <3>1. r \in DOMAIN log
      BY <2>4 DEF IndInv, KeyInv, KeyEventsLogged
    <3>2. r # AdminRoot
      BY <2>4, ConstantsAssumption
    <3> QED
      BY <1>1, <3>1, <3>2 DEF BurnRoots, LogGrows
  <2> QED
    BY <2>1, <2>2, <2>3, <2>4
<1> QED
  BY <1>1 DEF BurntRows

\* The new row is live, and its root was nobody's.
LEMMA ShredAddKey ==
    ASSUME IndInv, BurntRows, NEW s \in Slots, ProcessAddKey(s)
    PROVE  BurntRows'
<1> DEFINE n == Len(public_keys) + 1
           r == root[s]
<1>1. /\ \A i \in DOMAIN public_keys :
           public_keys[i].merkle_root # r /\ public_keys[i].revoke_root # r
      /\ symmetric_keys' \subseteq symmetric_keys \cup {r}
      /\ log' = log
  BY DEF ProcessAddKey, Processing, StoreSymmetricKeys, IndInv, RequestInv, RootsFresh
<1>2. /\ DOMAIN public_keys = 1..Len(public_keys) /\ Len(public_keys) \in Nat
      /\ DOMAIN public_keys' = DOMAIN public_keys \cup {n}
      /\ \A i \in DOMAIN public_keys : public_keys'[i] = public_keys[i]
      /\ public_keys'[n].revoke_root = NoRoot
  <2> DEFINE new == [actor_id |-> ActorID(actors', msg[s].actor),
                     public_key |-> msg[s].public_key,
                     merkle_root |-> r, revoke_root |-> NoRoot]
  <2>1. public_keys' = Append(public_keys, new) /\ new.revoke_root = NoRoot
    BY DEF ProcessAddKey
  <2> HIDE DEF new
  <2>2. public_keys \in Seq(KeyRow)
    BY DEF IndInv, TypeInv, TypeOK
  <2>3. /\ DOMAIN Append(public_keys, new) = DOMAIN public_keys \cup {n}
        /\ \A i \in DOMAIN public_keys : Append(public_keys, new)[i] = public_keys[i]
        /\ Append(public_keys, new)[n] = new
    BY <2>2
  <2> QED
    BY <2>1, <2>2, <2>3
<1> HIDE DEF n, r
<1>3. BurnRoots' = BurnRoots /\ NoRoot \notin BurnRoots
  BY <1>1, BurnRootsLogged DEF BurnRoots, IndInv
<1>4. ASSUME NEW i \in DOMAIN public_keys', NEW j \in 1..i,
             public_keys'[i].revoke_root \in BurnRoots',
             public_keys'[j].actor_id = public_keys'[i].actor_id
      PROVE  /\ public_keys'[j].revoke_root # NoRoot
             /\ public_keys'[j].merkle_root \notin symmetric_keys'
             /\ public_keys'[j].revoke_root \notin symmetric_keys'
  <2>1. i \in DOMAIN public_keys
    BY <1>2, <1>3, <1>4
  <2>2. j \in DOMAIN public_keys
    BY <1>2, <2>1
  <2>3. /\ public_keys[j].revoke_root # NoRoot
        /\ public_keys[j].merkle_root \notin symmetric_keys
        /\ public_keys[j].revoke_root \notin symmetric_keys
    BY <1>2, <1>3, <1>4, <2>1, <2>2 DEF BurntRows
  <2> QED
    BY <1>1, <1>2, <2>2, <2>3
<1> QED
  BY <1>4 DEF BurntRows

\* The row revoked was live, so no burn had reached it or a later row of its actor.
LEMMA ShredRevokeKey ==
    ASSUME IndInv, BurntRows, NEW s \in Slots, ProcessRevokeKey(s)
    PROVE  BurntRows'
<1> DEFINE r == root[s]
<1>1. /\ \A i \in DOMAIN public_keys :
           public_keys[i].merkle_root # r /\ public_keys[i].revoke_root # r
      /\ symmetric_keys' \subseteq symmetric_keys \cup {r}
      /\ log' = log
  BY DEF ProcessRevokeKey, Processing, StoreSymmetricKeys, IndInv, RequestInv, RootsFresh
<1>2. r \in DOMAIN log /\ log[r].action = "RevokeKey"
  BY ProcessingTyped DEF ProcessRevokeKey, Processing, IndInv
<1>3. PICK k \in DOMAIN public_keys : Revokes({k}, r)
  BY RevokeKeyRevokes DEF IndInv
<1> HIDE DEF r
<1>4. BurnRoots' = BurnRoots /\ r \notin BurnRoots
  BY <1>1, <1>2, BurnRootsLogged, Numbers DEF BurnRoots, IndInv
<1>5. DOMAIN public_keys = 1..Len(public_keys) /\ Len(public_keys) \in Nat
  BY Numbers DEF IndInv
<1>6. ASSUME NEW i \in DOMAIN public_keys', NEW j \in 1..i,
             public_keys'[i].revoke_root \in BurnRoots',
             public_keys'[j].actor_id = public_keys'[i].actor_id
      PROVE  /\ public_keys'[j].revoke_root # NoRoot
             /\ public_keys'[j].merkle_root \notin symmetric_keys'
             /\ public_keys'[j].revoke_root \notin symmetric_keys'
  <2>1. i \in DOMAIN public_keys /\ j \in DOMAIN public_keys
    BY <1>3, <1>5 DEF Revokes
  <2>2. public_keys[i].revoke_root \in BurnRoots
    BY <1>3, <1>4, <1>6, <2>1 DEF Revokes
  <2>3. /\ public_keys[j].revoke_root # NoRoot
        /\ public_keys[j].merkle_root \notin symmetric_keys
        /\ public_keys[j].revoke_root \notin symmetric_keys
    BY <1>3, <1>6, <2>1, <2>2 DEF BurntRows, Revokes
  <2>4. j # k
    BY <1>3, <2>3 DEF Revokes
  <2> QED
    BY <1>1, <1>3, <2>1, <2>3, <2>4 DEF Revokes
<1> QED
  BY <1>6 DEF BurntRows

\* The actor's rows are all revoked now and every root they had is shredded; the
\* root they got has no symmetric keys.
LEMMA ShredBurn ==
    ASSUME IndInv, BurntRows, NEW a, NEW r, BurnDown(a, r), UNCHANGED log,
           r # NoRoot, r \notin symmetric_keys
    PROVE  BurntRows'
<1> DEFINE id == ActorID(actors, a)
           rows == {i \in DOMAIN public_keys : /\ public_keys[i].actor_id = id
                                               /\ public_keys[i].revoke_root = NoRoot}
<1>1. Revokes(rows, r)
  BY BurnRevokes DEF IndInv
<1>2. symmetric_keys' = symmetric_keys \ GetMessageHashesForActor(id)
  BY DEF BurnDown
<1>3. BurnRoots' = BurnRoots
  BY DEF BurnRoots
<1>4. DOMAIN public_keys = 1..Len(public_keys) /\ Len(public_keys) \in Nat
  BY Numbers DEF IndInv
<1>5. ASSUME NEW j \in DOMAIN public_keys, public_keys[j].actor_id = id
      PROVE  /\ public_keys'[j].revoke_root # NoRoot
             /\ public_keys'[j].merkle_root \notin symmetric_keys'
             /\ public_keys'[j].revoke_root \notin symmetric_keys'
  <2>1. public_keys[j].merkle_root \in GetMessageHashesForActor(id)
    BY <1>5 DEF GetMessageHashesForActor
  <2>2. CASE public_keys[j].revoke_root = NoRoot
    BY <1>1, <1>2, <1>5, <2>1, <2>2 DEF Revokes
  <2>3. CASE public_keys[j].revoke_root # NoRoot
    <3>1. public_keys[j].revoke_root \in GetMessageHashesForActor(id)
      BY <1>5, <2>3 DEF GetMessageHashesForActor
    <3> QED
      BY <1>1, <1>2, <1>5, <2>1, <2>3, <3>1 DEF Revokes
  <2> QED
    BY <2>2, <2>3
<1> HIDE DEF id
<1>6. ASSUME NEW i \in DOMAIN public_keys', NEW j \in 1..i,
             public_keys'[i].revoke_root \in BurnRoots',
             public_keys'[j].actor_id = public_keys'[i].actor_id
      PROVE  /\ public_keys'[j].revoke_root # NoRoot
             /\ public_keys'[j].merkle_root \notin symmetric_keys'
             /\ public_keys'[j].revoke_root \notin symmetric_keys'
  <2>1. i \in DOMAIN public_keys /\ j \in DOMAIN public_keys
    BY <1>1, <1>4 DEF Revokes
  <2>2. public_keys[j].actor_id = public_keys[i].actor_id
    BY <1>1, <1>6, <2>1 DEF Revokes
  <2>3. CASE public_keys[j].actor_id = id
    BY <1>5, <2>1, <2>3
  <2>4. CASE public_keys[j].actor_id # id
    <3>1. i \notin rows /\ j \notin rows
      BY <2>2, <2>4
    <3>2. /\ public_keys'[i].revoke_root = public_keys[i].revoke_root
          /\ public_keys'[j].revoke_root = public_keys[j].revoke_root
          /\ public_keys'[j].merkle_root = public_keys[j].merkle_root
      BY <1>1, <2>1, <3>1 DEF Revokes
    <3> QED
      BY <1>2, <1>3, <1>6, <2>1, <2>2, <3>2 DEF BurntRows
  <2> QED
    BY <2>3, <2>4
<1> QED
  BY <1>6 DEF BurntRows

LEMMA ShredBurnDown ==
    ASSUME IndInv, BurntRows, NEW s \in Slots, ProcessBurnDown(s)
    PROVE  BurntRows'
<1>1. pc[s] = "logged" /\ root[s] \in DOMAIN log
  BY ProcessingTyped DEF ProcessBurnDown, Processing, IndInv
<1>2. root[s] # NoRoot
  BY <1>1, Numbers DEF IndInv
<1>3. root[s] \notin symmetric_keys
  BY <1>1 DEF IndInv, KeyInv, ShredRows, RequestInv, RootsFresh
<1> QED
  BY <1>2, <1>3, ShredBurn DEF ProcessBurnDown

LEMMA ShredCryptoShred ==
    ASSUME IndInv, BurntRows, NEW a \in Actors, CryptoShred(a)
    PROVE  BurntRows'
<1>1. AdminRoot # NoRoot /\ AdminRoot \notin symmetric_keys
  BY Numbers, ConstantsAssumption DEF IndInv, TypeInv, TypeOK
<1> QED
  BY <1>1, ShredBurn DEF CryptoShred

\* Every other step leaves keys and symmetric keys alone, and the log at most grows.
LEMMA ShredNext == ASSUME IndInv, BurntRows, [Next]_vars PROVE BurntRows'
<1>1. TypeInv'
  BY TypeNext DEF IndInv
<1>2. ASSUME LogGrows, UNCHANGED <<public_keys, symmetric_keys>> PROVE BurntRows'
  BY <1>1, <1>2, ShredUntouched
<1>3. ASSUME NEW s \in Slots, Process(s) PROVE BurntRows'
  <2>1. CASE ProcessAddKey(s)
    BY <2>1, ShredAddKey
  <2>2. CASE ProcessRevokeKey(s)
    BY <2>2, ShredRevokeKey
  <2>3. CASE ProcessBurnDown(s)
    BY <2>3, ShredBurnDown
  <2>4. CASE ~(ProcessAddKey(s) \/ ProcessRevokeKey(s) \/ ProcessBurnDown(s))
    <3>1. UNCHANGED <<public_keys, symmetric_keys, log>>
      BY <1>3, <2>4 DEF Process, RejectSymmetricKeys, ProcessRejected, DatabaseFault,
         ProcessMoveIdentity, ProcessFireproof, ProcessUndoFireproof, SetFireproof,
         ProcessAddAuxData, ProcessRevokeAuxData, database
    <3> QED
      BY <1>2, <3>1 DEF LogGrows
  <2> QED
    BY <2>1, <2>2, <2>3, <2>4
<1>4. ASSUME NEW a \in Actors, CryptoShred(a) PROVE BurntRows'
  BY <1>4, ShredCryptoShred
<1>5. ASSUME NEW s \in Slots, Validate(s) PROVE BurntRows'
  <2>1. UNCHANGED <<public_keys, symmetric_keys, log>>
    BY <1>5, ValidateAccepts DEF Accept, database
  <2> QED
    BY <1>2, <2>1 DEF LogGrows
<1>6. ASSUME NEW s \in Slots, Submit(s) PROVE BurntRows'
  <2>1. UNCHANGED <<public_keys, symmetric_keys>>
    BY <1>6 DEF Submit, SubmitMessage, SubmitRefused, SubmitUnanswered, database
  <2>2. ASSUME log' = Append(log, msg[s]), pc[s] = "validated" PROVE LogGrows
    <3>1. log \in Seq(Message) /\ msg[s] \in Message
      BY <2>2 DEF IndInv, TypeInv, TypeOK, RequestsOK
    <3> QED
      BY <2>2, <3>1, AppendRow DEF LogGrows
  <2>3. LogGrows
    BY <1>6, <2>2 DEF Submit, SubmitMessage, SubmitRefused, SubmitUnanswered, LogGrows
  <2> QED
    BY <1>2, <2>1, <2>3
<1>7. CASE Crash \/ UNCHANGED vars
  <2>1. UNCHANGED <<public_keys, symmetric_keys, log>>
    BY <1>7 DEF Crash, database, vars
  <2> QED
    BY <1>2, <2>1 DEF LogGrows
<1> QED
  BY <1>3, <1>4, <1>5, <1>6, <1>7 DEF Next

-----------------------------------------------------------------------------
\* Revoking all keys and crypto-shredding data for an actor (service.go:198): once a
\* burn has revoked a row, no symmetric key is stored for it or an older row of its
\* actor, whatever follows.
THEOREM BurnShredsAll == Spec => []ShredComplete
<1>1. Init => BurntRows
  BY ShredInit
<1>2. IndInv /\ BurntRows /\ [Next]_vars => BurntRows'
  BY ShredNext
<1>3. BurntRows => ShredComplete
  BY BurntRowsShredded
<1> QED
  BY <1>1, <1>2, <1>3, Safety, PTL DEF Spec

-----------------------------------------------------------------------------
(* One request at a time.                                                   *)

OneRequest == \A s, t \in Slots : s = t

(* With one request in flight its entry is the last of the log.             *)
LastEntry == \A s \in Slots : pc[s] = "logged" => root[s] = Len(log)

LEMMA LastEntryNext ==
    ASSUME OneRequest, IndInv, LastEntry, [Next]_vars
    PROVE  LastEntry'
<1>1. /\ pc \in [Slots -> {"idle", "validated", "logged"}]
      /\ root \in [Slots -> Nat \cup {NoRoot}]
  BY DEF IndInv, TypeInv, TypeOK
<1>2. ASSUME NEW s \in Slots, Validate(s) PROVE LastEntry'
  BY <1>1, <1>2, ValidateAccepts DEF OneRequest, Accept, LastEntry
<1>3. ASSUME NEW s \in Slots, Submit(s) PROVE LastEntry'
  BY <1>1, <1>3 DEF OneRequest, Submit, SubmitMessage, SubmitRefused, SubmitUnanswered,
     Finish, LastEntry
<1>4. ASSUME NEW s \in Slots, Process(s) PROVE LastEntry'
  <2>1. Finish(s)
    BY <1>4 DEF Process, RejectSymmetricKeys, ProcessAddKey, ProcessRevokeKey,
       ProcessMoveIdentity, ProcessBurnDown, ProcessFireproof, ProcessUndoFireproof,
       SetFireproof, ProcessAddAuxData, ProcessRevokeAuxData, ProcessRejected, DatabaseFault
  <2> QED
    BY <1>1, <2>1 DEF OneRequest, Finish, LastEntry
<1>5. ASSUME NEW a \in Actors, CryptoShred(a) PROVE LastEntry'
  BY <1>5 DEF CryptoShred, requests, LastEntry
<1>6. CASE Crash \/ UNCHANGED vars
  BY <1>6 DEF Crash, vars, LastEntry
<1> QED
  BY <1>2, <1>3, <1>4, <1>5, <1>6 DEF Next

\* What a step does to the key rows: nothing, one more, or a root for live ones.
LEMMA KeySteps ==
    ASSUME IndInv, [Next]_vars
    PROVE  \/ public_keys' = public_keys
           \/ \E s \in Slots : ProcessAddKey(s)
           \/ \E s \in Slots, i \in DOMAIN public_keys :
                /\ ProcessRevokeKey(s)
                /\ i \in FindKeyToRevoke(msg[s].actor, msg[s].public_key)
                /\ Revokes({i}, root[s])
           \/ \E s \in Slots : \E rows : ProcessBurnDown(s) /\ Revokes(rows, root[s])
           \/ \E rows : UNCHANGED log /\ Revokes(rows, AdminRoot)
<1>1. ASSUME NEW s \in Slots, ProcessRevokeKey(s)
      PROVE  \E i \in DOMAIN public_keys :
               /\ i \in FindKeyToRevoke(msg[s].actor, msg[s].public_key)
               /\ Revokes({i}, root[s])
  <2>1. PICK i \in FindKeyToRevoke(msg[s].actor, msg[s].public_key) :
          public_keys' = RevokeKey(i, root[s])
    BY <1>1 DEF ProcessRevokeKey
  <2>2. i \in DOMAIN public_keys /\ public_keys[i].revoke_root = NoRoot
    BY DEF FindKeyToRevoke, ListKeysForActor
  <2>3. \A j \in DOMAIN public_keys : public_keys[j] \in KeyRow
    BY Numbers DEF IndInv
  <2>4. Revokes({i}, root[s])
    BY <2>1, <2>2, <2>3 DEF RevokeKey, Revokes, KeyRow
  <2> QED
    BY <2>2, <2>4
<1>2. ASSUME NEW s \in Slots, ProcessBurnDown(s) PROVE \E rows : Revokes(rows, root[s])
  BY <1>2, BurnRevokes DEF IndInv, ProcessBurnDown
<1>3. ASSUME NEW a \in Actors, CryptoShred(a)
      PROVE  UNCHANGED log /\ \E rows : Revokes(rows, AdminRoot)
  BY <1>3, BurnRevokes DEF IndInv, CryptoShred
<1>4. ASSUME NEW s \in Slots, Process(s),
             ~ProcessAddKey(s), ~ProcessRevokeKey(s), ~ProcessBurnDown(s)
      PROVE  public_keys' = public_keys
  BY <1>4 DEF Process, RejectSymmetricKeys, ProcessRejected, DatabaseFault,
     ProcessMoveIdentity, ProcessFireproof, ProcessUndoFireproof, SetFireproof,
     ProcessAddAuxData, ProcessRevokeAuxData, database
<1>5. ASSUME NEW s \in Slots, Validate(s) PROVE public_keys' = public_keys
  BY <1>5, ValidateAccepts DEF Accept, database
<1>6. ASSUME NEW s \in Slots, Submit(s) PROVE public_keys' = public_keys
  BY <1>6 DEF Submit, SubmitMessage, SubmitRefused, SubmitUnanswered, database
<1>7. CASE Crash \/ UNCHANGED vars
  BY <1>7 DEF Crash, vars, database
<1> QED
  BY <1>1, <1>2, <1>3, <1>4, <1>5, <1>6, <1>7 DEF Next

LEMMA LogOrderNext ==
    ASSUME OneRequest, IndInv, LastEntry, LogOrder, [Next]_vars
    PROVE  LogOrder'
<1>1. /\ DOMAIN public_keys = 1..Len(public_keys) /\ Len(public_keys) \in Nat
      /\ DOMAIN log = 1..Len(log) /\ Len(log) \in Nat
      /\ \A i \in DOMAIN public_keys : public_keys[i].merkle_root \in DOMAIN log
  BY Numbers DEF IndInv, KeyInv, KeyEventsLogged
<1>2. ASSUME NEW s \in Slots, pc[s] = "logged", NEW i \in DOMAIN public_keys
      PROVE  root[s] \in Nat /\ public_keys[i].merkle_root < root[s]
  <2>1. root[s] = Len(log) /\ public_keys[i].merkle_root # root[s]
    BY <1>2 DEF LastEntry, IndInv, RequestInv, RootsFresh
  <2> QED
    BY <1>1, <2>1
<1>3. CASE public_keys' = public_keys
  BY <1>3 DEF LogOrder
<1>4. ASSUME NEW s \in Slots, ProcessAddKey(s) PROVE LogOrder'
  <2> DEFINE n == Len(public_keys) + 1
             new == [actor_id    |-> ActorID(actors', msg[s].actor),
                     public_key  |-> msg[s].public_key,
                     merkle_root |-> root[s],
                     revoke_root |-> NoRoot]
  <2>1. /\ public_keys' = Append(public_keys, new) /\ pc[s] = "logged"
        /\ new.merkle_root = root[s] /\ new.revoke_root = NoRoot
    BY <1>4 DEF ProcessAddKey, Processing
  <2> HIDE DEF new
  <2>2. /\ DOMAIN public_keys' = 1..n
        /\ \A i \in DOMAIN public_keys : public_keys'[i] = public_keys[i]
        /\ public_keys'[n] = new
    <3>1. public_keys \in Seq(KeyRow)
      BY DEF IndInv, TypeInv, TypeOK
    <3> QED
      BY <2>1, <3>1
  <2>3. ASSUME NEW i \in 1..n, NEW j \in 1..n, i < j
        PROVE  public_keys'[i].merkle_root < public_keys'[j].merkle_root
    <3>1. i \in DOMAIN public_keys
      BY <1>1, <2>3
    <3>2. CASE j = n
      BY <1>2, <2>1, <2>2, <3>1, <3>2
    <3>3. CASE j # n
      <4>1. j \in DOMAIN public_keys
        BY <1>1, <3>3
      <4> QED
        BY <2>2, <2>3, <3>1, <4>1 DEF LogOrder
    <3> QED
      BY <3>2, <3>3
  <2>4. ASSUME NEW i \in 1..n, public_keys'[i].revoke_root \in Nat
        PROVE  public_keys'[i].merkle_root < public_keys'[i].revoke_root
    <3>1. i \in DOMAIN public_keys
      BY <1>1, <2>1, <2>2, <2>4, ConstantsAssumption
    <3> QED
      BY <2>2, <2>4, <3>1 DEF LogOrder
  <2> QED
    BY <2>2, <2>3, <2>4 DEF LogOrder
<1>5. ASSUME NEW rows, NEW r, Revokes(rows, r),
             r = AdminRoot \/ \E s \in Slots : pc[s] = "logged" /\ r = root[s]
      PROVE  LogOrder'
  <2>1. ASSUME NEW i \in rows, r \in Nat PROVE public_keys[i].merkle_root < r
    BY <1>2, <1>5, <2>1, ConstantsAssumption DEF Revokes
  <2> QED
    BY <1>5, <2>1 DEF Revokes, LogOrder
<1> QED
  BY <1>3, <1>4, <1>5, KeySteps DEF ProcessRevokeKey, ProcessBurnDown, Processing

\* Rows enter the directory in log order, and a key is revoked by a later entry than
\* the one that added it, when requests are handled one at a time.
THEOREM SerialLogOrder == ASSUME OneRequest PROVE Spec => []LogOrder
<1>1. Init => LastEntry /\ LogOrder
  BY DEF Init, LastEntry, LogOrder
<1>2. IndInv /\ LastEntry /\ LogOrder /\ [Next]_vars => LastEntry' /\ LogOrder'
  BY LastEntryNext, LogOrderNext
<1> QED
  BY <1>1, <1>2, Safety, PTL DEF Spec

-----------------------------------------------------------------------------
(* What validation saw, with one request and no administrator's shred.      *)

Undisturbed == OneRequest /\ Shreddable = {}

Vouched(m) ==
    /\ m.action = "AddKey" =>
         IF ListKeysForActor(m.actor) = {} THEN m.signer = m.public_key
                                           ELSE SignedByKeyOf(m, m.actor)
    /\ m.action = "RevokeKey" => m.signer # m.public_key
    /\ m.action \in {"RevokeKey", "Fireproof", "AddAuxData"} => SignedByKeyOf(m, m.actor)

Snapshot == \A s \in Slots : pc[s] # "idle" => Vouched(msg[s])

LEMMA ValidateVouches ==
    ASSUME NEW s \in Slots, Validate(s)
    PROVE  \E m \in Messages : Accept(s, m) /\ Vouched(m)
<1>1. PICK m \in Messages :
        \/ ValidateAddKey(s, m) \/ ValidateRevokeKey(s, m) \/ ValidateMoveIdentity(s, m)
        \/ ValidateBurnDown(s, m) \/ ValidateFireproof(s, m) \/ ValidateUndoFireproof(s, m)
        \/ ValidateAddAuxData(s, m) \/ ValidateRevokeAuxData(s, m)
  BY DEF Validate
<1>2. Accept(s, m)
  BY <1>1 DEF ValidateAddKey, ValidateRevokeKey, ValidateMoveIdentity, ValidateBurnDown,
     ValidateFireproof, ValidateUndoFireproof, ValidateAddAuxData, ValidateRevokeAuxData
<1>3. Vouched(m)
  BY <1>1 DEF ValidateAddKey, ValidateRevokeKey, ValidateMoveIdentity, ValidateBurnDown,
     ValidateFireproof, ValidateUndoFireproof, ValidateAddAuxData, ValidateRevokeAuxData, Vouched
<1> QED
  BY <1>2, <1>3

LEMMA VouchedStays ==
    ASSUME NEW m, Vouched(m), UNCHANGED <<actors, public_keys>>
    PROVE  Vouched(m)'
BY DEF Vouched, ListKeysForActor, SignedByKeyOf

LEMMA SnapshotNext ==
    ASSUME Undisturbed, IndInv, Snapshot, [Next]_vars
    PROVE  Snapshot'
<1>1. /\ pc \in [Slots -> {"idle", "validated", "logged"}]
      /\ msg \in [Slots -> Message \cup {NoMsg}]
      /\ \A s, t \in Slots : s = t
  BY DEF IndInv, TypeInv, TypeOK, Undisturbed, OneRequest
<1>2. ASSUME NEW s \in Slots, Finish(s) PROVE Snapshot'
  BY <1>1, <1>2 DEF Finish, Snapshot
<1>3. ASSUME UNCHANGED <<actors, public_keys>>, NEW s \in Slots, NEW m, Vouched(m),
             msg'[s] = m
      PROVE  Snapshot'
  BY <1>1, <1>3, VouchedStays DEF Snapshot
<1>4. ASSUME NEW s \in Slots, Validate(s) PROVE Snapshot'
  <2>1. PICK m \in Messages : Accept(s, m) /\ Vouched(m)
    BY <1>4, ValidateVouches
  <2> QED
    BY <1>1, <1>3, <2>1 DEF Accept, database
<1>5. ASSUME NEW s \in Slots, Submit(s) PROVE Snapshot'
  <2>1. CASE SubmitMessage(s)
    BY <1>1, <1>3, <2>1 DEF SubmitMessage, database, Snapshot
  <2> QED
    BY <1>2, <1>5, <2>1 DEF Submit, SubmitRefused, SubmitUnanswered
<1>6. ASSUME NEW s \in Slots, Process(s) PROVE Snapshot'
  BY <1>2, <1>6 DEF Process, RejectSymmetricKeys, ProcessAddKey, ProcessRevokeKey,
     ProcessMoveIdentity, ProcessBurnDown, ProcessFireproof, ProcessUndoFireproof,
     SetFireproof, ProcessAddAuxData, ProcessRevokeAuxData, ProcessRejected, DatabaseFault
<1>7. ASSUME NEW a \in Actors, CryptoShred(a) PROVE FALSE
  BY <1>7 DEF CryptoShred, Undisturbed
<1>8. CASE Crash
  BY <1>8 DEF Crash, Snapshot
<1>9. CASE UNCHANGED vars
  BY <1>9 DEF vars, Snapshot, Vouched, ListKeysForActor, SignedByKeyOf
<1> QED
  BY <1>4, <1>5, <1>6, <1>7, <1>8, <1>9 DEF Next

-----------------------------------------------------------------------------
(* Who signed what, and the last key.                                       *)

\* Rows of one name are rows of one account.
LEMMA SameAccount ==
    ASSUME IndInv, NEW a,
           NEW i \in DOMAIN public_keys, actors[public_keys[i].actor_id].actor_id = a
    PROVE  /\ public_keys[i].actor_id \in DOMAIN actors
           /\ ActorExists(a)
           /\ ActorID(actors, a) = public_keys[i].actor_id
<1>1. public_keys[i].actor_id \in DOMAIN actors
  BY DEF IndInv, TypeInv, TypeOK
<1>2. \E r \in DOMAIN actors : actors[r].actor_id = a
  BY <1>1
<1>3. ActorID(actors, a) \in DOMAIN actors /\ actors[ActorID(actors, a)].actor_id = a
  BY <1>2, ActorIDFound
<1> QED
  BY <1>1, <1>2, <1>3 DEF IndInv, ActorNamesUnique, ActorExists

\* A signer is well-formed, so the key that verifies the signature is a usable one.
LEMMA SignerUsable ==
    ASSUME IndInv, NEW m \in Message, NEW a, SignedByKeyOf(m, a),
           m.action \in {"AddKey", "RevokeKey"}
    PROVE  \E j \in UsableKeys(ActorID(actors, a)) : public_keys[j].public_key = m.signer
<1>1. PICK j \in ListKeysForActor(a) : public_keys[j].public_key = m.signer
  BY DEF SignedByKeyOf
<1>2. public_keys[j].actor_id = ActorID(actors, a)
  BY SameAccount DEF ListKeysForActor
<1>3. m.signer \notin Malformed
  BY MessageFields DEF Signers
<1> QED
  BY <1>1, <1>2, <1>3 DEF ListKeysForActor, UsableKeys

LEMMA LastKeyNext == ASSUME IndInv, Snapshot, [Next]_vars PROVE LastKeyStaysStep
<1> SUFFICES ASSUME NEW r \in DOMAIN actors, UsableKeys(r) # {}, UsableKeys(r)' = {},
                    NEW i \in UsableKeys(r)
             PROVE  public_keys'[i].revoke_root \in BurnRoots
  BY DEF LastKeyStaysStep
<1>1. i \in DOMAIN public_keys /\ public_keys[i].revoke_root = NoRoot /\ i \notin UsableKeys(r)'
  BY DEF UsableKeys
<1>2. CASE public_keys' = public_keys
  BY <1>1, <1>2 DEF UsableKeys
<1>3. ASSUME NEW s \in Slots, ProcessAddKey(s) PROVE FALSE
  <2>1. PICK e : public_keys' = Append(public_keys, e)
    BY <1>3 DEF ProcessAddKey
  <2>2. public_keys \in Seq(KeyRow)
    BY DEF IndInv, TypeInv, TypeOK
  <2>3. i \in DOMAIN public_keys' /\ public_keys'[i] = public_keys[i]
    BY <1>1, <2>1, <2>2
  <2> QED
    BY <1>1, <2>3 DEF UsableKeys
<1>4. ASSUME NEW s \in Slots, NEW k \in FindKeyToRevoke(msg[s].actor, msg[s].public_key),
             ProcessRevokeKey(s), Revokes({k}, root[s])
      PROVE  FALSE
  <2> DEFINE m == msg[s]
  <2>1. m \in Message /\ m.action = "RevokeKey"
    BY <1>4, ProcessingTyped DEF ProcessRevokeKey, Processing, IndInv
  <2>2. m.signer # m.public_key /\ SignedByKeyOf(m, m.actor)
    BY <1>4, <2>1 DEF ProcessRevokeKey, Processing, Snapshot, Vouched
  <2>3. PICK j \in UsableKeys(ActorID(actors, m.actor)) : public_keys[j].public_key = m.signer
    BY <2>1, <2>2, SignerUsable
  <2>4. k \in DOMAIN public_keys /\ public_keys[k].public_key = m.public_key
        /\ public_keys[k].actor_id = ActorID(actors, m.actor)
    BY SameAccount DEF FindKeyToRevoke, ListKeysForActor
  <2>5. \A l \in DOMAIN public_keys : l # k =>
          (l \in UsableKeys(r) => l \in UsableKeys(r)')
    BY <1>4 DEF Revokes, UsableKeys
  <2>6. CASE r = ActorID(actors, m.actor)
    BY <2>2, <2>3, <2>4, <2>5, <2>6 DEF UsableKeys
  <2>7. CASE r # ActorID(actors, m.actor)
    BY <1>1, <2>4, <2>5, <2>7 DEF UsableKeys
  <2> QED
    BY <2>6, <2>7
<1>5. ASSUME NEW rows, NEW b \in BurnRoots, Revokes(rows, b)
      PROVE  public_keys'[i].revoke_root \in BurnRoots
  BY <1>1, <1>5 DEF Revokes, UsableKeys
<1>6. AdminRoot \in BurnRoots
  BY DEF BurnRoots
<1>7. \A s \in Slots : ProcessBurnDown(s) => root[s] \in BurnRoots
  BY ProcessingTyped DEF ProcessBurnDown, Processing, BurnRoots, IndInv
<1> QED
  BY <1>2, <1>3, <1>4, <1>5, <1>6, <1>7, KeySteps

\* Cannot revoke the last key with RevokeKey, use BurnDown instead
\* (protocol_actions.go:130), when requests are handled one at a time.
THEOREM SerialLastKey == ASSUME Undisturbed PROVE Spec => LastKeyStays
<1>1. Init => Snapshot
  BY DEF Init, Snapshot
<1>2. IndInv /\ Snapshot /\ [Next]_vars => Snapshot'
  BY SnapshotNext
<1>3. IndInv /\ Snapshot /\ [Next]_vars => [LastKeyStaysStep]_vars
  BY LastKeyNext
<1> QED
  BY <1>1, <1>2, <1>3, Safety, PTL DEF Spec, LastKeyStays

LEMMA SignedNext == ASSUME IndInv, Snapshot, [Next]_vars PROVE SignedByExistingKeyStep
<1> SUFFICES ASSUME NEW i \in DOMAIN public_keys', i \notin DOMAIN public_keys
             PROVE  LET owner  == public_keys'[i].actor_id
                        signer == log[public_keys'[i].merkle_root].signer
                    IN  IF UsableKeys(owner) = {} THEN signer = public_keys'[i].public_key
                        ELSE \E j \in UsableKeys(owner) : public_keys[j].public_key = signer
  BY DEF SignedByExistingKeyStep
<1>1. PICK s \in Slots : ProcessAddKey(s)
  BY KeySteps DEF Revokes
<1> DEFINE m == msg[s]
           a == m.actor
           n == Len(public_keys) + 1
           new == [actor_id    |-> ActorID(actors', a),
                   public_key  |-> m.public_key,
                   merkle_root |-> root[s],
                   revoke_root |-> NoRoot]
<1>2. /\ m \in Message /\ m.action = "AddKey" /\ log[root[s]] = m /\ a \in Actors
      /\ pc[s] = "logged"
  BY <1>1, ProcessingTyped, MessageFields DEF ProcessAddKey, Processing, IndInv
<1>3. IF ListKeysForActor(a) = {} THEN m.signer = m.public_key ELSE SignedByKeyOf(m, a)
  BY <1>2 DEF Snapshot, Vouched
<1>4. public_keys' = Append(public_keys, new) /\ actors' = GetOrCreateActor(a)
  BY <1>1 DEF ProcessAddKey
<1>5. /\ new.actor_id = ActorID(actors', a) /\ new.public_key = m.public_key
      /\ new.merkle_root = root[s]
  OBVIOUS
<1> HIDE DEF new
<1>6. public_keys'[i] = new
  <2>1. public_keys \in Seq(KeyRow)
    BY DEF IndInv, TypeInv, TypeOK
  <2> QED
    BY <1>4, <2>1
<1> HIDE DEF m, n
<1>7. CASE ListKeysForActor(a) = {}
  <2>1. ASSUME NEW j \in UsableKeys(ActorID(actors', a)) PROVE FALSE
    <3>1. j \in DOMAIN public_keys /\ public_keys[j].revoke_root = NoRoot
          /\ public_keys[j].actor_id = ActorID(actors', a)
          /\ public_keys[j].actor_id \in DOMAIN actors
      BY <2>1 DEF UsableKeys, IndInv, TypeInv, TypeOK
    <3>2. \E r \in DOMAIN actors' : actors'[r].actor_id = a
      <4>1. CASE ActorExists(a)
        BY <1>4, <4>1 DEF GetOrCreateActor, ActorExists
      <4>2. CASE ~ActorExists(a)
        <5> DEFINE row == [actor_id |-> a, is_fireproof |-> FALSE]
        <5>1. row \in ActorRow /\ row.actor_id = a
          BY <1>2 DEF ActorRow
        <5>2. actors' = Append(actors, row) /\ actors \in Seq(ActorRow)
          BY <1>4, <4>2 DEF GetOrCreateActor, IndInv, TypeInv, TypeOK
        <5> HIDE DEF row
        <5> QED
          BY <5>1, <5>2, AppendRow
      <4> QED
        BY <4>1, <4>2
    <3>3. actors'[ActorID(actors', a)].actor_id = a
      BY <3>2, ActorIDFound
    <3>4. actors'[public_keys[j].actor_id] = actors[public_keys[j].actor_id]
      <4>1. actors \in Seq(ActorRow)
        BY DEF IndInv, TypeInv, TypeOK
      <4> QED
        BY <1>4, <3>1, <4>1 DEF GetOrCreateActor
    <3>5. j \in ListKeysForActor(a)
      BY <3>1, <3>3, <3>4 DEF ListKeysForActor
    <3> QED
      BY <1>7, <3>5
  <2>2. UsableKeys(ActorID(actors', a)) = {}
    BY <2>1
  <2> QED
    BY <1>2, <1>3, <1>5, <1>6, <1>7, <2>2
<1>8. CASE ListKeysForActor(a) # {}
  <2>1. \E j \in UsableKeys(ActorID(actors, a)) : public_keys[j].public_key = m.signer
    BY <1>2, <1>3, <1>8, SignerUsable
  <2>2. ActorExists(a)
    BY <1>8, SameAccount DEF ListKeysForActor
  <2>3. actors' = actors
    BY <1>4, <2>2 DEF GetOrCreateActor
  <2> QED
    BY <1>2, <1>5, <1>6, <2>1, <2>3
<1> QED
  BY <1>7, <1>8

\* The first key must be self-signed, subsequent keys must be signed by an existing
\* valid key of that actor (protocol_actions.go:26), when requests are handled one at
\* a time.
THEOREM SerialSigners == ASSUME Undisturbed PROVE Spec => SignedByExistingKey
<1>1. Init => Snapshot
  BY DEF Init, Snapshot
<1>2. IndInv /\ Snapshot /\ [Next]_vars => Snapshot'
  BY SnapshotNext
<1>3. IndInv /\ Snapshot /\ [Next]_vars => [SignedByExistingKeyStep]_vars
  BY SignedNext
<1> QED
  BY <1>1, <1>2, <1>3, Safety, PTL DEF Spec, SignedByExistingKey

-----------------------------------------------------------------------------
(* Whose signature an account's flag and auxiliary data carry.              *)

\* Key k is or was enrolled for account r.
KeyOf(r, k) ==
    \E i \in DOMAIN public_keys : public_keys[i].actor_id = r /\ public_keys[i].public_key = k

LEMMA OwnerForm ==
    SignedByOwner <=>
        /\ \A r \in DOMAIN actors : actors[r].is_fireproof =>
             \E e \in DOMAIN log : log[e].action = "Fireproof" /\ KeyOf(r, log[e].signer)
        /\ \A i \in DOMAIN auxiliary_data :
             KeyOf(auxiliary_data[i].actor_id, log[auxiliary_data[i].merkle_root].signer)
BY DEF SignedByOwner, KeyOf

\* After the step.
StillKeyOf(r, k) ==
    \E i \in DOMAIN public_keys' : public_keys'[i].actor_id = r /\ public_keys'[i].public_key = k

LEMMA KeyOfStays ==
    ASSUME IndInv, [Next]_vars, NEW r, NEW k, KeyOf(r, k)
    PROVE  StillKeyOf(r, k)
BY KeyHistoryNext DEF KeyHistoryStep, KeyOf, StillKeyOf

LEMMA LogKept == ASSUME IndInv, [Next]_vars PROVE LogGrows
<1>1. log \in Seq(Message)
  BY DEF IndInv, TypeInv, TypeOK
<1>2. ASSUME log' = log PROVE LogGrows
  BY <1>2 DEF LogGrows
<1>3. ASSUME NEW s \in Slots, Validate(s) PROVE log' = log
  BY <1>3, ValidateAccepts DEF Accept
<1>4. ASSUME NEW s \in Slots, Submit(s) PROVE LogGrows
  BY <1>1, <1>2, <1>4 DEF Submit, SubmitMessage, SubmitRefused, SubmitUnanswered, LogGrows
<1>5. ASSUME NEW s \in Slots, Process(s) PROVE log' = log
  BY <1>5 DEF Process, RejectSymmetricKeys, ProcessAddKey, ProcessRevokeKey,
     ProcessMoveIdentity, ProcessBurnDown, ProcessFireproof, ProcessUndoFireproof,
     SetFireproof, ProcessAddAuxData, ProcessRevokeAuxData, ProcessRejected, DatabaseFault
<1>6. ASSUME NEW a \in Actors, CryptoShred(a) PROVE log' = log
  BY <1>6 DEF CryptoShred
<1>7. CASE Crash \/ UNCHANGED vars
  BY <1>2, <1>7 DEF Crash, vars
<1> QED
  BY <1>2, <1>3, <1>4, <1>5, <1>6, <1>7 DEF Next

\* A name somebody signed for has an account, and the signer is one of its keys.
LEMMA SignerOwns ==
    ASSUME IndInv, NEW m, NEW a, SignedByKeyOf(m, a)
    PROVE  /\ ActorExists(a)
           /\ ActorID(actors, a) \in DOMAIN actors
           /\ KeyOf(ActorID(actors, a), m.signer)
<1>1. PICK i \in ListKeysForActor(a) : public_keys[i].public_key = m.signer
  BY DEF SignedByKeyOf
<1> QED
  BY <1>1, SameAccount DEF ListKeysForActor, KeyOf

\* What a step does to the flags: none is set but by a Fireproof of that account.
LEMMA FireproofSteps ==
    ASSUME IndInv, Snapshot, [Next]_vars,
           NEW r \in DOMAIN actors', actors'[r].is_fireproof
    PROVE  \/ r \in DOMAIN actors /\ actors[r].is_fireproof
           \/ \E s \in Slots : ProcessFireproof(s) /\ r = ActorID(actors, msg[s].actor)
<1>1. actors \in Seq(ActorRow)
  BY DEF IndInv, TypeInv, TypeOK
<1>2. ASSUME NEW a \in Actors, actors' = GetOrCreateActor(a)
      PROVE  r \in DOMAIN actors /\ actors[r].is_fireproof
  <2> DEFINE row == [actor_id |-> a, is_fireproof |-> FALSE]
  <2>1. row \in ActorRow /\ ~row.is_fireproof
    BY DEF ActorRow
  <2>2. actors' = actors \/ actors' = Append(actors, row)
    BY <1>2 DEF GetOrCreateActor
  <2> HIDE DEF row
  <2> QED
    BY <1>1, <2>1, <2>2, AppendRow
<1>3. ASSUME NEW s \in Slots, ProcessMoveIdentity(s)
      PROVE  r \in DOMAIN actors /\ actors[r].is_fireproof
  <2> DEFINE id == ActorID(actors, msg[s].old_actor)
  <2>1. actors' = [actors EXCEPT ![id].actor_id = msg[s].new_actor]
    BY <1>3 DEF ProcessMoveIdentity
  <2>2. \A i \in DOMAIN actors : actors[i] \in ActorRow
    BY <1>1
  <2> HIDE DEF id
  <2> QED
    BY <2>1, <2>2 DEF ActorRow
<1>4. ASSUME NEW s \in Slots, NEW flag \in BOOLEAN, SetFireproof(s, flag),
             r # ActorID(actors, msg[s].actor) \/ ~flag
      PROVE  r \in DOMAIN actors /\ actors[r].is_fireproof
  <2> DEFINE id == ActorID(actors, msg[s].actor)
  <2>1. actors' = [actors EXCEPT ![id].is_fireproof = flag]
    BY <1>4 DEF SetFireproof
  <2>2. \A i \in DOMAIN actors : actors[i] \in ActorRow
    BY <1>1
  <2>3. r \in DOMAIN actors
    BY <2>1
  <2>4. r # id
    <3> SUFFICES ASSUME r = id PROVE FALSE
      OBVIOUS
    <3>1. actors'[r] = [actors[r] EXCEPT !.is_fireproof = flag]
      BY <2>1, <2>3
    <3>2. actors'[r].is_fireproof = flag
      BY <2>2, <2>3, <3>1 DEF ActorRow
    <3> QED
      BY <1>4, <3>2
  <2> HIDE DEF id
  <2>5. actors'[r] = actors[r]
    BY <2>1, <2>3, <2>4
  <2> QED
    BY <2>3, <2>5
<1>5. ASSUME NEW s \in Slots, ProcessAddKey(s) \/ ProcessAddAuxData(s)
      PROVE  r \in DOMAIN actors /\ actors[r].is_fireproof
  <2>1. msg[s].actor \in Actors
    BY <1>5, ProcessingTyped, MessageFields
       DEF ProcessAddKey, ProcessAddAuxData, Processing, IndInv
  <2> QED
    BY <1>2, <1>5, <2>1 DEF ProcessAddKey, ProcessAddAuxData
<1>6. ASSUME NEW s \in Slots, Process(s)
      PROVE  \/ r \in DOMAIN actors /\ actors[r].is_fireproof
             \/ ProcessFireproof(s) /\ r = ActorID(actors, msg[s].actor)
  <2>1. ASSUME actors' = actors PROVE r \in DOMAIN actors /\ actors[r].is_fireproof
    BY <2>1
  <2>2. CASE ProcessFireproof(s)
    BY <1>4, <2>2 DEF ProcessFireproof
  <2>3. CASE ProcessUndoFireproof(s)
    BY <1>4, <2>3 DEF ProcessUndoFireproof
  <2> QED
    BY <1>3, <1>5, <1>6, <2>1, <2>2, <2>3 DEF Process, RejectSymmetricKeys, ProcessRevokeKey,
       ProcessBurnDown, ProcessRevokeAuxData, ProcessRejected, DatabaseFault, database
<1>7. ASSUME NEW s \in Slots, Validate(s) \/ Submit(s) PROVE actors' = actors
  BY <1>7, ValidateAccepts DEF Accept, database, Submit, SubmitMessage, SubmitRefused,
     SubmitUnanswered
<1>8. (\E a \in Actors : CryptoShred(a)) \/ Crash \/ UNCHANGED vars => actors' = actors
  BY DEF CryptoShred, Crash, vars, database
<1> QED
  BY <1>6, <1>7, <1>8 DEF Next

\* What a step does to the auxiliary data: rows keep their account and entry, and a
\* new one comes from an AddAuxData.
LEMMA AuxSteps ==
    ASSUME IndInv, [Next]_vars, NEW i \in DOMAIN auxiliary_data'
    PROVE  \/ /\ i \in DOMAIN auxiliary_data
              /\ auxiliary_data'[i].actor_id = auxiliary_data[i].actor_id
              /\ auxiliary_data'[i].merkle_root = auxiliary_data[i].merkle_root
           \/ \E s \in Slots :
                /\ ProcessAddAuxData(s)
                /\ auxiliary_data'[i].actor_id = ActorID(actors', msg[s].actor)
                /\ auxiliary_data'[i].merkle_root = root[s]
<1>1. /\ auxiliary_data \in Seq(AuxRow)
      /\ \A j \in DOMAIN auxiliary_data : auxiliary_data[j] \in AuxRow
  BY DEF IndInv, TypeInv, TypeOK
<1>2. ASSUME NEW s \in Slots, ProcessAddAuxData(s)
      PROVE  \/ i \in DOMAIN auxiliary_data /\ auxiliary_data'[i] = auxiliary_data[i]
             \/ /\ auxiliary_data'[i].actor_id = ActorID(actors', msg[s].actor)
                /\ auxiliary_data'[i].merkle_root = root[s]
  <2> DEFINE new == [actor_id |-> ActorID(actors', msg[s].actor), merkle_root |-> root[s],
                     revoke_root |-> NoRoot]
  <2>1. auxiliary_data' = Append(auxiliary_data, new)
    BY <1>2 DEF ProcessAddAuxData
  <2>2. new.actor_id = ActorID(actors', msg[s].actor) /\ new.merkle_root = root[s]
    OBVIOUS
  <2> HIDE DEF new
  <2> QED
    BY <1>1, <2>1, <2>2
<1>3. ASSUME NEW s \in Slots, ProcessRevokeAuxData(s)
      PROVE  /\ i \in DOMAIN auxiliary_data
             /\ auxiliary_data'[i].actor_id = auxiliary_data[i].actor_id
             /\ auxiliary_data'[i].merkle_root = auxiliary_data[i].merkle_root
  BY <1>1, <1>3 DEF ProcessRevokeAuxData, AuxRow
<1>4. ASSUME NEW s \in Slots, Process(s), ~ProcessAddAuxData(s), ~ProcessRevokeAuxData(s)
      PROVE  auxiliary_data' = auxiliary_data
  BY <1>4 DEF Process, RejectSymmetricKeys, ProcessAddKey, ProcessRevokeKey,
     ProcessMoveIdentity, ProcessBurnDown, ProcessFireproof, ProcessUndoFireproof,
     SetFireproof, ProcessRejected, DatabaseFault, database
<1>5. ASSUME NEW s \in Slots, Validate(s) \/ Submit(s) PROVE auxiliary_data' = auxiliary_data
  BY <1>5, ValidateAccepts DEF Accept, database, Submit, SubmitMessage, SubmitRefused,
     SubmitUnanswered
<1>6. (\E a \in Actors : CryptoShred(a)) \/ Crash \/ UNCHANGED vars
        => auxiliary_data' = auxiliary_data
  BY DEF CryptoShred, Crash, vars, database
<1> QED
  BY <1>2, <1>3, <1>4, <1>5, <1>6 DEF Next

LEMMA OwnerNext ==
    ASSUME IndInv, Snapshot, SignedByOwner, [Next]_vars
    PROVE  SignedByOwner'
<1>1. LogGrows
  BY LogKept
<1>2. ASSUME NEW s \in Slots, pc[s] = "logged", msg[s].action \in {"Fireproof", "AddAuxData"}
      PROVE  /\ root[s] \in DOMAIN log /\ log[root[s]] = msg[s]
             /\ ActorExists(msg[s].actor)
             /\ KeyOf(ActorID(actors, msg[s].actor), msg[s].signer)
  <2>1. root[s] \in DOMAIN log /\ log[root[s]] = msg[s]
    BY <1>2, ProcessingTyped DEF IndInv
  <2>2. SignedByKeyOf(msg[s], msg[s].actor)
    BY <1>2 DEF Snapshot, Vouched
  <2> QED
    BY <2>1, <2>2, SignerOwns
<1>3. ASSUME NEW r \in DOMAIN actors', actors'[r].is_fireproof
      PROVE  \E e \in DOMAIN log' :
               log'[e].action = "Fireproof" /\ StillKeyOf(r, log'[e].signer)
  <2>1. ASSUME NEW s \in Slots, ProcessFireproof(s), r = ActorID(actors, msg[s].actor)
        PROVE  \E e \in DOMAIN log : log[e].action = "Fireproof" /\ KeyOf(r, log[e].signer)
    BY <1>2, <2>1 DEF ProcessFireproof, Processing
  <2>2. PICK e \in DOMAIN log : log[e].action = "Fireproof" /\ KeyOf(r, log[e].signer)
    BY <1>3, <2>1, FireproofSteps, OwnerForm
  <2>3. e \in DOMAIN log' /\ log'[e] = log[e]
    BY <1>1 DEF LogGrows
  <2>4. StillKeyOf(r, log[e].signer)
    BY <2>2, KeyOfStays
  <2> QED
    BY <2>2, <2>3, <2>4
<1>4. ASSUME NEW i \in DOMAIN auxiliary_data'
      PROVE  StillKeyOf(auxiliary_data'[i].actor_id,
                        log'[auxiliary_data'[i].merkle_root].signer)
  <2> DEFINE x == auxiliary_data'[i]
  <2>1. x.merkle_root \in DOMAIN log /\ KeyOf(x.actor_id, log[x.merkle_root].signer)
    <3>1. CASE /\ i \in DOMAIN auxiliary_data
               /\ x.actor_id = auxiliary_data[i].actor_id
               /\ x.merkle_root = auxiliary_data[i].merkle_root
      BY <3>1, OwnerForm DEF IndInv, AuxEventsLogged
    <3>2. ASSUME NEW s \in Slots, ProcessAddAuxData(s),
                 x.actor_id = ActorID(actors', msg[s].actor), x.merkle_root = root[s]
          PROVE  x.merkle_root \in DOMAIN log /\ KeyOf(x.actor_id, log[x.merkle_root].signer)
      <4>1. pc[s] = "logged" /\ msg[s].action = "AddAuxData"
        BY <3>2 DEF ProcessAddAuxData, Processing
      <4>2. actors' = actors
        BY <1>2, <3>2, <4>1 DEF ProcessAddAuxData, GetOrCreateActor
      <4> HIDE DEF x
      <4> QED
        BY <1>2, <3>2, <4>1, <4>2
    <3> QED
      BY <3>1, <3>2, AuxSteps
  <2> HIDE DEF x
  <2>2. log'[x.merkle_root] = log[x.merkle_root]
    BY <1>1, <2>1 DEF LogGrows
  <2>3. StillKeyOf(x.actor_id, log[x.merkle_root].signer)
    BY <2>1, KeyOfStays
  <2>4. StillKeyOf(x.actor_id, log'[x.merkle_root].signer)
    BY <2>2, <2>3
  <2> QED
    BY <2>4 DEF x
<1> QED
  BY <1>3, <1>4 DEF SignedByOwner, StillKeyOf

\* A fireproof flag and auxiliary data are the account's own, signed by one of its
\* keys, when requests are handled one at a time.
THEOREM SerialOwner == ASSUME Undisturbed PROVE Spec => []SignedByOwner
<1>1. Init => Snapshot /\ SignedByOwner
  BY DEF Init, Snapshot, SignedByOwner
<1>2. IndInv /\ Snapshot /\ SignedByOwner /\ [Next]_vars => Snapshot' /\ SignedByOwner'
  BY SnapshotNext, OwnerNext
<1> QED
  BY <1>1, <1>2, Safety, PTL DEF Spec
=============================================================================
